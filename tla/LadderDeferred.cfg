SPECIFICATION FairSpec
CONSTANTS
    url = url
    amp = amp
    Property = {url, amp}
    Type = {"wifi", "lora"}
    AnyType = AnyType
    Devices <- JustWaits
    Size <- Sizes
    LoRaBytes = 2
    Never = Never
    Horizon = 3
    MaxFaults = 0
PROPERTIES
    DeferredIsWritten
