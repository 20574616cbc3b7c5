SPECIFICATION FairSpec
CONSTANTS
    url = url
    amp = amp
    Property = {url, amp}
    Type = {"wifi", "lora"}
    AnyType = AnyType
    Devices <- Fleet
    Size <- Sizes
    LoRaBytes = 2
    Never = Never
    Horizon = 3
    MaxFaults = 2
INVARIANTS
    LadderTypeOK
    UnavailableIsForever
    ReportsFollowWrites
PROPERTIES
    DoorsDecay
    HandlerFinishes
