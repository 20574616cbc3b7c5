SPECIFICATION FairSpec
CONSTANTS
    Property = {p}
    Config <- Deployments
    DefaultInterval = 1
    MinRequeue = 1
    MaxRequeue = 3
    MaxBackoff = 1
    CollectCycle = 1
    ReportCycle = 1
    AnyProperty = AnyProperty
    Never = Never
    Horizon = 5
    MaxFaults = 2
INVARIANTS
    ReportingTypeOK
    PublishedIsTimely
PROPERTIES
    SpeakingIsFound
