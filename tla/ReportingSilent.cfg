SPECIFICATION Spec
CONSTANTS
    Property = {p}
    Config <- JustLora
    DefaultInterval = 1
    MinRequeue = 1
    MaxRequeue = 3
    MaxBackoff = 1
    CollectCycle = 1
    ReportCycle = 1
    AnyProperty = AnyProperty
    Never = Never
    Horizon = 6
    MaxFaults = 0
INVARIANTS
    SilenceIsUnreachable
