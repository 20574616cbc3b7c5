SPECIFICATION FairSpec
CONSTANTS
    Device = {d1}
    Value = {v1}
    Caller = {c1, c2}
    Ops = {"Update", "Remove", "Read", "Write", "Twins"}
    NoValue = NoValue
    Manual = Manual
    NoCaller = NoCaller
    MaxCalls = 3
    MaxFaults = 1
INVARIANTS
    PanelTypeOK
    OneRunner
PROPERTIES
    CallsReturn
    RemovedFallsSilent
CHECK_DEADLOCK FALSE
