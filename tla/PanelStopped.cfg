SPECIFICATION FairSpec
CONSTANTS
    Device = {d1}
    Value = {v1, v2}
    Caller = {c1}
    Ops = {"Update"}
    NoValue = NoValue
    Manual = Manual
    NoCaller = NoCaller
    MaxCalls = 1
    MaxFaults = 0
PROPERTIES
    StoppedWritesNothing
CHECK_DEADLOCK FALSE
