SPECIFICATION FairSpec
CONSTANTS
    Device = {d1}
    Value = {v1, v2}
    Caller = {c1, c2}
    Ops = {"Update", "Twins"}
    NoValue = NoValue
    Manual = Manual
    NoCaller = NoCaller
    MaxCalls = 1
    MaxFaults = 0
PROPERTIES
    TwinsReturn
CHECK_DEADLOCK FALSE
