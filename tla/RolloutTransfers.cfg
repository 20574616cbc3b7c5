SPECIFICATION BSpec
CONSTANTS
    Device = {1, 2, 3}
    LivenessOf <- OnlineFleet
    Requires <- OtaRequired
    SizeBytes = 4
    Canary = 0
    Steps <- AllAtOnce
    MaxConcurrent = 1
    HasGate = FALSE
    MustReportWithin = NoTime
    HealthGateFailures = 0
    BootLoopThreshold = 0
    Windows <- NoWindows
    Hour = 1
    Leftover = FALSE
    MaxBoots <- NoReboots
    MaxChurn = 0
    MaxEdits = 0
    MaxFaults = 0
    MaxDisturbances = 0
    NoCapability = NoCapability
    NoTime = NoTime
INVARIANTS
    TransfersBounded
