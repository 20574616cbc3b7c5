SPECIFICATION FairSpec
CONSTANTS
    Device = {1, 2}
    LivenessOf <- OnlineFleet
    Requires <- OtaRequired
    SizeBytes = 4
    Canary = 1
    Steps <- HalfThenAll
    MaxConcurrent = 1
    HasGate = TRUE
    MustReportWithin = 0
    HealthGateFailures = 1
    BootLoopThreshold = 0
    Windows <- NoWindows
    Hour = 0
    Leftover = TRUE
    MaxBoots <- NoReboots
    MaxChurn = 0
    MaxEdits = 0
    MaxFaults = 0
    MaxDisturbances = 0
    NoCapability = NoCapability
    NoTime = NoTime
PROPERTIES
    RolloutEnds
