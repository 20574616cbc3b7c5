SPECIFICATION BSpec
CONSTANTS
    Device = {1, 2, 3}
    LivenessOf <- OnlineFleet
    Requires <- OtaRequired
    SizeBytes = 4
    Canary = 0
    Steps <- AllAtOnce
    MaxConcurrent = 0
    HasGate = FALSE
    MustReportWithin = NoTime
    HealthGateFailures = 0
    BootLoopThreshold = 0
    Windows <- OneWindow
    Hour = 1
    Leftover = FALSE
    MaxBoots <- NoReboots
    MaxChurn = 0
    MaxEdits = 1
    MaxFaults = 0
    MaxDisturbances = 1
    NoCapability = NoCapability
    NoTime = NoTime
INVARIANTS
    HourlyExposure
