SPECIFICATION FairSpec
CONSTANTS
    Device = {1, 2}
    LivenessOf <- NappingFleet
    Requires <- OtaRequired
    SizeBytes = 4
    Canary = 1
    Steps <- HalfThenAll
    MaxConcurrent = 1
    HasGate = TRUE
    MustReportWithin = 0
    HealthGateFailures = 1
    BootLoopThreshold = 1
    Windows <- OneWindow
    Hour = 0
    Leftover = FALSE
    MaxBoots <- FirstReboots
    MaxChurn = 1
    MaxEdits = 1
    MaxFaults = 1
    MaxDisturbances = 1
    NoCapability = NoCapability
    NoTime = NoTime
PROPERTIES
    RolloutEnds
    FailuresPause
