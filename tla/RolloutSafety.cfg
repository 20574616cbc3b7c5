SPECIFICATION HSpec
CONSTANTS
    Device = {1, 2, 3}
    LivenessOf <- MixedFleet
    Requires <- OtaRequired
    SizeBytes = 4
    Canary = 1
    Steps <- HalfThenAll
    MaxConcurrent = 1
    HasGate = TRUE
    MustReportWithin = 0
    HealthGateFailures = 1
    BootLoopThreshold = 0
    Windows <- TwoWindows
    Hour = 0
    Leftover = FALSE
    MaxBoots <- NoReboots
    MaxChurn = 1
    MaxEdits = 1
    MaxFaults = 1
    MaxDisturbances = 2
    NoCapability = NoCapability
    NoTime = NoTime
INVARIANTS
    TypeOK
    StagedExposure
    CompleteMeansRunning
    RefusedNeverTold
PROPERTIES
    ClosedWindowWins
    ImplementsStagedUpdate
