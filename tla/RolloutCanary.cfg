SPECIFICATION Spec
CONSTANTS
    Device = {1, 2, 3}
    LivenessOf <- MixedFleet
    Requires <- OtaRequired
    SizeBytes = 4
    Canary = 1
    Steps <- HalfThenAll
    MaxConcurrent = 1
    HasGate = FALSE
    MustReportWithin = 0
    HealthGateFailures = 1
    BootLoopThreshold = 0
    Windows <- NoWindows
    Hour = 0
    Leftover = FALSE
    MaxBoots <- NoReboots
    MaxChurn = 1
    MaxEdits = 0
    MaxFaults = 0
    MaxDisturbances = 1
    NoCapability = NoCapability
    NoTime = NoTime
INVARIANTS
    CanaryGoesFirst
