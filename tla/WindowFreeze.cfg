SPECIFICATION Spec
CONSTANTS
    Devices = {"node"}
    Manifest <- Mixed
    Windows <- Weekend
    Rollout <- ToMeters
    Drift <- ToV42
    Credentials <- Certificates
    Expiry <- Expiries
    Reports = {}
    MaxReporting = 0
    Start = 130
    Horizon = 72
    HoursPerDay = 24
    DaysPerWeek = 7
    LookBack = 48
    LookAhead = 8880
    Any = Any
    NoCron = NoCron
    BadCron = BadCron
    Nil = Nil
    NoTime = NoTime
    NoCapability = NoCapability
    NoValue = NoValue
CHECK_DEADLOCK FALSE
INVARIANT
    DurationHonoured
