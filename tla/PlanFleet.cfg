SPECIFICATION Spec
CONSTANTS
    Devices = {"thread", "ladder", "node"}
    Manifest <- Mixed
    Windows <- Overlapping
    Rollout <- ToMeters
    Drift <- ToV42
    Credentials <- Certificates
    Expiry <- Expiries
    Reports <- Twins
    MaxReporting = 1
    Start = 0
    Horizon = 11
    HoursPerDay = 4
    DaysPerWeek = 3
    LookBack = 8
    LookAhead = 48
    Any = Any
    NoCron = NoCron
    BadCron = BadCron
    Nil = Nil
    NoTime = NoTime
    NoCapability = NoCapability
    NoValue = NoValue
INVARIANTS
    PlanTypeOK
    DryRunMatches
    RowsAgree
    QueriesAgree
    AtRiskIsRefused
    DurationHonoured
    ClosedUntilPromised
