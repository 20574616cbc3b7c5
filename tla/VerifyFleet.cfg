SPECIFICATION FairSpec
CONSTANTS
    N = 1
    Gateways = {"gw"}
    Fleet <- BadBatch
    Subject = 1
    Orders = {"v42"}
    OutageEvery = 1
    OutageFor = 1
    QuietFor = 1
    MaxCommands = 1
    MaxFaults = 1
    MaxWire = 1
    NoValue = NoValue
    TestOTA = TRUE
INVARIANTS
    VerifyTypeOK
    IncompatibleNeverRuns
    GapsAreReal
PROPERTIES
    OutageEnds
    VerifyEnds
