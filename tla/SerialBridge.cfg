SPECIFICATION FairSpec
CONSTANTS
    Commands <- Boundary
    RxBuf = 192
    LineBuf = 192
    TokenBuf = 64
    StateBuf = 128
    AnnounceLen = 146
    MaxCommands = 2
    MaxFaults = 2
    None = None
INVARIANTS
    SerialTypeOK
    NoOverread
    GoneReadsOffline
PROPERTIES
    IdentityIntact
    OnlineAgain
    SilentIsOffline
