SPECIFICATION Spec
CONSTANTS
    Commands <- Tokens
    RxBuf = 192
    LineBuf = 192
    TokenBuf = 64
    StateBuf = 128
    AnnounceLen = 146
    MaxCommands = 2
    MaxFaults = 0
    None = None
INVARIANTS
    RepeatsReturnEarly
