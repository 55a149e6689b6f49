SPECIFICATION Init_Next
CONSTANTS
    SwapChainCount = 1
    Sizes = {"small", "large"}
    MaxBuffers = 2
    MaxCells = 1
    MaxHides = 0
    MaxMoves = 1
    MaxTeardowns = 1
    MaxResizes = 1
    MaxInFlight = 1
    Timeouts = TRUE
    DupFails = TRUE
    ImportFails = FALSE
    CreateFails = TRUE
    Advertised = TRUE
    ReleaseFirst = FALSE
    LateShow = TRUE
CHECK_DEADLOCK FALSE
INVARIANTS TypeOK NoGhost NoHole
