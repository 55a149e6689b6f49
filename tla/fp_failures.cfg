SPECIFICATION Init_Next
CONSTANTS
    SwapChainCount = 3
    Sizes = {"small"}
    MaxBuffers = 6
    MaxCells = 2
    MaxHides = 1
    MaxMoves = 0
    MaxTeardowns = 0
    MaxResizes = 0
    MaxInFlight = 4
    Timeouts = FALSE
    DupFails = TRUE
    ImportFails = TRUE
    CreateFails = FALSE
    Advertised = TRUE
    ReleaseFirst = FALSE
    LateShow = FALSE
CHECK_DEADLOCK FALSE
INVARIANTS BufferComes
