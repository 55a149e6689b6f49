SPECIFICATION Spec
CONSTANTS
    SwapChainCount = 3
    Sizes = {"small"}
    MaxBuffers = 6
    MaxCells = 2
    MaxHides = 1
    MaxMoves = 0
    MaxTeardowns = 0
    MaxResizes = 0
    MaxInFlight = 4
    Timeouts = FALSE
    DupFails = FALSE
    ImportFails = FALSE
    CreateFails = FALSE
    Advertised = TRUE
    ReleaseFirst = TRUE
    LateShow = FALSE
CHECK_DEADLOCK FALSE
INVARIANTS ParkedIsDrained TokenComes  NewestShown
PROPERTIES ChangesShown ExitEnds
