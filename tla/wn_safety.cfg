SPECIFICATION Spec
CONSTANTS
    MaxWindows = 3
    MaxSurfaces = 4
    MaxInputs = 3
    MaxNesting = 2
    Cap = 1
    Hides = TRUE
    Modes = {"delay", "never"}
    Layouts <- MCLayouts
CHECK_DEADLOCK FALSE
INVARIANTS TypeOK Owned AppOutlivesWindows QuitTimerSettles HeadlessEnds
