SPECIFICATION Spec
CONSTANTS
    MaxWindows = 2
    MaxSurfaces = 4
    MaxInputs = 2
    MaxNesting = 1
    Cap = 1
    Hides = FALSE
    Modes = {"never"}
    Layouts <- MCLayouts
CHECK_DEADLOCK FALSE
PROPERTIES OnlyCovered
