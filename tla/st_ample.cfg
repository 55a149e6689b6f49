SPECIFICATION FairSpec
CONSTANTS
  Cap <- CapAmple
  Emits = {"app", "termio"}
  WriterWork = {"locked", "resize"}
  AppForever = {"writer", "renderer"}
  Aborts = {}
  Closes = TRUE
  StartFails = FALSE
  MaxBatches = 2
  MaxEmits = 1
  MaxSends = 1
INVARIANT ChangesWillBeShown
PROPERTY CloseCompletes
CHECK_DEADLOCK FALSE
