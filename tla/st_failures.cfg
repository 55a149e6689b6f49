SPECIFICATION Spec
CONSTANTS
  Cap <- CapTiny
  Emits = {"app", "termio"}
  WriterWork = {"config", "resize"}
  AppForever = {"writer", "renderer"}
  Aborts = {"writer", "main", "renderer"}
  Closes = TRUE
  StartFails = TRUE
  MaxBatches = 1
  MaxEmits = 2
  MaxSends = 2
INVARIANTS TypeOK NoBlockedHolder WaitsOrdered
CHECK_DEADLOCK FALSE
