SPECIFICATION FairSpec
CONSTANTS
  Cap <- CapSmall
  Emits = {"app", "termio"}
  WriterWork = {"write", "locked", "resize"}
  AppForever = {}
  Aborts = {}
  Closes = FALSE
  StartFails = FALSE
  MaxBatches = 1
  MaxEmits = 2
  MaxSends = 1
INVARIANTS NoWaitCycle NoStrandedSender MailWillBeRead
PROPERTIES SendsReturn Settles
CHECK_DEADLOCK FALSE
