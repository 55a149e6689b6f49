SPECIFICATION FairSpec
CONSTANTS
  BufferCount = 2
  BufferCapacity = 4
  Threshold = 2
  SpinMax = 1
  IdlePipe = TRUE
  PipeCapacity = 1
  KernelQueue = 3
  MaxBytes = 6
INVARIANTS TypeOK BufferExclusive RingInv EndsDrained NoLostWakeup IdleWakePending
PROPERTIES InOrder TakenIsParsed QuitEnds
CHECK_DEADLOCK FALSE
