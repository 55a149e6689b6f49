SPECIFICATION FairSpec
CONSTANTS
  Producers = {p1, p2, p3}
  Values = {v1}
  Bounds = 2
  Timeouts = {"forever"}
  Drains = FALSE
  None = None
INVARIANT NoStrandedProducer
PROPERTY PushReturns
