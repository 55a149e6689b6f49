SPECIFICATION Spec
CONSTANTS
  Producers = {p1, p2}
  Values = {v1}
  Bounds = 1
  Timeouts = {"instant", "forever"}
  Drains = FALSE
  None = None
PROPERTY ForeverPushSucceeds
