SPECIFICATION Spec
CONSTANTS
  Producers = {p1, p2}
  Values = {v1, v2}
  Bounds = 2
  Timeouts = {"instant", "forever", "ns"}
  Drains = TRUE
  None = None
INVARIANTS TypeOK RingInv WaitersCounted
PROPERTY FifoSpec
SYMMETRY Symmetry
