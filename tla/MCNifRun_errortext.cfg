CONSTANTS
  p1 = p1
  p2 = p2
  a1 = a1
  a2 = a2
  None = None
  Procs = {p1, p2}
  Addrs = {a1, a2}
  Calls <- MemoryCalls
  MaxOutputs = 2
  MaxAllocs = 1
SPECIFICATION Spec
INVARIANT ErrorTextIntact
CHECK_DEADLOCK FALSE
