CONSTANTS
  p1 = p1
  p2 = p2
  a1 = a1
  a2 = a2
  None = None
  Procs = {p1, p2}
  Addrs = {a1, a2}
  Calls <- AllCalls
  MaxOutputs = 2
  MaxAllocs = 2
SPECIFICATION Spec
SYMMETRY Symmetry
INVARIANTS
  TypeOK
  EnvOwnsBlocks
  ResultsAreOwn
  InputsDecoded
  FaultsExplained
CHECK_DEADLOCK FALSE
