CONSTANTS
  c1 = c1
  c2 = c2
  c3 = c3
  mul = mul
  add = add
  Callers = {c1, c2, c3}
  NoInput = NoInput
  Definitions <- MulAndAdd
  NumGlobals = 2
  MaxCalls = 2
SPECIFICATION Spec
CHECK_DEADLOCK FALSE
SYMMETRY Symmetry
INVARIANTS
  TypeOK
  LoadedBeforeUse
  QuietCallsOwnResult
