CONSTANTS
  p1 = p1
  p2 = p2
  h1 = h1
  h2 = h2
  Procs = {p1, p2}
  Handles = {h1}
  NoHandle = NoHandle
  MaxMethods = 2
  MethodLists <- BadLists
SPECIFICATION Spec
CHECK_DEADLOCK FALSE
INVARIANT MalformedAnswered
