CONSTANTS
  p1 = p1
  p2 = p2
  h1 = h1
  h2 = h2
  Procs = {p1, p2}
  Handles = {h1, h2}
  NoHandle = NoHandle
  MaxMethods = 2
  MethodLists <- BadLists
SPECIFICATION FairSpec
CHECK_DEADLOCK FALSE
INVARIANTS
  TypeOK
  FaultsExplained
  RunningAlive
  ParamsReclaimed
  StateReachable
PROPERTIES
  LifetimeSpec
  CompileReturns
