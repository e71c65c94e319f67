CONSTANTS
  t1 = t1
  t2 = t2
  t3 = t3
  Threads = {t1, t2}
  NoState = NoState
  MaxCompiles <- MCMaxCompiles
  FirstAlone = FALSE
SPECIFICATION Spec
CHECK_DEADLOCK FALSE
INVARIANT MutualExclusion
