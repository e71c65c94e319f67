CONSTANTS
  t1 = t1
  t2 = t2
  t3 = t3
  Threads = {t1, t2, t3}
  NoState = NoState
  MaxCompiles <- MCMaxCompiles
  FirstAlone = TRUE
SPECIFICATION FairSpec
CHECK_DEADLOCK FALSE
INVARIANTS
  TypeOK
  MutualExclusion
  SemaphoreBalanced
  ErrorsGoHome
  NoForeignJump
PROPERTY CompilationsReturn
