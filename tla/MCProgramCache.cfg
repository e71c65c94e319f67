CONSTANTS
  c1 = c1
  c2 = c2
  f1 = f1
  f2 = f2
  q1 = q1
  q2 = q2
  q3 = q3
  q4 = q4
  Callers = {c1, c2}
  Functions = {f1, f2}
  NameOf <- OwnNames
  Programs = {q1, q2, q3, q4}
  NoProgram = NoProgram
  MaxCount = 2
SPECIFICATION FairSpec
INVARIANTS
  TypeOK
  RunsOwnSource
  SoloCallsCount
PROPERTY OneInstanceInTheEnd
