SPECIFICATION Spec
CONSTANTS
  VarTypes <- MCVarTypes
  Ops = {"<<", "/", "<"}
  MaxTemps = 2
  MaxFrame = 4
  MaxDepth = 2
INVARIANTS TypeOK EntriesHold VariablesKept OperandsMeant
