SPECIFICATION LiveSpec
CONSTANTS
  a = a
  b = b
  c = c
  Empty = Empty
  CIRC = CIRC
  Cell <- MC_Cell
  Number = {0, 1}
  Compute <- MC_Compute
  Workspaces <- MC_Workspaces
  NewRules <- MC_NewRules
  Operations = {"edit", "read", "set_rule", "recompute", "recalculate"}
INVARIANTS TypeOK ValuesAreCorrect EdgesRecorded NoNestedEvaluation
PROPERTIES FrontierIsSettled OperationsEnd
