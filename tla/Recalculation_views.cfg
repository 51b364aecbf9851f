SPECIFICATION Spec
CONSTANTS
  a = a
  b = b
  c = c
  Empty = Empty
  CIRC = CIRC
  Cell <- MC_Cell
  Number = {0, 1}
  Compute <- MC_Compute
  Workspaces <- MC_Acyclic
  NewRules <- MC_AcyclicRules
  Operations = {"edit", "view", "read", "set_rule", "delete_rule", "recompute", "recalculate"}
INVARIANTS StaleOnVoid DirtyIsEmpty
PROPERTIES HardValuesKept SweepIsFresh
