SPECIFICATION Spec
CONSTANTS
  t1 = t1
  t2 = t2
  c1 = c1
  c2 = c2
  Thread = {t1, t2}
  Cell = {c1, c2}
  n1 = n1
  Number = {n1}
  Empty = Empty
  Computed = Computed
  MaxHistory = 2
  MaxEdits <- MC_MaxEdits
  Settings <- MC_Settings
SYMMETRY MC_Symmetry
INVARIANTS TypeOK GroupsEnd
PROPERTY LinearHistory
