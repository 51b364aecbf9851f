SPECIFICATION Spec
CONSTANTS
  t1 = t1
  t2 = t2
  Thread = {t1, t2}
  thing = thing
  Thing = {thing}
  cell = cell
  Cell = {cell}
  Op <- MC_Op
  Quick <- MC_Quick
  Id = {1, 2, 3}
  Attempts = 2
  Threshold = 3
  MaxHistory = 1
  MaxBatch = 2
  None = None
  Settings <- MC_Settings
INVARIANTS TypeOK CallsMatch 
PROPERTY CallsEnd
CHECK_DEADLOCK FALSE
