SPECIFICATION Spec
CONSTANTS
  p1 = p1
  p2 = p2
  one = one
  two = two
  oneFloat = oneFloat
  Nobody = Nobody
  Process <- MC_Process
  f = f
  g = g
  Field = {f, g}
  Value <- MC_Value
  Payload <- MC_Payload
  Twin = {oneFloat}
  EqualTo <- MC_EqualTo
  MaxSnapshots = 5
  Limit <- MC_Limit
  MaxBranch = 6
  MaxDeltaChain = 3
  FullEvery = 3
  Settings <- MC_Restarts
SYMMETRY MC_Symmetry
INVARIANT SnapshotsLoad
CHECK_DEADLOCK FALSE
