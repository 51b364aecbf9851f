SPECIFICATION Spec
CONSTANTS
  Job = {j1}
  Client = {c1, c2}
  RequestId = {r1, r2}
  NCells = 2
  Value <- Values
  Candidates <- NoPoints
  Fronts <- TwoPointFront
  MaxConcurrent = 1
  MaxRetained = 3
  MaxEvals = 0
  Environment <- AppliesFail
SYMMETRY ClientSymmetry
INVARIANT AppliesAreRecorded
INVARIANT AllOrNothing
CHECK_DEADLOCK FALSE
