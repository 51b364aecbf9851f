SPECIFICATION Spec
CONSTANTS
  Job = {j1, j2, j3}
  Client <- NoClients
  RequestId = {r1}
  NCells = 2
  Value <- Values
  Candidates <- TwoPoints
  Fronts <- NoFront
  MaxConcurrent = 1
  MaxRetained = 3
  MaxEvals = 2
  Environment <- CallersFail
SYMMETRY JobSymmetry
INVARIANTS TypeOK LeaseIsExact NoTrace
CHECK_DEADLOCK FALSE
