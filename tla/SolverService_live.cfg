SPECIFICATION FairSpec
CONSTANTS
  Job = {j1, j2}
  Client = {c1}
  RequestId = {r1}
  NCells = 1
  Value <- Values
  Candidates <- OnePoint
  Fronts <- OneFront
  MaxConcurrent = 1
  MaxRetained = 3
  MaxEvals = 1
  Environment <- Turbulent
PROPERTY CallsEnd
CHECK_DEADLOCK FALSE
