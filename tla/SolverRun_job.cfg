SPECIFICATION Spec
CONSTANTS
  a = a
  b = b
  Candidate = {a, b}
  Initial = a
  MaxEvals = 3
  Zero = Zero
  None = None
  Settings <- MC_Settings
INVARIANTS TypeOK AnswersMatch ReportedAsMeasured
PROPERTY JobEnds
