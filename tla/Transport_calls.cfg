SPECIFICATION Spec
CONSTANTS
  c1 = c1
  c2 = c2
  c3 = c3
  Caller = {c1, c2, c3}
  Poller = Poller
  b1 = b1
  b2 = b2
  Publisher = {b1, b2}
  p1 = p1
  Pattern = {p1}
  Topic = {p1}
  Matches <- MC_Matches
  Id = {1, 2, 3}
  MaxPerPoll = 1
  MaxQueue = 2
  MaxCalls = 3
  MaxEvents = 3
  Unserializable = {2}
  MaxUnsent = 1
  None = None
  Settings <- MC_Settings
INVARIANTS TypeOK RepliesKept EventsKept
PROPERTY Progress
CHECK_DEADLOCK FALSE
