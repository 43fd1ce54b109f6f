CONSTANTS
  p1 = p1
  m1 = m1
  m2 = m2
  Player = {p1}
  Map = {m1, m2}
  None = None
  Kind <- MCKind
  OFFLINE_AFTER_FAILURES = 2
  MAX_MATCHES = 3
  MAX_SCORE = 1
  MAX_KILLS = 2
  MaxFaults = 1
SYMMETRY MCSymmetry
SPECIFICATION MatchSpec
INVARIANTS MatchTypeOK CountedOnce NothingSeenIsLost 
CHECK_DEADLOCK FALSE
