CONSTANTS
  Proc = {A, B}
  NoProc = NoProc
  Player = {x1}
  Nobody = Nobody
  Session = {1, 2, 3}
  NoSession = 0
  Period = {1, 2, 3}
  OFFLINE = 2
SPECIFICATION Spec
INVARIANT OneOpenSession
