CONSTANTS
  Proc = {A, B}
  NoProc = NoProc
  Player = {x1}
  Batch = {b1, b2, b3}
  Period = {1, 2, 3}
  COOLDOWN = 2
  MaxTime = 3
SYMMETRY MCSymmetry
SPECIFICATION Spec
INVARIANTS OnceUnlessOld CoolingIsBacked
