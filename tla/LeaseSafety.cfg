CONSTANTS
  A = A
  B = B
  Look = Look
  Row = Row
  Proc = {A, B}
  NoProc = NoProc
  Dead = {}
  Slot = {s1}
  LEASE = 1
  Skew <- MCSkew
  Floor <- MCFloor
  Period = {t1, t2, t3}
  NoPeriod = NoPeriod
  Work = {Look, Row}
  ProcOf <- MCProcOf
  Dated = {Look}
  Totals = {}
  Purge = Purge
  Unlocked = Unlocked
SYMMETRY MCSymmetry
SPECIFICATION Spec
INVARIANTS TypeOK WritersOwnTheRow
PROPERTY ImplementsOwnedWrites
