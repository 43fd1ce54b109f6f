CONSTANTS
  A = A
  B = B
  Look = Look
  Row = Row
  Proc = {A, B}
  NoProc = NoProc
  Dead = {B}
  Slot = {s1}
  LEASE = 2
  Skew <- MCAhead
  Floor <- MCFloor
  Period = {t1, t2, t3}
  NoPeriod = NoPeriod
  Work = {Look, Row}
  ProcOf <- MCOwnWork
  Dated = {Look}
  Totals = {Look}
  Purge = Purge
  Unlocked = Unlocked
SPECIFICATION FairSpec
PROPERTIES RenewalNotStalled Takeover
