CONSTANTS
  S1 = S1
  Proc = {A, B}
  NoProc = NoProc
  Server = {S1}
  Row = {1}
  ServerOf <- MCServerOf
  MayBe <- MCAll
  PER_SERVER = 2
  CLAIM_LIMIT = 2
  MaxLapse = 1
  Ageing = {1}
SPECIFICATION FairSpec
INVARIANTS TypeOK OneHandler
PROPERTIES ImplementsDelivery EveryRowEnds
