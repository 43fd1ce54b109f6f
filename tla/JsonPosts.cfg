CONSTANTS
  H1 = H1
  Post = {1}
  Hook = {H1}
  HookOf <- MCHookOf
  Proc = {A, B}
  NoProc = NoProc
  SLOTS = 1
  RETRIES = 1
  MaxLapse = 1
  MaxEdits = 1
SPECIFICATION FairSpec
INVARIANTS TypeOK WithinAttempts
PROPERTIES EndsTruthfully EveryPostEnds
