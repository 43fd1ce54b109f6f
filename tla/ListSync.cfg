CONSTANTS
  Worker = Worker
  Web = Web
  Id = {1, 2, 3}
  Proc = {Worker}
  Budget = 2
  MaxEdits = 2
  Wanted <- MCWanted
SPECIFICATION FairSpec
INVARIANTS TypeOK OthersStay PlacedIsManaged
PROPERTY Converges
