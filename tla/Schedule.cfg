CONSTANTS
  s1 = s1
  s2 = s2
  L1 = L1
  L2 = L2
  c1 = c1
  c2 = c2
  c3 = c3
  Server = {s1, s2}
  Command = {c1, c2, c3}
  Job = {L1, L2, c1, c2, c3}
  Free = Free
  Prio <- MCPrio
  MAX_QUEUED = 2
  LaneOf <- MCLaneOf
  Look <- MCLook
  Totals = {1, 2}
  MayFail = {s1, s2}
  MayHold = {s1}
  MaxCalls = 1
SPECIFICATION FairSpec
INVARIANTS CountersAreTheFlights TypeOK AskedIsKept NobodyWaitsForNothing
PROPERTIES LaunchesKeepTheShare NobodyLeavesUnanswered NobodyIsForgotten
