SPECIFICATION SubscriptionSpec
CONSTANTS
  Peer = {p1, p2, p3}
  Capacity = 2
  Refill = 1
  Cost = 2
  MaxBuckets = 2
  TrimTo = 1
  MaxClock = 2
  Request = {r1}
  None = none
  Malformed = malformed
  Never = never
  InitialTable <- MCTable
  Keys <- MCKeys
  MaxCommands = 2
SYMMETRY MCSymmetry
INVARIANTS
  LimiterTypeOK
  NoBurst
  AnswerExplained
