SPECIFICATION UserSpec
CONSTANTS
  Operator = {op1, op2}
  Timer = timer
  Nobody = nobody
  NoFile = nofile
  Torn = torn
  Down = down
  Never = never
  InitialUsers <- MCUserExpiring
  InitialObfs = 0
  MaxNow = 1
  MaxFresh = 2
  MaxMishaps = 2
  OfflineUsed = TRUE
SYMMETRY MCSymmetry
INVARIANTS
  UserTypeOK
  WentLiveIsLive
  NeverLeftTorn
  RevokedStaysRevoked
PROPERTIES
  PublishesOneCommandAtATime
  PublishesAfterLive
