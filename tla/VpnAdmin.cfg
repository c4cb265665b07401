SPECIFICATION FairAdminSpec
CONSTANTS
  Operator = {op1}
  Timer = timer
  Nobody = nobody
  NoFile = nofile
  Torn = torn
  Down = down
  Never = never
  InitialUsers <- MCNoUser
  InitialObfs = 0
  MaxNow = 1
  MaxFresh = 3
  MaxMishaps = 1
  OfflineUsed = TRUE
  Surroundings <- MCSurroundings
INVARIANTS
  ServedProfilesWork
  DoctorPassMeansServing
  NoFalseAlarm
PROPERTY
  AdminReconciled
