SPECIFICATION RestoreSpec
CONSTANTS
  Operator = {op1}
  Timer = timer
  Nobody = nobody
  NoFile = nofile
  Torn = torn
  Down = down
  Never = never
  InitialUsers <- MCUser
  InitialObfs = nofile
  Archives <- MCArchives
  MaxNow = 1
  MaxFresh = 2
  MaxMishaps = 2
INVARIANTS
  ChangedMeansAgreement
  RolledBackMeansPrevious
  PreviousStateRecoverable
