SPECIFICATION FairCertSpec
CONSTANTS
  NoFile = nofile
  Torn = torn
  Down = down
  Nobody = nobody
  MaxRenewals = 3
  MaxMishaps = 2
INVARIANTS
  PairRecoverable
  PairMatchesUnlocked
PROPERTIES
  HookReportTrue
  HookEnds
