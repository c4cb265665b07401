SPECIFICATION FilesSpec
CONSTANTS
  Admin = {a1, a2}
  Nobody = nobody
  None = none
  Torn = torn
  Never = never
  Setting = {1, 2}
  InitialFiles <- MCFiles
  MaxNow = 1
  MaxDraws = 2
  MaxEdits = 1
  MaxMishaps = 1
SYMMETRY MCSymmetry
INVARIANTS
  MigratedMeansCurrent
  OriginalRecoverable
  SettingsCurrent
PROPERTY
  MigrationInvisible
CHECK_DEADLOCK FALSE
