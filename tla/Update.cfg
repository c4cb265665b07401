SPECIFICATION FairSpec
CONSTANTS
  r0 = r0
  r1 = r1
  r2 = r2
  r3 = r3
  None = none
  Run = {u1, u2}
  Admin = {a1}
  Commands = {"render"}
  Release = {r0, r1, r2, r3}
  Installed = r1
  Modes = {"version", "repair", "dev-rebuild"}
  SingBox <- MCSingBox
  Schema <- MCSchema
  Format <- MCFormat
  MaxStarts = 2
  MaxMishaps = 1
INVARIANTS
  HalfSwapIsMarked
PROPERTIES
  UpdateReportTrue
  EveryUpdateEnds
  RenderingCatchesUp
