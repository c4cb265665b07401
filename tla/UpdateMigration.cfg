SPECIFICATION FairSpec
CONSTANTS
  r0 = r0
  r1 = r1
  r2 = r2
  r3 = r3
  None = none
  Run = {u1}
  Admin = {a1}
  Commands = {"render", "user"}
  Release = {r1, r2}
  Installed = r1
  Modes = {"version"}
  SingBox <- MCSingBox
  Schema <- MCSchemaNewer
  Format <- MCFormat
  MaxStarts = 1
  MaxMishaps = 0
PROPERTIES
  EveryUpdateEnds
CHECK_DEADLOCK FALSE
