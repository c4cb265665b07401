SPECIFICATION Spec
CONSTANTS
  Run = {i1, i2}
  Hosts <- MCHosts
  None = None
  MaxStarts = 4
  MaxMishaps = 2
SYMMETRY MCSymmetry
CONSTRAINT MCApart
INVARIANTS
  PredecessorKept
  AcceptedMeansWhole
PROPERTIES
  UninstallRestores
  RollbackSparesAccepted
CHECK_DEADLOCK FALSE
