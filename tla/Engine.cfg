SPECIFICATION FairEngineSpec
CONSTANTS
  c1 = c1
  c2 = c2
  Task = {t1, t2}
  Candidate = {c1, c2}
  Transport <- MCTransport
  Networks <- MCNetworks
  WindowSize = 4
  CooldownTicks = 2
  NoCooldown = none
  MaxAge = 1
  QuarantineThreshold = 1
  MaxAttempts = 2
  NoCandidate = nocandidate
INVARIANTS
  BoundedCycling
  LocalOutageSparesScores
PROPERTY
  Recovers
