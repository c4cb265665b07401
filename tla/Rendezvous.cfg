SPECIFICATION FairRendezvousSpec
CONSTANTS
  Release = {r1, r2}
  BundleKey = {k1, k2}
  Root = root
  Ephemeral = ephemeral
  Ttl = 2
  MaxClock = 3
  MaxMishaps = 2
  None = none
  Torn = torn
INVARIANTS
  TrustedIsCertified
PROPERTIES
  OnlineComesUp
