SPECIFICATION FairRelaySpec
CONSTANTS
  MaxIdentities = 3
  MaxMishaps = 2
  Absent = absent
  Torn = torn
  Conn = {n1, n2, n3}
  MaxConnections = 2
  HandshakeTimeout = 2
  DialTimeout = 1
  IdleTimeout = 3
INVARIANTS
  PinKept
PROPERTIES
  SilenceEndsSessions
  PermitsReturn
