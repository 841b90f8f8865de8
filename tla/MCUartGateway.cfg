SPECIFICATION FairSpec
CONSTANTS
  p1 = p1
  p2 = p2
  Peers <- MCPeers
  NoPeer = NoPeer
  CounterWidth = 8
  MaxRestarts = 2
  MaxQueue = 2
INVARIANTS
  TypeOK
  AckMatchesRequest
  NothingStaleIsRead
  DecodedAsSent
  FailsOnlyWhenRadioHeard
  GatewayConfigured
PROPERTIES
  StartupEnds
CHECK_DEADLOCK FALSE
