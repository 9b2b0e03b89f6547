CONSTANTS
  c1 = c1
  c2 = c2
  Conns <- MCConns
  Pings <- MCPings
  NFuts = 2
  BUF = 7
  CHUNK = 3
  Window = 2
SPECIFICATION FairServerSpec
CHECK_DEADLOCK FALSE
INVARIANT NeverRejected
PROPERTIES EveryPingAnswered SpawnedByNext StartsServing
