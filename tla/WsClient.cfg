\* One slot, and another connection in its place; WSS through a proxy on the
\* user's io_service, and WS on the client's own, which stop() stops and
\* start() restarts.  A client that is stopped or destroyed may come to rest.
SPECIFICATION FairSpec
CONSTANTS
  c1 = c1
  NoConn = NoConn
  Other = Other
  Conns <- MCOne
  MaxQueued = 1
  Configs <- MCConfigs
INVARIANTS
  TypeOK
  ToldOnce
PROPERTIES
  SilentServerDropped
  StopEndsConnection
CHECK_DEADLOCK FALSE
