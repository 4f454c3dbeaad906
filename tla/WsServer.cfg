\* One slot on an io_service of the caller, everything timed: connections meet
\* only in stop(), which treats them alike, and the accept loop runs beside it.
\* A server that is destroyed may come to rest.
SPECIFICATION FairSpec
CONSTANTS
  c1 = c1
  Conns <- MCOne
  MaxQueued = 1
  Tls = TRUE
  InternalIo = FALSE
  TimeoutRequest = TRUE
  TimeoutIdle = TRUE
INVARIANTS
  TypeOK
  ListedAreOpen
  ToldOnce
PROPERTIES
  SilentPeerDropped
  StopDrains
CHECK_DEADLOCK FALSE
