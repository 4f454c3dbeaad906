\* Two connections on an io_service of the caller, with upgrades and two parts of
\* a response queued; with a timeout for content, and without one, so that only
\* stop() in the destructor ends what is pending there.
\* A server that is destroyed, or whose process has died, may come to rest.
SPECIFICATION FairSpec
CONSTANTS
  c1 = c1
  c2 = c2
  Conns <- MCTwo
  Tls = TRUE
  HasUpgrade = TRUE
  HasOnError = TRUE
  InternalIo = FALSE
  Timeouts <- MCRequestOrBoth
  MaxParts = 2
INVARIANTS
  TypeOK
  RegistryIsValid
  OneWriter
  StillAccepting
PROPERTIES
  StopClosesServed
  NothingStartedAfterDestroy
  SilentClientDropped
  DestroyDrains
CHECK_DEADLOCK FALSE
