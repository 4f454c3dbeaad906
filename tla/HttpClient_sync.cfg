\* A synchronous request that is answered with a stream of events.
SPECIFICATION Spec
CONSTANTS
  r1 = r1
  r2 = r2
  NoConn = NoConn
  Requests <- MCOne
  Answers <- MCEvents
  Configs <- MCSync
INVARIANTS
  CallerIsWaiting
CHECK_DEADLOCK FALSE
