\* Two requests with both timeouts: the timer of one may be due when its connection passes
\* to the other.  All are done at some time, and the system may come to rest.
SPECIFICATION FairSpec
CONSTANTS
  r1 = r1
  r2 = r2
  NoConn = NoConn
  Requests <- MCTwo
  Answers <- MCAtOnce
  Configs <- MCTimeouts
INVARIANTS
  WaitsUnderTimer
PROPERTIES
  EveryRequestAnswered
CHECK_DEADLOCK FALSE
