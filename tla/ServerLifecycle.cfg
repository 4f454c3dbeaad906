\* Two threads of the user's, two of the pool: stop() can come from each.
\* The threads stop for good when all is done, and in the deadlock that
\* CallsReturn names.
SPECIFICATION FairSpec
CONSTANTS
  t1 = t1
  t2 = t2
  p1 = p1
  p2 = p2
  Users <- MCUsers
  Pool <- MCPool
  MaxCalls = 5
  MaxEvents = 3
INVARIANTS
  OrderlyRestart
PROPERTIES
  CallsReturn
CHECK_DEADLOCK FALSE
