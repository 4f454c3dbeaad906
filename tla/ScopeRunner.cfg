\* Two handlers that recur, one that does not, two destructors.
SPECIFICATION FairSpec
CONSTANTS
  h1 = h1
  h2 = h2
  h3 = h3
  s1 = s1
  s2 = s2
  Handlers <- MCHandlers
  Stoppers <- MCStoppers
  Recurring <- MCRecurring
INVARIANTS
  NoHandlerAfterStop
PROPERTIES
  ImplementsGate
  StopReturns
  ContinueLockDecides
\* After every stop() has returned and every handler was refused, all rest.
CHECK_DEADLOCK FALSE
