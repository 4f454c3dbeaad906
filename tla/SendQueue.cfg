\* Three messages, two of them with a callback.
SPECIFICATION FairSpec
CONSTANTS
  m1 = m1
  m2 = m2
  m3 = m3
  Messages <- MCMessages
  WithCallback <- MCTwoAnswered
INVARIANTS
  OneWriteOfFront
  QueueIsServed
PROPERTIES
  ImplementsOutbox
  EveryCallbackCalled
\* When all messages are sent and the handlers are cancelled, all rest.
CHECK_DEADLOCK FALSE
