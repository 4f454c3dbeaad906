\* Two requests, the first synchronous, with every way of answering them.
\* All are done at some time, and the system may come to rest.
SPECIFICATION Spec
CONSTANTS
  r1 = r1
  r2 = r2
  NoConn = NoConn
  Requests <- MCTwo
  Answers <- MCAnswers
  Configs <- MCConfigs
INVARIANTS
  TypeOK
  OneRequestPerConnection
  OneKeptOpen
PROPERTIES
  LeavesPoolClosed
  KeepsPromise
CHECK_DEADLOCK FALSE
