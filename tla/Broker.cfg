SPECIFICATION Spec
CONSTANTS
  Conns = {c1, c2}
  Calls = {h1}
  Leaving = {c1, c2}
  MaxRequests = 2
CHECK_DEADLOCK FALSE
INVARIANTS TypeOK TcpDrained EveryRequestAnswered StrayOnlyIfLate
PROPERTY ShutdownEnds
