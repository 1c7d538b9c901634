SPECIFICATION Spec
CONSTANTS
  c1 = c1
  c2 = c2
  c3 = c3
  n1 = n1
  n2 = n2
  Callers = {c1, c2}
  Subscribers = {c1, c2}
  Connections = {n1, n2}
  MaxConnects = 2
  MaxQueues = 2
  Publishers = {1, 2}
  Limit = 1
INVARIANTS
  QueuesMatchConnections
  OneVerdictInOrder
CHECK_DEADLOCK FALSE
PROPERTY
  InTimeIsTold
