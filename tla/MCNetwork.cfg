SPECIFICATION Spec
CONSTANTS
  Undef = Undef
  Nil = Nil
  i1 = i1
  r1 = r1
  r2 = r2
  root = root
  selector = selector
  name1 = name1
  name2 = name2
  v1 = v1
  v2 = v2
  prefix = prefix
  data1 = data1
  data2 = data2
  Requests <- MCRequests
  Updates <- MCUpdates
  Resumed <- MCResumed
  Transactions <- MCTransactions
  TooLarge <- MCTooLarge
  MaxRetries = 1
  MaxOps = 3
  MaxFaults = 1
INVARIANTS
  DeliveredAsBuilt
  DeliveredInSendOrder
  LastWordIsHeard
PROPERTIES
  SentIsDelivered
  BrokenIsReported
CHECK_DEADLOCK FALSE
