SPECIFICATION Spec
CONSTANTS
  MaxNodes = 2
  MaxErrors = 1
  MaxTasks = 1
  MaxOther = 1
  Capacity = 1
INVARIANTS
  DeliveredInOrder
  ErrorsAreTold
CHECK_DEADLOCK FALSE
PROPERTY
  NobodyWaitsForEver
