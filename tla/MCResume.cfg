\* One pause, a response of two blocks.
CONSTANTS
  MaxPauses = 1
  MaxBlocks = 2
SPECIFICATION Spec
PROPERTY ResumedIsServed
CHECK_DEADLOCK FALSE
