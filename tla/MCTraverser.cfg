\* Three blocks, with cancellation, pauses and termination at any time.
CONSTANT MaxLinks = 3
SPECIFICATION FairTraverserSpec
INVARIANTS MutexHandedOver AnswerIsForCurrentLink CountIsExact ClosedAfterStopped
PROPERTY NobodyBlocks
CHECK_DEADLOCK FALSE
