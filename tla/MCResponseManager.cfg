\* One response of up to two blocks with up to four calls or messages, in any
\* order; messages may fail; up to two hooks of up to two calls.
CONSTANTS
  Requests = {r1}
  MaxBlocks = 2
  MaxCommands = 4
  Workers = 1
  MaxHooks = 2
  MaxHookCalls = 2
SPECIFICATION FairSpec
INVARIANTS StateMatchesTaskQueue NothingAfterFinal RefusedIsFailed
PROPERTIES ImplementsLifecycle FinalEventTerminates
CHECK_DEADLOCK FALSE
