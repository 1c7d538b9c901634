\* One request, every call and answer, and Shutdown; up to two hooks of up to one
\* call.
CONSTANTS
  Requests = {r1}
  MaxLinks = 2
  MaxItems = 1
  MaxCalls = 3
  MaxAnswers = 2
  Workers = 1
  MaxHooks = 2
  MaxHookCalls = 1
SPECIFICATION AnsweredSpec
INVARIANTS ExecutorOwnsRunning TruncationIsTold
PROPERTIES ImplementsLifecycle CancelReturnsOrPauses
CHECK_DEADLOCK FALSE
