\* A DAG whose links are at different depths in their parents, and an empty store.
CONSTANTS
  root = root
  a = a
  b = b
  x = x
  Tree <- RaggedTree
  LinkAt <- RaggedLinkAt
  Scenarios <- RaggedScenarios
  MaxBatch = 2
  Done = Done
  NoVerifier = NoVerifier
  NoItem = NoItem
SPECIFICATION FairSpec
INVARIANT ResultIsWhatBothHave
CHECK_DEADLOCK FALSE
