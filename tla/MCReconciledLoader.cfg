\* A DAG of five paths and four blocks, any blocks on either side, and two pauses.
CONSTANTS
  root = root
  a = a
  b = b
  x = x
  Tree <- UniformTree
  LinkAt <- UniformLinkAt
  Scenarios <- MCScenarios
  MaxBatch = 2
  Done = Done
  NoVerifier = NoVerifier
  NoItem = NoItem
SPECIFICATION FairSpec
INVARIANTS HonestPeerIsNotBlamed ResultIsWhatBothHave
PROPERTY TraversalEnds
CHECK_DEADLOCK FALSE
