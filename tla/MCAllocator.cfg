\* Three peers, sizes that fit and one (3) that can never fit a peer's limit.
CONSTANTS
  Peers = {p1, p2, p3}
  Amounts = {1, 2, 3}
  MaxTotal = 3
  MaxPerPeer = 2
  MaxCalls = 4
SPECIFICATION FairSpec
INVARIANTS MemoryBounded GrantedInOrder NobodyIsForgotten
PROPERTY AnswerableIsAnswered
CHECK_DEADLOCK FALSE
