\* Two responses and the request manager share the queue; sending, opening a
\* sender and the connection may fail at any time.
CONSTANTS
  r1 = r1
  r2 = r2
  b1 = b1
  Requests <- MCRequests
  Requestor = requestor
  Blocks <- MCBlocks
  BlockSize <- MCBlockSize
  NoBlock = NoBlock
  Operations <- MCOperations
  MaxBlockSize = 1
  MaxPerPeer = 2
  MaxRetries = 1
  MaxOps <- MCMaxOps
  MaxRequests = 1
SPECIFICATION FairSpec
INVARIANTS SentWithoutGaps MemoryCoversBuffers
PROPERTIES BuiltIsResolved ShutdownStops BackpressureEnds
CHECK_DEADLOCK FALSE
