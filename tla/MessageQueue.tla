---------------------------- MODULE MessageQueue ----------------------------
(***************************************************************************)
(* The message queue of one peer (messagequeue/messagequeue.go and         *)
(* builder.go, message/builder.go) with the goroutines that use it: the    *)
(* response streams of responseassembler.go, whose transactions become     *)
(* AllocateAndBuildMessage calls, the request manager, which queues        *)
(* requests of size 0, and the goroutine runQueue that sends.              *)
(*                                                                         *)
(* The critical sections of buildersLk and of the allocator are atomic,    *)
(* everything between them interleaves.  A transaction is one operation:   *)
(* at most one link with its block, extension data, and whether it adds    *)
(* anything at all.  The allocator is seen by one peer: a FIFO of blocked  *)
(* callers under the per-peer limit (module Allocator has the whole of it).*)
(* A message topic is the identity of its builder and is left out.         *)
(*                                                                         *)
(* MaxOps and MaxRequests bound the calls of each goroutine.               *)
(***************************************************************************)
EXTENDS Integers, Sequences, FiniteSetsExt

CONSTANTS Requests,      \* the responses streamed to the peer
          Requestor,     \* the request manager, as a caller of this queue
          Blocks,        \* the blocks responses refer to
          BlockSize,     \* their sizes
          NoBlock,       \* the operation has no link to a block that is present
          Operations,    \* the transactions each response stream may run
          MaxBlockSize,  \* maxBlockSize, the size at which a message is full
          MaxPerPeer,    \* the allocator's limit for this peer
          MaxRetries,    \* maxRetries
          MaxOps,        \* bound on the operations of each response
          MaxRequests    \* bound on the requests the request manager queues

ASSUME QueueAssumption ==
  /\ IsFiniteSet(Requests) /\ Requestor \notin Requests
  /\ IsFiniteSet(Blocks) /\ NoBlock \notin Blocks
  /\ BlockSize \in [Blocks -> Nat]
  /\ Operations \in [Requests -> SUBSET [link : Blocks \union {NoBlock},
                                         sendBlock : BOOLEAN, extension : Nat,
                                         adds : BOOLEAN]]
  /\ \A r \in Requests : \A op \in Operations[r] : op.sendBlock => op.link \in Blocks
  /\ MaxOps \in [Requests -> Nat]
  /\ {MaxBlockSize, MaxPerPeer, MaxRetries, MaxRequests} \subseteq Nat

Callers == Requests \union {Requestor}
OpNums  == (UNION {1..MaxOps[r] : r \in Requests}) \union 1..MaxRequests

VARIABLES
  builders,      \* the queue of message builders
  outgoingWork,  \* the signal channel of capacity 1 is full
  done,          \* Shutdown was called
  ctxDone,       \* the context of the queue is cancelled
  pc,            \* where the goroutine runQueue is
  draining,      \* runQueue is in the loop that fails what is left
  message,       \* the message being sent
  attempts,      \* how often SendMsg has failed for it
  freed,         \* what scrubResponses returned
  sender,        \* a message sender is open
  closed,        \* the closed response streams
  caller,        \* where each caller of AllocateAndBuildMessage is, and with what
  waiting,       \* the allocations pending in the allocator, oldest first
  memory,        \* what the allocator has granted this peer
  calls,         \* the operations each caller has started
  outcome        \* what became of each operation

vars == <<builders, outgoingWork, done, ctxDone, pc, draining, message, attempts,
          freed, sender, closed, caller, waiting, memory, calls, outcome>>

queueVars  == <<pc, draining, message, attempts, freed, sender>>
callerVars == <<caller, waiting, calls>>

NoOp == [link |-> NoBlock, sendBlock |-> FALSE, extension |-> 0, adds |-> FALSE]

\* The builder's maps: items are the operations of each caller in the message,
\* links the blocks each response refers to, streams its responseStreams (and
\* subscribers, which are always set together).
NewBuilder ==
  [items |-> [c \in Callers |-> {}], links |-> [r \in Requests |-> {}],
   blocks |-> {}, blkSize |-> 0, streams |-> {}]

Empty(b) == b.blocks = {} /\ \A c \in Callers : b.items[c] = {}

Init ==
  /\ builders = <<>>
  /\ outgoingWork = FALSE
  /\ done = FALSE
  /\ ctxDone = FALSE
  /\ pc = "select"
  /\ draining = FALSE
  /\ message = NewBuilder
  /\ attempts = 0
  /\ freed = 0
  /\ sender = FALSE
  /\ closed = {}
  /\ caller = [c \in Callers |-> [at |-> "idle", op |-> NoOp]]
  /\ waiting = <<>>
  /\ memory = 0
  /\ calls = [c \in Callers |-> 0]
  /\ outcome = [c \in Callers |-> [n \in OpNums |-> "none"]]

-----------------------------------------------------------------------------
(* responseStream.execute and AllocateAndBuildMessage *)

BlockBytes(op) == IF op.sendBlock THEN BlockSize[op.link] ELSE 0

\* size() of the operations: the block when it is sent, and the extension data.
Size(op) == BlockBytes(op) + op.extension

Goto(c, at, op) == caller' = [caller EXCEPT ![c] = [at |-> at, op |-> op]]

\* What became of the operation the caller is working on.
Resolve(c, result) == outcome' = [outcome EXCEPT ![c][calls[c]] = result]

\* A response stream that is closed drops the operation; otherwise the memory
\* for it is granted, or the caller waits for it.
Execute(r, op) ==
  /\ caller[r].at = "idle"
  /\ calls[r] < MaxOps[r]
  /\ calls' = [calls EXCEPT ![r] = @ + 1]
  /\ \/ /\ r \in closed
        /\ outcome' = [outcome EXCEPT ![r][calls'[r]] = "dropped"]
        /\ UNCHANGED <<caller, waiting, memory>>
     \/ /\ r \notin closed
        /\ \/ Size(op) = 0
           \/ waiting = <<>> /\ memory + Size(op) <= MaxPerPeer
        /\ memory' = memory + Size(op)
        /\ Goto(r, "build", op)
        /\ UNCHANGED <<waiting, outcome>>
     \/ /\ r \notin closed
        /\ Size(op) > 0
        /\ waiting # <<>> \/ memory + Size(op) > MaxPerPeer
        /\ waiting' = Append(waiting, [caller |-> r, call |-> calls'[r], size |-> Size(op)])
        /\ Goto(r, "waiting", op)
        /\ UNCHANGED <<memory, outcome>>
  /\ UNCHANGED <<queueVars, builders, outgoingWork, done, ctxDone, closed>>

\* RequestManager.SendRequest: a message of size 0 that adds a request.
SendRequest ==
  /\ caller[Requestor].at = "idle"
  /\ calls[Requestor] < MaxRequests
  /\ calls' = [calls EXCEPT ![Requestor] = @ + 1]
  /\ Goto(Requestor, "build", [NoOp EXCEPT !.adds = TRUE])
  /\ UNCHANGED <<queueVars, builders, outgoingWork, done, ctxDone, closed,
                 waiting, memory, outcome>>

\* The select on the memory also ends when the context is cancelled, even if the
\* memory has been granted; the allocation stays pending or granted.
AbandonWait(r) ==
  /\ ctxDone
  /\ caller[r].at = "waiting" \/ (caller[r].at = "build" /\ Size(caller[r].op) > 0)
  /\ Goto(r, "idle", NoOp)
  /\ Resolve(r, "dropped")
  /\ UNCHANGED <<queueVars, builders, outgoingWork, done, ctxDone, closed, waiting,
                 memory, calls>>

ShouldBeginNewResponse(size) ==
  \/ builders = <<>>
  \/ size > 0 /\ builders[Len(builders)].blkSize + size > MaxBlockSize

\* The operations' build functions: AddBlock, AddLink, AddExtensionData,
\* AddResponseCode, AddRequest, then SetResponseStream and SetSubscriber.
Added(b, c, op) ==
  [items   |-> IF op.adds THEN [b.items EXCEPT ![c] = @ \union {calls[c]}] ELSE b.items,
   links   |-> IF op.link = NoBlock THEN b.links
               ELSE [b.links EXCEPT ![c] = @ \union {op.link}],
   blocks  |-> IF op.sendBlock THEN b.blocks \union {op.link} ELSE b.blocks,
   blkSize |-> b.blkSize + BlockBytes(op),
   streams |-> b.streams \union ({c} \cap Requests)]

\* Mutant: the stream is not looked at again under the lock of the builders.
StreamOpenUnchecked(c) == TRUE

\* The build function of a response stream does nothing once it is closed.
StreamOpen(c) == c \notin closed

\* buildMessage, under buildersLk.  A new builder joins the queue even when the
\* closed stream then adds nothing to it.
BuildMessage(c) ==
  /\ caller[c].at = "build"
  /\ LET op    == caller[c].op
         queue == IF ShouldBeginNewResponse(Size(op))
                    THEN Append(builders, NewBuilder) ELSE builders
         last  == queue[Len(queue)]
         built == IF StreamOpen(c) THEN Added(last, c, op) ELSE last
     IN  /\ builders' = [queue EXCEPT ![Len(queue)] = built]
         /\ Goto(c, IF Empty(built) THEN "idle" ELSE "signal", NoOp)
         /\ Resolve(c, IF StreamOpen(c) /\ op.adds THEN "built" ELSE "dropped")
  /\ UNCHANGED <<queueVars, outgoingWork, done, ctxDone, closed, waiting, memory, calls>>

\* signalWork
SignalWork(c) ==
  /\ caller[c].at = "signal"
  /\ outgoingWork' = TRUE
  /\ Goto(c, "idle", NoOp)
  /\ UNCHANGED <<queueVars, builders, done, ctxDone, closed, waiting, memory, calls, outcome>>

-----------------------------------------------------------------------------
(* The allocator, as this peer sees it *)

WaitingBytes(n) == SumFunction([i \in 1..n |-> waiting[i].size])

\* The caller is still blocked on the i-th pending allocation.
BlockedOn(c, i) ==
  /\ waiting[i].caller = c
  /\ waiting[i].call = calls[c]
  /\ caller[c].at = "waiting"

\* ReleaseBlockMemory: the release never takes more than the peer holds, then
\* the oldest waiters are granted as long as they fit.
ReleaseBlockMemory(amount) ==
  LET left    == IF memory >= amount THEN memory - amount ELSE 0
      granted == Max({n \in 0..Len(waiting) : left + WaitingBytes(n) <= MaxPerPeer} \union {0})
  IN  /\ memory' = left + WaitingBytes(granted)
      /\ waiting' = SubSeq(waiting, granted + 1, Len(waiting))
      /\ caller' = [c \in Callers |->
                      IF \E i \in 1..granted : BlockedOn(c, i)
                        THEN [caller[c] EXCEPT !.at = "build"] ELSE caller[c]]

\* ReleasePeerMemory: everything is returned; the waiters are sent an error that
\* AllocateAndBuildMessage does not look at.
ReleasePeerMemory ==
  /\ memory' = 0
  /\ waiting' = <<>>
  /\ caller' = [c \in Callers |->
                  IF caller[c].at = "waiting" THEN [caller[c] EXCEPT !.at = "build"]
                  ELSE caller[c]]

-----------------------------------------------------------------------------
(* runQueue *)

Running == pc # "stopped"

\* The outcome of every operation in builder b, except those already decided.
Outcomes(b, result) ==
  [c \in Callers |-> [n \in OpNums |->
     IF n \in b.items[c] THEN result ELSE outcome[c][n]]]

\* select: case <-mq.outgoingWork
TakeWork ==
  /\ pc = "select"
  /\ outgoingWork
  /\ outgoingWork' = FALSE
  /\ pc' = "extract"
  /\ UNCHANGED <<draining, message, attempts, freed, sender, builders, done, ctxDone,
                 closed, callerVars, memory, outcome>>

\* select: case <-mq.done, with a signal that there is work: fail what is left.
TakeDoneAndDrain ==
  /\ pc = "select"
  /\ done
  /\ outgoingWork
  /\ outgoingWork' = FALSE
  /\ draining' = TRUE
  /\ pc' = "extract"
  /\ UNCHANGED <<message, attempts, freed, sender, builders, done, ctxDone, closed,
                 callerVars, memory, outcome>>

\* Mutant: shutdown is only noticed when there is work.
NeverStops == FALSE

\* select: case <-mq.done, without one: leave.
TakeDoneAndStop ==
  /\ pc = "select"
  /\ done
  /\ ~outgoingWork
  /\ sender' = FALSE
  /\ pc' = "stopped"
  /\ ReleasePeerMemory
  /\ UNCHANGED <<draining, message, attempts, freed, builders, outgoingWork, done,
                 ctxDone, closed, calls, outcome>>

\* select: case <-mq.ctx.Done()
TakeContextDone ==
  /\ pc = "select"
  /\ ctxDone
  /\ sender' = FALSE
  /\ pc' = "stopped"
  /\ ReleasePeerMemory
  /\ UNCHANGED <<draining, message, attempts, freed, builders, outgoingWork, done,
                 ctxDone, closed, calls, outcome>>

\* Mutant: extracting a message does not signal that there is more to send.
NoMoreWork == outgoingWork

\* The signal after a message was taken off the queue.
MoreWork == outgoingWork \/ Len(builders) > 1

\* extractOutgoingMessage with a message to send: it is built, its subscribers
\* are subscribed, and publishQueued runs unless the queue is being drained.
ExtractOutgoingMessage ==
  /\ pc = "extract"
  /\ builders # <<>>
  /\ ~Empty(Head(builders))
  /\ message' = Head(builders)
  /\ builders' = Tail(builders)
  /\ outgoingWork' = MoreWork
  /\ attempts' = 0
  /\ outcome' = Outcomes(Head(builders), "sending")
  /\ pc' = IF draining THEN "error" ELSE "initialize"
  /\ UNCHANGED <<draining, freed, sender, done, ctxDone, closed, callerVars, memory>>

\* extractOutgoingMessage returns errEmptyMessage: sendMessage returns; the
\* draining loop ends and with it the goroutine.
ExtractNothing ==
  /\ pc = "extract"
  /\ builders # <<>> => Empty(Head(builders))
  /\ builders' = IF builders = <<>> THEN <<>> ELSE Tail(builders)
  /\ outgoingWork' = MoreWork
  /\ \/ /\ ~draining
        /\ pc' = "select"
        /\ UNCHANGED <<sender, callerVars, memory>>
     \/ /\ draining
        /\ sender' = FALSE
        /\ pc' = "stopped"
        /\ ReleasePeerMemory
        /\ UNCHANGED calls
  /\ UNCHANGED <<draining, message, attempts, freed, done, ctxDone, closed, outcome>>

\* The loop of sendMessage tries SendMsg at most maxRetries times.
RetriesLeft == attempts < MaxRetries

\* initializeSender, before the first attempt: an open sender is kept, and
\* opening one may fail.
InitializeSender ==
  /\ pc = "initialize"
  /\ \/ sender' = TRUE /\ pc' = IF RetriesLeft THEN "send" ELSE "error"
     \/ ~sender /\ sender' = FALSE /\ pc' = "error"
  /\ UNCHANGED <<draining, message, attempts, freed, builders, outgoingWork, done,
                 ctxDone, closed, callerVars, memory, outcome>>

\* Mutant: the memory of a message that was sent is not given back.
SentBytesForgotten == 0

\* What is given back to the allocator once the message was sent.
SentBytes == message.blkSize

\* SendMsg succeeds: publishSent, and the memory of the message is released.
SendMsg ==
  /\ pc = "send"
  /\ outcome' = Outcomes(message, "sent")
  /\ ReleaseBlockMemory(SentBytes)
  /\ pc' = "select"
  /\ message' = NewBuilder
  /\ UNCHANGED <<draining, attempts, freed, sender, builders, outgoingWork, done,
                 ctxDone, closed, calls>>

\* SendMsg fails: the sender is reset.
SendMsgFails ==
  /\ pc = "send"
  /\ sender' = FALSE
  /\ attempts' = attempts + 1
  /\ pc' = "recover"
  /\ UNCHANGED <<draining, message, freed, builders, outgoingWork, done, ctxDone,
                 closed, callerVars, memory, outcome>>

\* The rest of attemptSendAndRecovery: give up on shutdown, otherwise open the
\* sender again and retry, until the retries are used up.
Recover ==
  /\ pc = "recover"
  /\ \/ (done \/ ctxDone) /\ pc' = "error" /\ sender' = FALSE
     \/ ~(done \/ ctxDone) /\ pc' = "error" /\ sender' = FALSE
     \/ /\ ~(done \/ ctxDone)
        /\ sender' = TRUE
        /\ pc' = IF RetriesLeft THEN "send" ELSE "error"
  /\ UNCHANGED <<draining, message, attempts, freed, builders, outgoingWork, done,
                 ctxDone, closed, callerVars, memory, outcome>>

\* publishError, first scrubResponseStreams: close the streams of the message...
CloseStreams ==
  /\ pc = "error"
  /\ closed' = closed \union message.streams
  /\ pc' = "scrub"
  /\ UNCHANGED <<draining, message, attempts, freed, sender, builders, outgoingWork,
                 done, ctxDone, callerVars, memory, outcome>>

\* Builder.ScrubResponses: the responses are deleted, and the blocks that no
\* remaining response refers to.
Scrubbed(b, scrub) ==
  LET kept   == [r \in Requests |-> IF r \in scrub THEN {} ELSE b.links[r]]
      blocks == b.blocks \cap UNION {kept[r] : r \in Requests}
  IN  [items   |-> [c \in Callers |-> IF c \in scrub THEN {} ELSE b.items[c]],
       links   |-> kept,
       blocks  |-> blocks,
       blkSize |-> SumFunctionOnSet(BlockSize, blocks),
       streams |-> b.streams \ scrub]

\* The builders after each has been scrubbed.
ScrubbedQueue(scrub) == [i \in DOMAIN builders |-> Scrubbed(builders[i], scrub)]

\* The totalFreed that scrubResponses returns: each builder's result replaces
\* the one before it, so it is what the last builder of the queue frees.
TotalFreed(scrub) ==
  IF builders = <<>> THEN 0
  ELSE LET last == builders[Len(builders)]
       IN  last.blkSize - Scrubbed(last, scrub).blkSize

\* The positions in S, in ascending order.
Ascending(n, S) ==
  {order \in Surjection(1..n, S) : \A j, k \in 1..n : j < k => order[j] < order[k]}

\* ... then scrubResponses, under buildersLk: take these responses out of every
\* queued message and drop the messages that become empty.
ScrubResponses ==
  /\ pc = "scrub"
  /\ LET queue == ScrubbedQueue(message.streams)
         kept  == {i \in DOMAIN queue : ~Empty(queue[i])}
     IN  \E n \in 0..Len(builders) : \E order \in Ascending(n, kept) :
           builders' = [k \in 1..n |-> queue[order[k]]]
  /\ freed' = TotalFreed(message.streams)
  /\ outcome' = [c \in Callers |-> [n \in OpNums |->
                   IF c \in message.streams /\ outcome[c][n] = "built"
                     THEN "scrubbed" ELSE outcome[c][n]]]
  /\ pc' = "release"
  /\ UNCHANGED <<draining, message, attempts, sender, outgoingWork, done, ctxDone,
                 closed, callerVars, memory>>

\* ... then, back in scrubResponseStreams, give the bytes it reported back.
ReleaseScrubbed ==
  /\ pc = "release"
  /\ IF freed > 0 THEN ReleaseBlockMemory(freed) ELSE UNCHANGED <<memory, waiting, caller>>
  /\ freed' = 0
  /\ pc' = "fail"
  /\ UNCHANGED <<draining, message, attempts, sender, builders, outgoingWork, done,
                 ctxDone, closed, calls, outcome>>

\* Mutant: the bytes of the failed message are released twice.
FailedBytesTwice == 2 * message.blkSize

\* What publishError itself gives back to the allocator.
FailedBytes == message.blkSize

\* ... then the Error event is published and the memory of the message released.
PublishError ==
  /\ pc = "fail"
  /\ outcome' = Outcomes(message, "error")
  /\ ReleaseBlockMemory(FailedBytes)
  /\ pc' = IF draining THEN "extract" ELSE "select"
  /\ message' = NewBuilder
  /\ UNCHANGED <<draining, attempts, freed, sender, builders, outgoingWork, done, ctxDone,
                 closed, calls>>

\* Shutdown, by the peer manager when the peer disconnects.
Shutdown ==
  /\ ~done
  /\ done' = TRUE
  /\ UNCHANGED <<queueVars, builders, outgoingWork, ctxDone, closed, callerVars,
                 memory, outcome>>

\* The context of the exchange is cancelled.
CancelContext ==
  /\ ~ctxDone
  /\ ctxDone' = TRUE
  /\ UNCHANGED <<queueVars, builders, outgoingWork, done, closed, callerVars,
                 memory, outcome>>

-----------------------------------------------------------------------------
RunQueue ==
  \/ TakeWork
  \/ TakeDoneAndDrain
  \/ TakeDoneAndStop
  \/ TakeContextDone
  \/ ExtractOutgoingMessage
  \/ ExtractNothing
  \/ InitializeSender
  \/ SendMsg
  \/ SendMsgFails
  \/ Recover
  \/ CloseStreams
  \/ ScrubResponses
  \/ ReleaseScrubbed
  \/ PublishError

Caller(c) == BuildMessage(c) \/ SignalWork(c)

Next ==
  \/ \E r \in Requests : \E op \in Operations[r] : Execute(r, op)
  \/ \E r \in Requests : AbandonWait(r)
  \/ \E c \in Callers : Caller(c)
  \/ SendRequest
  \/ RunQueue
  \/ Shutdown
  \/ CancelContext

\* The goroutine runQueue keeps running, and some caller that can go on does.
Fairness ==
  /\ WF_vars(RunQueue)
  /\ WF_vars(\E c \in Callers : Caller(c))

Spec == Init /\ [][Next]_vars

FairSpec == Spec /\ Fairness

-----------------------------------------------------------------------------
(* Properties *)

\* What reaches the peer of a response is a prefix of what was built for it: once
\* a message with a part of the response has failed, nothing later is sent,
\* although the executor may be building while the failure is handled (the
\* stream is closed before the queue is scrubbed, and looked at again under
\* buildersLk).
SentWithoutGaps ==
  \A r \in Requests : \A m, n \in OpNums :
    m < n /\ outcome[r][n] = "sent" => outcome[r][m] \in {"sent", "dropped"}

BuilderBytes(queue) == SumFunction([i \in DOMAIN queue |-> queue[i].blkSize])

\* The memory granted for the operations that callers are about to build.
GrantedBytes(callers) ==
  SumFunction([c \in Callers |->
                 IF callers[c].at = "build" THEN Size(callers[c].op) ELSE 0])

\* Backpressure counts everything: the bytes in queued messages, in the message
\* being sent and about to be built never exceed what the allocator has granted,
\* so no release gives memory back early or twice.
MemoryCoversBuffers ==
  Running =>
    memory >= BuilderBytes(builders) + message.blkSize + freed
                + GrantedBytes(caller)

\* The operations that are part of a message and have no outcome yet.
Unresolved ==
  {op \in Callers \X OpNums : outcome[op[1]][op[2]] = "built"}

\* Every operation that made it into a message is sent, fails, or is scrubbed
\* after a failure, unless the queue stops.
BuiltIsResolved == Unresolved # {} ~> Unresolved = {} \/ ~Running

\* After Shutdown the goroutine ends, whatever the network does: no attempt to
\* send or to recover keeps it.
ShutdownStops == done ~> ~Running

\* The connection has failed: a message could not be sent, or the queue was told
\* to stop.
Failed ==
  \/ done
  \/ ctxDone
  \/ \E c \in Callers : \E n \in OpNums : outcome[c][n] = "error"

\* The most that the responses can allocate for extension data, and for one operation.
ExtensionBytes ==
  SumFunction([r \in Requests |-> MaxOps[r] * Max({op.extension : op \in Operations[r]})])
LargestSize == Max({Size(op) : op \in UNION {Operations[r] : r \in Requests}})

\* While the network delivers, a caller blocked for memory is eventually let through,
\* as long as the extension data of the responses leaves room for its operation:
\* sending a message releases the blocks that building it allocated (publishSent),
\* but never the extension data, which counts in size() and not in BlockSize().  Once
\* extension data has used up the limit of the peer its callers stay blocked.
BackpressureEnds ==
  waiting # <<>> /\ ExtensionBytes + LargestSize <= MaxPerPeer
    ~> waiting = <<>> \/ Failed

=============================================================================
