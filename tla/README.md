# A verification of go-graphsync

TLA+ models of the core of go-graphsync, the TLC runs that check them on small
instances, and TLAPS proofs of the properties that matter most. The models are
translated from the Go source; `PROJECT.json` says, definition by definition,
from which lines. Comments in the modules name the Go functions.

    tlc -workers 2 -config MCAllocator.cfg Allocator       # one of the runs below
    tlapm AllocatorTraverserProofs.tla                     # one of the proofs

## 1. The system and its parts

Graphsync lets a *requestor* ask a peer, the *responder*, for the part of a DAG
that a selector describes. Both sides run the same traversal: the responder
reports every link it visits (present or missing) and sends blocks, the requestor
matches the reports with the loads of its own traversal, and so verifies every
block against its link.

| Part | State | Operations | Talks to |
|---|---|---|---|
| `allocator` | memory granted in total and per peer, a FIFO of blocked calls per peer, a priority queue of peers | AllocateBlockMemory, ReleaseBlockMemory, ReleasePeerMemory | message queues (calls, one response channel per call) |
| `messagequeue` | message builders, a signal channel of capacity 1, the open sender | AllocateAndBuildMessage, runQueue, Startup, Shutdown | allocator, network, publisher, response streams (Close) |
| `responseassembler`, `linktracker` | which response has visited which link, dedup keys, blocks to skip, closed streams | Transaction, DedupKey, IgnoreBlocks, SkipFirstBlocks, ClearRequest | message queue of the peer |
| `responsemanager` | the responses in progress and their states, three signal channels each | new, cancel and update messages; pause, unpause, cancel, update calls; StartTask, GetUpdates, FinishTask | task queue, query executor, assembler, subscribers |
| `queryexecutor` | the task it runs | ExecuteTask | response manager, traverser, hooks, assembler |
| `taskqueue` | pending and active tasks | PushTask, worker loop, TaskDone | both managers |
| `notifications` | commands not yet processed, subscribers per topic | Publish, Subscribe, Close, Shutdown | message queue, subscribers |
| `message` | the parts of a message under construction | the builder's methods, Build, encoding, decoding | message queue, network |
| `network` | the streams to and from a peer | NewMessageSender, SendMsg, handleNewStream, connection notifications | message queue, peer manager, both managers (as receiver) |
| hooks of both managers | the registered callbacks | Process...Hooks | both managers, both executors |
| `requestmanager` | the requests in progress, their contexts, errors and channels | NewRequest, CancelRequest, pause, unpause, update, ProcessResponses, task messages | task queue, executor, loaders, peer manager |
| `executor` | the task it runs | ExecuteTask, traverse | request manager, reconciled loader, traverser, hooks |
| `reconciledloader` | remote items, the record of loads, verifier, path tracker | BlockReadOpener, RetryLastLoad, SetRemoteOnline, IngestResponse | executor (one goroutine), request manager (another), store |
| `ipldutil` traverser | current link, completion, block count | IsComplete, CurrentRequest, Advance, Error, Shutdown | its own goroutine, executor, request manager |
| `peermanager` | a reference count and a process per peer | Connected, Disconnected, GetProcess | message queues, link trackers |
| `responsecollector` | buffered progress and errors | the two collecting goroutines | request manager, the caller |

Both managers are actors: one goroutine handles messages one after the other, and
everything else runs beside it. What is hard is therefore between the actors and
what they share:

* **Workers against managers.** An executor reads signals at certain points only;
  cancels, pauses, updates, answers and failures arrive in between.
* **Channels that are closed.** A request's channels are written by the executor
  and by the traversal's goroutine, and closed by the manager.
* **Hand-over of locks.** The traverser locks a mutex in one goroutine and unlocks
  it in another.
* **Backpressure.** Memory is allocated by one goroutine and released by another,
  in three places; a missed release blocks a response, a release too many
  unbounds memory.
* **Failure of one message of several.** What was queued behind it must not go out
  and its memory must come back.
* **Order is the protocol.** The loader matches items and loads by order only,
  across missing links, duplicates, batches and pauses; a message queue keeps the
  order of what it sends, but every stream has a reader of its own.
* **One ID, several responses.** A resumed request is sent again under its ID,
  while the worker and the events of its first response are still about.
* **Queues that come and go.** A peer's queue is looked up, created and shut down
  by callers and by notifications of the network, and its goroutine outlives it.

`PROJECT.json` lists these at the lines where they bite ("hazards"), each with
the properties that would catch it going wrong or a note why none does yet.

## 2. Modules

| Module | Models | Actions |
|---|---|---|
| `Allocator` | `allocator.go` | one per method; the loop processPendingAllocations is one action per iteration, with the lock held in between |
| `MessageQueue` | `messagequeue.go`, its builder, `responseStream.execute`, SendRequest | the callers up to and from the critical section of `buildersLk`; runQueue step by step: select, extract, open, send, recover, publish, close streams, scrub, release, drain |
| `MessageQueueProofs` | | what is sent has no gaps and what is buffered is paid for, for any responses, operations and sizes |
| `ResponseAssembler` | `peerlinktracker.go`, `linktracker.go`, `preparequery.go`, block and finish operations, `responseStream.execute`, the messages they are built into | one per tracker method; recording a link and building its message are two; a message is sent or fails with its scrub in one step |
| `ResponseAssemblerProofs` | | theorems for any responses, links and keys |
| `Hooks` | both `hooks` packages | none: pure operators that say what a list of hooks makes of an event |
| `Lifecycle` | | the abstract specification of a request at either manager |
| `ResponseManager` | `responsemanager/server.go`, `queryexecutor.go`, `subscriber.go`, task queue; extends `Hooks`, implements `Lifecycle` | one per handler; one per step of a worker between two points where it synchronises; one per call a subscriber makes |
| `ResponseManagerProofs` | | theorems for any requests, traversals, workers and hooks, and the safety part of the refinement |
| `RequestManager` | `requestmanager/server.go`, `client.go`, `executor.go`, task queue, the loader seen from outside; extends `Hooks`, implements `Lifecycle` | one per handler; one per step of a worker |
| `RequestManagerProofs` | | the same for the requestor |
| `Resume` | both managers and what is between them, for one request ID that is sent several times | pause, resume and send at the requestor; processRequests, the workers and the final event at the responder |
| `ResponseCollector` | `responsecollector.go`, NewRequest, cancelRequestAndClose, the manager's loop with its bounded channel | one per case of each select, one per message handled |
| `ResponseCollectorProofs` | | theorems for any number of nodes, errors and tasks and any capacity |
| `ReconciledLoader` | package `reconciledloader`, the loop of the executor, an honest peer | one per critical section of the loader; one per link the peer visits |
| `Traverser` | `traverser.go`, with the visitor of a request and terminateRequest | one per critical section and per outcome of a select |
| `AllocatorTraverserProofs` | | theorems for any peers, sizes and limits of the allocator, and for traversals of any length |
| `Publisher` | `publisher.go` | one per command processed; the calls are operators for the modules that make them |
| `PeerManager` | `peermanager.go`, `peermessagemanager.go`, the queues of a peer over time; extends `Publisher` | Connected, Disconnected and Shutdown; the steps of a call; the steps of a queue's goroutine |
| `PeerManagerProofs` | | theorems for any callers, connections and queues |
| `Message` | `message/builder.go`, `message/message.go`, the encoding in `message/v2` and `message/ipldbind` | none: pure operators |
| `Network` | a message queue, the streams of `libp2p_impl.go`, their readers and the receiver of `impl/graphsync.go`; extends `Message` | one per call of a manager, per step of runQueue, per outcome of a read or write, per fault |
| `NetworkProofs` | | theorems for any requests, updates, transactions, faults and retries |
| `MCMessageQueue`, `MCReconciledLoader`, `MCResponseAssembler`, `MCPeers`, `MCNetwork` | | constants, scenarios, symmetry |

Data are abstracted, control is not. A message's content is the set of operations
in it except in `Message`, which keeps every field (an optional field of the wire
format is a set with at most one value); block contents are a size, a
traversal is a number of links except in `ReconciledLoader`, where it walks a real
DAG given by its paths. A hook is the sequence of calls it makes of the actions it
is given, and the runs try every list of hooks up to a bound. What a list of hooks
does is said without a loop: the first hook that leaves an error is the last one that
runs, and the calls of the hooks up to it are those that count. In the same
way the filter of `scrubResponses` is an ascending enumeration of the messages that
are kept (`Ascending`). Errors are kept apart where the code tells them apart.

The same code appears at two levels where two questions need it. `MessageQueue`
has the allocator as one peer sees it, a FIFO under one limit; `Allocator` has all
of it. `ResponseAssembler` has the messages of the queue and which blocks are in them when
one fails, and neither sizes nor the steps of sending.
`MessageQueue` has one queue in detail; `PeerManager` has several queues of
a peer with the publisher of each, and a send that succeeds or fails; `Network` has
the messages and streams of one queue, and neither memory nor events.
`RequestManager` has the loader as a number of items and a flag;
`ReconciledLoader` has all of it and the executor's loop but no manager, and
`ResponseCollector` has the channels of a request and the manager reduced to when it
sends, reports and closes. In `ResponseManager` the message queue is a sequence per
response of which prefixes are sent or fail, which is what `MessageQueue` shows
(`SentWithoutGaps`), and an ID is requested once; `Resume` requests it again, with
no failures, hooks or pauses at the responder.

**The refinement.** `Lifecycle` says what both managers promise (graphsync.go,
RequestState): a request is accepted once, runs only after it waited for a worker,
comes back from a pause only through the queue, never leaves its end, is reported
at most once and when it is over, and neither waits nor runs for ever. Its
variables are the phases, the reports and whether the manager was shut down. Each
manager instantiates it with its states for the phases; the reports are the
completed and cancelled listeners at the responder, and the answer to
CancelRequest at the requestor. `ImplementsLifecycle` is the whole abstract
specification, its liveness included.

Definitions under a comment "Mutant" are wrong variants of the definition they
precede. They are used by nothing; putting one in place of the right definition
breaks the property that `PROJECT.json` ("mutants") names for it, which shows
that the property is sensitive to that mistake.

## 3. Runs

Twelve runs, each of less than five minutes with two workers. Bounds are constants
of the modules and appear in guards.

**allocator.** Three peers, sizes 1 to 3, a per-peer limit of 2 and a total of 3,
four calls. Size 3 can never be granted to a peer, so a stuck head occurs; two
peers can fill the total while a third waits; four calls are enough for a queue
of two behind a peer that is at its limit. Limits hold, grants are in order,
nobody is forgotten (waiters and queues agree, deleted peers hold nothing, no
release leaves a grantable head), and every call that its peer's limit allows is
answered.

**message_queue.** A response with up to two transactions for a block, another
with one that refers to the block as a duplicate, with or without extension data of
size 1, and the request manager, failures at any point, Shutdown, cancellation. Blocks
of size 1 and a full size of 1 make messages split; the limit of 2 makes the third
transaction wait, and a second one of the first response once extension data holds
its part of the limit for good.
What a response gets through has no gaps, buffered blocks are paid for, everything
built is resolved, Shutdown stops the goroutine, and backpressure ends:
`BackpressureEnds` says so under the condition that the extension data of the
responses leaves room for the largest operation, which it does here. Extension data of
size 2 would not, and blocks callers for ever.

**response_manager.** One response of up to two blocks and up to four calls or
messages in any order (cancel, update, pause, unpause, CancelResponse,
UpdateResponse), with failing messages and up to two hooks of up to two calls at
every point where hooks run. Responses only share workers, which a second response
would make visible, and the manager's handlers touch one response each; four
commands let a pause, an unpause, an update and a cancel follow each other.

**request_manager.** One request of two links, three calls, two answers beyond the
last, Shutdown, and up to two hooks.

**client.** A request that yields up to two nodes and an error, one task, one
message about another request, a message channel of capacity 1 (the code's is 16:
the smallest one blocks senders soonest), a caller that may stop reading and whose
context may end at any time, and Shutdown. The loop of the manager always comes
back from its two blocking sends, which is what every other request depends on.

**peers.** Two callers, two connections that come up twice in all, two queues, a
memory limit of 1: a queue is looked up and shut down, a second one is made while
the goroutine of the first still drains, callers of both share the memory. A call
may make a queue while no connection is up (GetProcess, with reference count 0), so a
queue does not imply a connection; what holds is that the count of the registered
queue is the number of connections up, and that every other running queue is about to
be shut down.

**network.** One request that is started, updated, cancelled and resumed, and the
transactions of two responses (a block with extension data and a final status, and
a block that exceeds the largest message), three calls, one fault, one retry. Three
calls let a request, its update or cancel and a transaction merge into one message
or go into several; one fault breaks a stream with messages unread, or fails a write that had
happened.

**traverser.** Three links, with cancellation of the manager's context, pauses,
errors, skipped links and termination at any time. This is the run whose safety
part is also proved for any number of links.

**reconciled_loader.** A root with two branches that both end in the same block
(five paths, four blocks), every distribution of the blocks over the two stores
in which the peer has the root, messages of up to two items and up to two pauses. The
result is compared with a reference: a path's block is available if it is in the
local store, or the peer reaches that block at this or an earlier path. All these
scenarios are explored; two properties carry the conditions without which the code
goes wrong. `PausesAreSafe`, in `HonestPeerIsNotBlamed` and `ResultIsWhatBothHave`: if
there was a pause the peer has every block (hazard at `remotequeue.go:67`).
`PeerHasFirstLoads`, in `ResultIsWhatBothHave`: the peer has what the traversal loaded
before it first missed a block (hazard at `executor.go:216`). `TraversalEnds` has none.

**response_assembler.** Two responses, two links, one dedup key, every
do-not-send list, up to one skipped block and three loads altogether, and messages that
are sent or fail: two loads put a block and a reference to it into one message or two,
and the third comes after a failure or a sent message. A block that is lost when its
message fails, or because its stream was closed, is remembered as such (`lost`).

Two runs expect a violation. Each states what a comment or a test says of the code:

* **reconciled_loader_ragged**: a path longer than the missing one counts as below
  it; in a DAG whose links lie at different depths a block that the peer sent is
  reported missing.
* **resume**: a request is paused and resumed while the worker on its first
  response has taken the cancel and not yet called FinishTask. The entry of the
  new response replaces the old one, its task is dropped because the topic is
  still active, and FinishTask, which looks the response up by its ID, terminates
  it. The requestor waits for ever.

### What the code does not promise

While modelling, TLC also showed the following. The properties are stated so that
they allow for it; the hazards of `PROJECT.json` name the lines.

* `scrubResponses` overwrites its total in every iteration, so the memory of blocks
  scrubbed from all but the last queued message stays allocated; so does memory
  that was granted to a transaction whose stream was closed meanwhile.
* Extension data is allocated with the blocks of a transaction and never released, as
  `BlockSize` counts blocks only: once it has used up the limit of the peer, callers
  stay blocked although the network delivers.
* A link stays recorded in the tracker when the message with its block fails or the
  stream is closed before it is built. Until the response ends, others with the same
  key withhold a block that never left the responder.
* After a pause an honest peer that lacks a block may be blamed: the retried item is
  put back in front of the remote queue and checked against a record it is not in.
* When the local store has, before the first block it lacks, blocks that the peer
  lacks, the two count differently and the peer leaves out blocks that are needed.
* A response whose earlier message fails while it finishes stays in CompletingSend,
  because its final status was dropped with the closed stream.
* A request that is paused and then cancelled while it runs becomes Paused, and
  CancelRequest does not return until it is resumed.
* NewRequest and CancelRequest whose context is done before their message was sent
  wait for a reply that cannot come.
* The goroutine of a queue that was shut down releases the memory of a queue that
  was made for the peer since.
* A message built into a queue after that queue was drained is told to nobody.
* Several requests with one ID in a message leave only the last.

### Fairness

* Goroutines that can run do run: workers, runQueue, the traversal, the
  publisher, and the managers' loops for what these send them, are weakly fair.
* A goroutine that waits for a mutex gets it (Go's mutex has a starvation mode):
  strong fairness of the release in `Allocator` and of the traversal's relock in
  `Traverser`.
* In `Allocator`, a peer that holds memory eventually releases some: its message
  queue sends or fails every message (`BuiltIsResolved`).
* In `RequestManager`, `AnsweredSpec` also assumes that a peer which was asked
  ends its answer. The code has no timeout for a silent peer.
* In `ResponseCollector` the caller is not assumed to read: only the manager, the
  workers, the traversal and the collectors are fair. The two cases of a select that
  stay ready again and again, the caller's cancelled context and a send into the
  manager's channel, are strongly fair, as Go's select and its queue of waiting
  senders make them.
* In `Network` sending and reading are fair, faults are not; in `PeerManager` the
  queues' goroutines, their publishers and a shutdown that was begun, and no call; in
  `Resume` everything but a pause.
* Calls of the user, pauses, resumes, cancels and network failures are never
  assumed to happen. `BackpressureEnds` is about behaviours in which
  the network has not failed and extension data leaves room, and says so itself.

Deadlock checking is off in all runs: a system whose calls are used up, or whose
queue has been shut down, rightly stops. Goroutines that wait for ever are what the
liveness properties are about.

## 4. Proofs

Eight modules hold proofs. Each states its inductive invariant as a conjunction of
named parts, first; then the lemmas about the operators; then one step per action;
then the theorems, listed in `PROJECT.json`. All hold for every value of the
constants. The assumptions are the named ASSUMEs of the modelled modules: limits,
sizes and bounds are natural numbers, names that must differ do.

**`AllocatorTraverserProofs`**, two small components, which share nothing but
the module. The allocator, for all peers, sizes, limits and numbers of calls:

* `TypeCorrect`, by induction on its own. It includes that no unsigned counter
  goes below zero.
* `LimitsHold`: both limits, from the type invariant.
* `ForgottenHoldNothing`: peers without a status hold nothing.
* `NoLostWakeup`: when the lock is free, the oldest head its peer could take does
  not fit the total. `StopsWithoutGrantable` is the heart of it: the comparator
  puts such a head first, so the loop can only stop there.
  `AllocateWithoutGrantable` shows that a new call does not spoil it.
* `NoneForgotten`: the three facts of the run's `NobodyIsForgotten` together.
* `InOrder` and `WaitersQueued` need the strengthening `QueueInv`: every entry of a
  queue belongs to a waiting call of that peer, every waiting call has an entry,
  queues are sorted by ticket, and what was granted is older than what is queued.
  Neither property is inductive: without sortedness a head could be younger than
  the entries behind it.

The traverser: its safety properties for any `MaxLinks`, from one inductive
invariant `TraverserInv`. Beyond the properties it says that
the walk stands still while the executor reads and answers, that the link the
executor read is the current one unless the traversal is done, that blocks given
and blocks counted differ only between the two steps of Advance, and that nothing
follows `writeDone`. `HandOver`, `AnswersMatch`, `CountExact` and `NoSendOnClosed`
are its corollaries; the last holds because terminateRequest waits in Shutdown for
`stopped`, which is closed by the goroutine that would send.

**`MessageQueueProofs`**: `SentWithoutGaps`, which every user of the queue relies on.
It is not inductive: nothing in it says where an operation is. `PlacedInOrder` adds
that an operation is built exactly when one queued message has it and being sent
exactly when the current message has it, that later messages have later operations,
that operations are decided in the order of their numbers, that a message which failed
has its streams closed before the queue is scrubbed (`ClosedFirst`), and that a
response which lost an operation has a closed stream and, after the scrub, nothing in
the queue. The crossing that matters is a transaction that got its memory before the
failure and builds after it: `Adds` needs the stream open under `buildersLk`, and then
nothing of the response has failed.

`MemoryCoversBuffersHolds` is about the sizes: what the allocator granted and has not
taken back covers the blocks in queued messages, in the message being sent and about
to be built. `MInv` adds that `blkSize` of every message covers its blocks and that
the peer's limit is kept (`Counted`), and that a caller blocked on a pending allocation
asked for the size of its operation (`Asked`): without it a grant could be for less
than is built. `BuffersAreBounded` follows: the bytes that wait in messages never
exceed the peer's limit. The sums run over sets of any size, which the prover cannot
do induction on. They are counted instead: `Units` are the pairs of a block and the
number of one of its bytes, their number obeys the laws of cardinality, and the sum
of the community modules equals it because a smallest set on which they differ would
have a smaller one. The assumptions are that requests and blocks are finite and that
an operation which sends a block names one.

**`ResponseAssemblerProofs`**: the three properties of the run. `TraversalsAreKept`
is about counts that several responses add to and take from. The invariant counts the
*visits* (a response and a number up to its own count of the link), which are a finite
set: recording adds one element, FinishTracking takes a response's elements away, and
the shared count is its cardinality (`CountsAreExact`). `NothingIsLeft` needs
besides that a response appears only in the tracker of
its key and only while in progress, and that a key has a tracker exactly while somebody
has the key. `WithheldIsSentOrClaimed` needs that every tracked link is covered: its block
was sent, is in a queued message or about to be built, was claimed, or was lost. The
messages make it a matter of sequences: building puts an operation into a new message
or the last one (`BuildKeeps`), sending moves what the head has to `sent`
(`MessageSentKeeps`), and a failure takes the closed responses out of every message
behind it, where what is no longer provided is lost (`MessageFailedKeeps`). So the
theorem says: of the blocks the peer is told of and not sent, only those are missing
from sent, queued and claimed that left with a failed message or a closed stream.

**`RequestManagerProofs`**: `ExecutorOwnsRunning` and `TruncationIsTold`.
`RequestInv` joins the agreement of manager, task queue and worker
(`WorkerMatchesState`) with what is needed to explain every early end: a cancelled
context has a recorded reason, the result of a task without an error means a complete
traversal, any other was told to the caller or the context was done first. Error
values that the code compares are kept apart, so that no hook's error is taken for the
context's.

**`ResponseManagerProofs`**: `StateMatchesTaskQueue`, `NothingAfterFinal` and
`RefusedIsFailed`. `ResponseInv` follows the final status through the queue, the
events and the subscriber: it is in one place (`OneFinal`), whoever sent it has ended
the response or is the worker about to (`FinalEnds`), only PartialResponse follows it,
and once a listener was told nothing final is left (`VerdictIsLast`). `RefusedEnds`
carries a refusal from the hook to the state. What hooks do for a list of any length
rests on one lemma, that a set of indexes has a least element.

**The refinements.** `ImplementsLifecycleSafety` of both managers proves that the
initial states of the manager map to initial states of `Lifecycle` and every step to a
step or a stutter. The liveness part of `Lifecycle` stays with TLC.

**`PeerManagerProofs`**, for one peer and any connections, queues and callers:
`QueuesMatchConnections` from `Basics`, with the cardinality
of the set of connections as the reference count, and `OneVerdictInOrder` from
`Pipeline`. The latter relates four places an event may be in: the messages of a
queue, the message being sent, the publisher's commands, the subscriber. Commands are
ordered by the topic and, within it, subscribe, queued, verdict, close; a subscriber
is in one message or attached to one topic; and what it was told and what the commands
will still tell it make up one complete story (`AttachedInv`).

**`ResponseCollectorProofs`**: `DeliveredInOrder` and `ErrorsAreTold`, each with an
invariant of its own. What was read, what is buffered and what the traversal passed on
are one increasing sequence, and without a drop they are everything up to where the
traversal is (`Nodes`). `TerminatedOnce`, that the manager terminates a request at
most once and never while a worker has it, needs the messages in the manager's channel:
the call and the worker have at most one each and wait meanwhile. The errors then
follow from the goroutine that leaves its channel only when it is closed and empty.

**`NetworkProofs`**: the three invariants of the run, from the encoding up.

* `MessageSurvives`: decoding gives back every message that is well-formed
  (`IsMessage`): the fields a request's type has no use for are zero and blocks have
  the CID of their data. Lists and maps may have any length.
* `MessagesAreWellFormed` (`BInv`): the builder makes only such messages, so what is
  sent, on a stream or read is a message that was built, and what its readers decode
  is that message. `DeliveredAsBuilt` follows, with any faults.
* `OneStreamInOrder` (`PInv`): as long as no stream broke there is one (`OneStream`),
  the managers got the first n messages that were sent, and the others are on the
  stream in their order, the first of them possibly with the reader that decoded it
  and has not yet told the managers (`Pipeline`). `DeliveredInSendOrder` follows: each
  manager's log selects from a prefix of the messages.
* `LastWordIsHeard` needs besides that of each request the latest word is in the
  latest message that has the request (`LastWord`), which is where the builder's rule
  that a later request for an ID replaces an earlier one matters.

A manager's log has the messages with something for it, in the order they were sent. That
every finite set of positions can be listed in order would need an induction; the
invariant carries it instead (`HasRanks`), as each delivery adds the largest position.
The assumptions (`NetworkAssumption`) are that requests are as NewRequest makes them,
one per ID, that extension lists are finite and that blocks have the CID of their data.

Only model-checked:

* all liveness, and with it the liveness part of `Lifecycle` (fairness and ENABLED are
  outside the prover's reach);
* `HonestPeerIsNotBlamed` and `ResultIsWhatBothHave` of `ReconciledLoader`: a
  comparison with a reference that is computed over the paths of a DAG, whose laws need
  induction over the paths. They hold for the DAGs of the run and not for every DAG, as
  the run on a ragged one shows, so a theorem would need a condition on its shape.

## 5. Not modelled, and why

* libp2p, go-peertaskqueue, go-pubsub, go-ipfs-pq and go-cid are external: the
  models have what the code relies on. dag-cbor, selectors and stores are abstracted
  to what their users see; a local store that fails to write a block is not in
  `ReconciledLoader`.
* `selectorvalidator`, `persistenceoptions`, `storeutil`, `panics`, the extension
  codecs and the listeners: stateless checks, maps under a lock, adapters and
  callbacks whose result nobody uses.
* The options and constructors of `impl`, statistics, peerState and its diagnostics,
  tracing and logging: no state that the other parts read.
* The network's one-shot SendMessage, which no other part calls; protocol
  negotiation; Unsubscribe of the publisher.
* `ReconciledLoader` takes no stale answer after a resume; the run has two pauses.
* The shutdown of the response manager.
* No part keeps anything on disk, so there is no crash recovery to model: a restart
  is a new process that knows no request.

## 6. Plan

1. Proofs: the parts of `ReconciledLoader` that do not depend on the reference (the
   verifier replays the record in its order, nothing is taken from the remote queue
   twice).
2. The hazards that carry a note: the response manager's loop waiting for memory, Shutdown of the request manager,
   resumed loads with stale items.
