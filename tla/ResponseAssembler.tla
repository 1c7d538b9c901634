-------------------------- MODULE ResponseAssembler --------------------------
(***************************************************************************)
(* What the responder tracks for one peer to decide which blocks it sends: *)
(* the peer link tracker (responseassembler/peerlinktracker.go), the link  *)
(* trackers it is made of (linktracker/linktracker.go), how a new response *)
(* sets it up from its extensions (preparequery.go), and the operations    *)
(* that the executors of several responses record in it and then put into  *)
(* the peer's messages (responseBuilder.go, responseassembler.go), until   *)
(* these are sent or fail (messagequeue.go, message/builder.go).           *)
(*                                                                         *)
(* Every method of the tracker holds linkTrackerLk and is one action.  An  *)
(* executor records a link first and builds the message later, when the    *)
(* memory for it has been granted, so other responses record theirs in     *)
(* between.  Responses share a tracker unless they have a dedup key; those *)
(* with the same key share one of their own.                               *)
(*                                                                         *)
(* A message that fails closes the streams of its responses and is the end *)
(* of what they have in later messages; nothing tells the trackers.  Here  *)
(* that is one step, and so is sending: module MessageQueue has the parts. *)
(* A status, which is in messages too, refers to no block and is left out. *)
(* The message queue of the peer runs all the time: one that is shut down  *)
(* belongs to a peer that is gone.                                         *)
(*                                                                         *)
(* A request ID is used once.  MaxLoads bounds the links the responses     *)
(* visit altogether, MaxSkip the number in do-not-send-first-blocks.       *)
(***************************************************************************)
EXTENDS Integers, Sequences, FiniteSets, Functions

CONSTANTS Requests, Links, Keys, NoKey, NoLink, MaxLoads, MaxSkip

ASSUME BoundsAssumption ==
  /\ {MaxLoads, MaxSkip} \subseteq Nat
  /\ NoKey \notin Keys
  /\ NoLink \notin Links

\* The default tracker, and one for each key.
Trackers == Keys \union {NoKey}

VARIABLES
  phase,            \* where a response is
  missingBlocks,    \* of each link tracker, by request
  linksTraversed,   \* linksWithBlocksTraversedByRequest: how often each link is in the list
  inProgress,       \* traversalsWithBlocksInProgress
  altTrackers,      \* the keys that have a link tracker
  dedupKeys,
  blockSentCount,
  skipFirstBlocks,
  operation,        \* the operation an executor has recorded and not built yet
  queue,            \* the messages that are built or being sent, the first to go first
  sent,             \* the blocks that were sent, by tracker
  withheld,         \* the blocks the peer was told of that were not with it, by tracker
  closed,           \* the responses whose stream is closed
  lost,             \* the blocks that left the queue, or never joined it, unsent, by tracker
  loads,            \* the links each response has visited, and what was found
  claimed,          \* the links the peer said it has, listed or among the first ones, by tracker
  status            \* the status a response was finished with

vars == <<phase, missingBlocks, linksTraversed, inProgress, altTrackers, dedupKeys,
          blockSentCount, skipFirstBlocks, operation, queue, sent, withheld, closed,
          lost, loads, claimed, status>>

tracker  == <<missingBlocks, linksTraversed, inProgress>>
messages == <<queue, sent, withheld, closed, lost>>
work     == <<operation, messages, loads, status>>

\* The operation of r for a link.
BlockOperation(r, t, l, hasBlock, sendBlock) ==
  [request |-> r, tracker |-> t, link |-> l, hasBlock |-> hasBlock, sendBlock |-> sendBlock]

NoOperation(r) == BlockOperation(r, NoKey, NoLink, FALSE, FALSE)

Init ==
  /\ phase = [r \in Requests |-> "new"]
  /\ missingBlocks = [t \in Trackers |-> [r \in Requests |-> {}]]
  /\ linksTraversed = [t \in Trackers |-> [r \in Requests |-> [l \in Links |-> 0]]]
  /\ inProgress = [t \in Trackers |-> [l \in Links |-> 0]]
  /\ altTrackers = {}
  /\ dedupKeys = [r \in Requests |-> NoKey]
  /\ blockSentCount = [r \in Requests |-> 0]
  /\ skipFirstBlocks = [r \in Requests |-> 0]
  /\ operation = [r \in Requests |-> NoOperation(r)]
  /\ queue = <<>>
  /\ sent = {}
  /\ withheld = {}
  /\ closed = {}
  /\ lost = {}
  /\ loads = [r \in Requests |-> <<>>]
  /\ claimed = {}
  /\ status = [r \in Requests |-> "none"]

Move(r, p) == phase' = [phase EXCEPT ![r] = p]

-----------------------------------------------------------------------------
(* linktracker.go, for the tracker t *)

\* RecordLinkTraversal of the links in a set
RecordLinks(t, r, links, hasBlock) ==
  IF hasBlock
    THEN /\ linksTraversed' = [linksTraversed EXCEPT ![t][r] =
                                 [l \in Links |-> @[l] + (IF l \in links THEN 1 ELSE 0)]]
         /\ inProgress' = [inProgress EXCEPT ![t] =
                             [l \in Links |-> @[l] + (IF l \in links THEN 1 ELSE 0)]]
         /\ UNCHANGED missingBlocks
    ELSE /\ missingBlocks' = [missingBlocks EXCEPT ![t][r] = @ \union links]
         /\ UNCHANGED <<linksTraversed, inProgress>>

\* FinishRequest: the traversals that are left when those of r are taken away,
\* and whether r has visited no missing link.
StillTraversed(t, r, l) == inProgress[t][l] - linksTraversed[t][r][l]
HasAllBlocks(t, r) == missingBlocks[t][r] = {}

-----------------------------------------------------------------------------
(* peerlinktracker.go *)

\* getLinkTracker
GetLinkTracker(r) == dedupKeys[r]

\* DedupKey: the request is tracked with the others that have the key.
DedupKey(r, key) ==
  /\ dedupKeys' = [dedupKeys EXCEPT ![r] = key]
  /\ altTrackers' = altTrackers \union {key}

\* IgnoreBlocks: the links count as visited.
IgnoreBlocks(r, links) == RecordLinks(GetLinkTracker(r), r, links, TRUE)

SkipFirstBlocks(r, n) == skipFirstBlocks' = [skipFirstBlocks EXCEPT ![r] = n]

\* Mutants: the tracker of a key goes with the first of its requests, or never.
AloneAlways(r) == TRUE
AloneNever(r) == FALSE

\* FinishTracking: no other request has the key.
Alone(r) == \A q \in Requests \ {r} : dedupKeys[q] # dedupKeys[r]

\* Deleting the tracker of a key deletes what is in it.
Without(t, r) ==
  IF t # NoKey /\ Alone(r)
    THEN /\ altTrackers' = altTrackers \ {t}
         /\ missingBlocks' = [missingBlocks EXCEPT ![t] = [q \in Requests |-> {}]]
         /\ linksTraversed' = [linksTraversed EXCEPT ![t] =
                                 [q \in Requests |-> [l \in Links |-> 0]]]
         /\ inProgress' = [inProgress EXCEPT ![t] = [l \in Links |-> 0]]
    ELSE /\ missingBlocks' = [missingBlocks EXCEPT ![t][r] = {}]
         /\ linksTraversed' = [linksTraversed EXCEPT ![t][r] = [l \in Links |-> 0]]
         /\ inProgress' = [inProgress EXCEPT ![t] = [l \in Links |-> StillTraversed(t, r, l)]]
         /\ UNCHANGED altTrackers

\* FinishTracking
FinishTracking(r) ==
  /\ Without(GetLinkTracker(r), r)
  /\ dedupKeys' = [dedupKeys EXCEPT ![r] = NoKey]
  /\ blockSentCount' = [blockSentCount EXCEPT ![r] = 0]
  /\ skipFirstBlocks' = [skipFirstBlocks EXCEPT ![r] = 0]

-----------------------------------------------------------------------------
(* prepareQuery: the extensions of a new request, in this order.  Each may be
   missing; one that cannot be decoded fails the response. *)

\* processDedupByKey
ProcessDedupByKey(r) ==
  /\ phase[r] = "new"
  /\ Move(r, "keyed")
  /\ \/ \E key \in Keys : DedupKey(r, key)
     \/ UNCHANGED <<dedupKeys, altTrackers>>
  /\ UNCHANGED <<tracker, blockSentCount, skipFirstBlocks, work, claimed>>

\* processDoNoSendCids
ProcessDoNoSendCids(r) ==
  /\ phase[r] = "keyed"
  /\ Move(r, "listed")
  /\ \E links \in SUBSET Links :
       /\ IgnoreBlocks(r, links)
       /\ claimed' = claimed \union ({GetLinkTracker(r)} \X links)
  /\ UNCHANGED <<altTrackers, dedupKeys, blockSentCount, skipFirstBlocks, work>>

\* processDoNotSendFirstBlocks
ProcessDoNotSendFirstBlocks(r) ==
  /\ phase[r] = "listed"
  /\ Move(r, "running")
  /\ \E n \in 0..MaxSkip : SkipFirstBlocks(r, n)
  /\ UNCHANGED <<tracker, altTrackers, dedupKeys, blockSentCount, work, claimed>>

\* FinishWithError, by prepareQuery or at any time later, and ClearRequest.
FinishWithError(r) ==
  /\ phase[r] \in {"new", "keyed", "listed", "running"}
  /\ operation[r] = NoOperation(r)
  /\ Move(r, "finished")
  /\ status' = [status EXCEPT ![r] = "failed"]
  /\ FinishTracking(r)
  /\ UNCHANGED <<operation, messages, loads, claimed>>

-----------------------------------------------------------------------------
(* The executor of a response *)

\* Mutant: the first blocks are counted from zero.
NotSkippedOffByOne(r) == skipFirstBlocks[r] < blockSentCount[r]

\* RecordLinkTraversal: the link just visited is not among the first ones.
NotSkipped(r) == skipFirstBlocks[r] < blockSentCount[r] + 1

\* RecordLinkTraversal: no response in progress has visited the link.
IsUnique(t, l) == inProgress[t][l] = 0

\* setupBlockOperation with RecordLinkTraversal
SendResponse(r, l, hasBlock) ==
  LET t == GetLinkTracker(r)
  IN  /\ phase[r] = "running"
      /\ operation[r] = NoOperation(r)
      /\ SumFunction([q \in Requests |-> Len(loads[q])]) < MaxLoads
      /\ blockSentCount' = [blockSentCount EXCEPT ![r] = @ + 1]
      /\ RecordLinks(t, r, {l}, hasBlock)
      /\ operation' = [operation EXCEPT ![r] =
                         BlockOperation(r, t, l, hasBlock,
                                        hasBlock /\ NotSkipped(r) /\ IsUnique(t, l))]
      /\ loads' = [loads EXCEPT ![r] = Append(@, [link |-> l, hasBlock |-> hasBlock])]
      /\ claimed' = IF skipFirstBlocks[r] > Len(loads[r])
                      THEN claimed \union {<<t, l>>} ELSE claimed
      /\ UNCHANGED <<phase, altTrackers, dedupKeys, skipFirstBlocks, messages, status>>

\* blockOperation.build: what is said of the link, and the block if it is sent.
Put(m, op) ==
  [ops    |-> m.ops \union {op},
   blocks |-> m.blocks \union (IF op.sendBlock THEN {op.link} ELSE {})]

NewMessage == [ops |-> {}, blocks |-> {}]

\* execute: the operation joins the last message or begins another, as its size and
\* what is being sent have it; nothing is built when the stream is closed.
Build(r) ==
  LET op == operation[r]
  IN  /\ op # NoOperation(r)
      /\ operation' = [operation EXCEPT ![r] = NoOperation(r)]
      /\ \/ /\ r \notin closed
            /\ queue' = Append(queue, Put(NewMessage, op))
            /\ UNCHANGED lost
         \/ /\ r \notin closed
            /\ queue # <<>>
            /\ queue' = [queue EXCEPT ![Len(queue)] = Put(@, op)]
            /\ UNCHANGED lost
         \/ /\ r \in closed
            /\ lost' = lost \union (IF op.sendBlock THEN {<<op.tracker, op.link>>} ELSE {})
            /\ UNCHANGED queue
      /\ UNCHANGED <<phase, tracker, altTrackers, dedupKeys, blockSentCount, skipFirstBlocks,
                     sent, withheld, closed, loads, claimed, status>>

\* setupFinishOperation
FinishRequest(r) ==
  /\ phase[r] = "running"
  /\ operation[r] = NoOperation(r)
  /\ Move(r, "finished")
  /\ status' = [status EXCEPT ![r] =
                  IF HasAllBlocks(GetLinkTracker(r), r) THEN "full" ELSE "partial"]
  /\ FinishTracking(r)
  /\ UNCHANGED <<operation, messages, loads, claimed>>

-----------------------------------------------------------------------------
(* The peer's messages *)

\* The blocks a message has for the responses it is about, by their trackers.
Provides(m) ==
  {<<op.tracker, op.link>> : op \in {o \in m.ops : o.hasBlock /\ o.link \in m.blocks}}

\* The blocks that the responder has and that some operation does not send.
Withholds(ops) ==
  {<<op.tracker, op.link>> : op \in {o \in ops : o.hasBlock /\ ~o.sendBlock}}

Provided(q) == UNION {Provides(q[i]) : i \in DOMAIN q}

\* sendMessage, publishSent
MessageSent ==
  /\ queue # <<>>
  /\ sent' = sent \union Provides(Head(queue))
  /\ withheld' = withheld \union Withholds(Head(queue).ops)
  /\ queue' = Tail(queue)
  /\ UNCHANGED <<phase, tracker, altTrackers, dedupKeys, blockSentCount, skipFirstBlocks,
                 operation, closed, lost, loads, claimed, status>>

\* Builder.ScrubResponses: a block stays if a response that is left has the link.
Scrubbed(m, gone) ==
  LET kept == {op \in m.ops : op.request \notin gone}
  IN  [ops    |-> kept,
       blocks |-> {l \in m.blocks : \E op \in kept : op.hasBlock /\ op.link = l}]

\* The positions in S, in ascending order.
Ascending(n, S) ==
  {order \in Surjection(1..n, S) : \A j, k \in 1..n : j < k => order[j] < order[k]}

\* publishError with scrubResponseStreams: the streams of the responses in the
\* message are closed, they are taken out of the messages behind it, and those that
\* become empty are dropped.
MessageFailed ==
  /\ queue # <<>>
  /\ LET gone == {op.request : op \in Head(queue).ops}
         rest == [i \in DOMAIN Tail(queue) |-> Scrubbed(Tail(queue)[i], gone)]
         kept == {i \in DOMAIN rest : rest[i].ops # {}}
     IN  /\ closed' = closed \union gone
         /\ \E n \in 0..Len(queue) : \E order \in Ascending(n, kept) :
              queue' = [k \in 1..n |-> rest[order[k]]]
  /\ lost' = lost \union (Provided(queue) \ Provided(queue'))
  /\ UNCHANGED <<phase, tracker, altTrackers, dedupKeys, blockSentCount, skipFirstBlocks,
                 operation, sent, withheld, loads, claimed, status>>

-----------------------------------------------------------------------------
Next ==
  \/ \E r \in Requests :
       \/ ProcessDedupByKey(r)
       \/ ProcessDoNoSendCids(r)
       \/ ProcessDoNotSendFirstBlocks(r)
       \/ FinishWithError(r)
       \/ \E l \in Links, hasBlock \in BOOLEAN : SendResponse(r, l, hasBlock)
       \/ Build(r)
       \/ FinishRequest(r)
  \/ MessageSent
  \/ MessageFailed

Spec == Init /\ [][Next]_vars

-----------------------------------------------------------------------------
(* Properties *)

\* The visits of a link that a tracker has in its lists: the first, the second and
\* so on of each response.
Visits(t, l) == UNION {{r} \X (1..linksTraversed[t][r][l]) : r \in Requests}

\* A response in progress always finds its tracker, which no other response has
\* deleted or emptied: what it visited is still there.  A link counts as in progress
\* exactly as often as the responses have visited it with its block, in whatever
\* order they end, and one is reported complete if and only if it visited no missing
\* link.
TraversalsAreKept ==
  /\ \A r \in Requests :
       /\ dedupKeys[r] # NoKey => dedupKeys[r] \in altTrackers
       /\ phase[r] = "running"
            => \A i \in DOMAIN loads[r] :
                 loads[r][i].hasBlock => inProgress[dedupKeys[r]][loads[r][i].link] > 0
       /\ status[r] \in {"full", "partial"}
            => (status[r] = "full" <=> \A i \in DOMAIN loads[r] : loads[r][i].hasBlock)
  /\ \A t \in Trackers : \A l \in Links : inProgress[t][l] = Cardinality(Visits(t, l))

\* When no response is in progress nothing is tracked any more.
NothingIsLeft ==
  (\A r \in Requests : phase[r] \in {"new", "finished"})
    => /\ altTrackers = {}
       /\ \A r \in Requests : dedupKeys[r] = NoKey /\ skipFirstBlocks[r] = 0
       /\ \A t \in Trackers : /\ \A l \in Links : inProgress[t][l] = 0
                              /\ \A r \in Requests : missingBlocks[t][r] = {}

\* The operations that are recorded or in a message.
Recorded ==
  {operation[r] : r \in Requests} \union UNION {queue[i].ops : i \in DOMAIN queue}

\* The block of the link was sent, is in a message or about to be put into one, was
\* lost with the message or the stream of a response, or the peer said it has it:
\* in each case in a response with the same key.
Covered(t, l) ==
  \/ <<t, l>> \in sent
  \/ <<t, l>> \in Provided(queue)
  \/ \E r \in Requests : operation[r] = BlockOperation(r, t, l, TRUE, TRUE)
  \/ <<t, l>> \in lost
  \/ <<t, l>> \in claimed

\* When the peer is told that the responder has a block that is not sent, the block
\* was sent to it, is on its way or about to be, or the peer said it has it, in a
\* response with the same key; the only exception is a block lost when the message
\* of such a response failed or its stream was closed, which RecordLinkTraversal
\* goes on counting as sent as long as the link is tracked.  No combination of keys,
\* lists, skipped blocks and responses that end makes every response leave a block
\* to another.
WithheldIsSentOrClaimed ==
  \A b \in withheld \union Withholds(Recorded) : Covered(b[1], b[2])

=============================================================================
