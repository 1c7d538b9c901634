--------------------------- MODULE ReconciledLoader ---------------------------
(***************************************************************************)
(* The reconciled loader (requestmanager/reconciledloader): it answers the *)
(* loads of a local traversal from the items a peer reports of its own     *)
(* traversal of the same DAG, and from the local store.  The items and the *)
(* loads are matched by their order alone, so the model has a real DAG:    *)
(* Tree is the set of paths that have a link, LinkAt the link at a path.   *)
(* Paths are compared segment by segment, which is the order of a          *)
(* traversal.                                                              *)
(*                                                                         *)
(* Around the loader the model has the executor that drives it             *)
(* (executor.go, traverse), which goes online at the first missing block   *)
(* and may be paused and resumed, and an honest peer, which reports every  *)
(* link it traverses and sends each block once, except for the first ones  *)
(* it is asked not to send.  The peer has the root: a peer without it      *)
(* fails the request.                                                      *)
(*                                                                         *)
(* A scenario says which blocks each side has and how often the request is *)
(* paused.  A message holds at most MaxBatch items.  An answer to the      *)
(* request as it was sent before a pause is not on its way any more when   *)
(* the request is sent again.                                              *)
(***************************************************************************)
EXTENDS Integers, Sequences, FiniteSets, SequencesExt

CONSTANTS Tree, LinkAt, Scenarios, MaxBatch,
          Done, NoVerifier, NoItem  \* the end of a traversal, and nil pointers

Root == <<>>

Links == {LinkAt[p] : p \in Tree}

ASSUME TreeAssumption ==
  /\ Root \in Tree
  /\ MaxBatch \in Nat \ {0}
  /\ \A s \in Scenarios : s.local \subseteq Links /\ s.remote \subseteq Links
                          /\ s.pauses \in Nat /\ LinkAt[Root] \in s.remote

VARIABLES
  scenario,     \* which blocks each side has at the start
  pauses,       \* how often the request has been paused
  store,        \* the local store
  at,           \* the path the local traversal is at, or Done
  results,      \* what each load of the traversal returned
  exec,         \* where the executor is, and its variable requestSent
  attempt,      \* mostRecentLoadAttempt
  record,       \* the traversal record
  unfollowed,   \* lastUnfollowedRemotePath; the root stands for none
  open,         \* the request is online
  verifier,     \* the path the verifier is at, Done, or NoVerifier
  queue,        \* the items that can be reached from the head of the remote queue
  consumed,     \* lastConsumed
  linked,       \* the rest of the queue can be reached from lastConsumed
  detached,     \* the tail of the queue cannot be reached from its head
  remote,       \* the peer: where it is, and what it has sent
  wire          \* the messages on their way from the peer

vars == <<scenario, pauses, store, at, results, exec, attempt, record, unfollowed, open,
          verifier, queue, consumed, linked, detached, remote, wire>>

remoteQueue == <<queue, consumed, linked, detached>>
walk == <<at, results, pauses>>

NoAttempt == [path |-> Done, outcome |-> "none", usedRemote |-> FALSE]

Init ==
  /\ scenario \in Scenarios
  /\ pauses = 0
  /\ store = scenario.local
  /\ at = Root
  /\ results = [p \in Tree |-> "none"]
  /\ exec = [pc |-> "load", requestSent |-> FALSE]
  /\ attempt = NoAttempt
  /\ record = [p \in Tree |-> "none"]
  /\ unfollowed = Root
  /\ open = FALSE
  /\ verifier = NoVerifier
  /\ queue = <<>>
  /\ consumed = NoItem
  /\ linked = FALSE
  /\ detached = FALSE
  /\ remote = [at |-> Done, skip |-> 0, index |-> 0, sent |-> {}]
  /\ wire = <<>>

-----------------------------------------------------------------------------
(* Traversals *)

\* p is visited before q.
Before(p, q) ==
  \/ IsStrictPrefix(p, q)
  \/ \E i \in DOMAIN p \cap DOMAIN q :
       p[i] < q[i] /\ \A j \in 1..(i - 1) : p[j] = q[j]

\* The first path of a set of paths.
FirstOf(paths) ==
  IF paths = {} THEN Done
                ELSE CHOOSE p \in paths : \A q \in paths : p = q \/ Before(p, q)

\* Verifier.nextLink, and the step of a traversal: the path after p, which is
\* below p only if the link at p was followed.
NextPath(paths, p, followed) ==
  FirstOf({q \in paths : Before(p, q) /\ (followed \/ ~IsPrefix(p, q))})

NBlocksTraversed == Cardinality({p \in Tree : results[p] = "loaded"})

-----------------------------------------------------------------------------
(* remotequeue.go, as a linked list seen from its head *)

\* consume: the block is dropped, the item kept for a retry.
Consume ==
  /\ consumed' = [Head(queue) EXCEPT !.block = FALSE]
  /\ queue' = Tail(queue)
  /\ linked' = (Len(queue) > 1)
  /\ detached' = (detached /\ Len(queue) > 1)

\* queue: an item queued behind a tail that is out of reach is lost.
Enqueue(items) ==
  /\ queue' = IF detached THEN queue ELSE queue \o items
  /\ UNCHANGED <<consumed, linked, detached>>

\* retryLast: the item is put back in front of what follows it.
RetryLast ==
  IF consumed = NoItem
    THEN UNCHANGED remoteQueue
    ELSE /\ queue' = IF linked THEN <<consumed>> \o queue ELSE <<consumed>>
         /\ detached' = (detached \/ (~linked /\ queue # <<>>))
         /\ UNCHANGED <<consumed, linked>>

-----------------------------------------------------------------------------
(* pathtracker.go *)

\* stillOnUnfollowedRemotePath; when it does not hold the path is forgotten.
StillOnUnfollowedRemotePath(path) ==
  Len(unfollowed) > 0 /\ Len(path) > Len(unfollowed)

\* recordRemoteLoadAttempt
RecordRemoteLoadAttempt(path, item, before) ==
  IF item.followed THEN before ELSE path

-----------------------------------------------------------------------------
(* reconciledloader.go and load.go *)

Recorded == {p \in Tree : record[p] # "none"}

\* Mutant: what was loaded before is not verified.
NothingToVerify == Done

\* NewVerifier and Done: it starts at the first link of the record.
NewVerifier == FirstOf(Recorded)

\* SetRemoteOnline
SetRemoteOnline(online) ==
  /\ open' = online
  /\ verifier' = IF online /\ ~open THEN NewVerifier ELSE verifier

\* BlockReadOpener, up to waitRemote: the last load is not going to be retried.
BlockReadOpener ==
  /\ exec.pc = "load"
  /\ at # Done
  /\ record' = IF attempt = NoAttempt THEN record
                 ELSE [record EXCEPT ![attempt.path] = attempt.outcome]
  /\ attempt' = NoAttempt
  /\ exec' = [exec EXCEPT !.pc = "wait"]
  /\ UNCHANGED <<scenario, walk, store, unfollowed, open, verifier, remoteQueue, remote, wire>>

\* The end of BlockReadOpener, and traverse: the first missing block of a task
\* makes the executor ask the peer.
Loaded(outcome, usedRemote) ==
  /\ attempt' = [path |-> at, outcome |-> outcome, usedRemote |-> usedRemote]
  /\ exec' = [exec EXCEPT !.pc = IF outcome = "missing" /\ ~exec.requestSent
                                   THEN "online" ELSE "advance"]

\* loadLocal
LoadLocal(usedRemote) ==
  Loaded(IF LinkAt[at] \in store THEN "loaded" ELSE "missing", usedRemote)

Verifying == verifier \notin {NoVerifier, Done}

\* VerifyNext: the item is the one for the link that was visited, and a link
\* that could not be followed then is not followed now.
Verified(item) ==
  /\ item.link = LinkAt[verifier]
  /\ item.followed => record[verifier] = "loaded"

\* waitRemote, while the peer reports links that were visited before.
VerifyNext ==
  /\ exec.pc = "wait"
  /\ queue # <<>>
  /\ Verifying
  /\ Consume
  /\ LET item == Head(queue)
     IN  IF Verified(item)
           THEN /\ verifier' = NextPath(Recorded, verifier, item.followed)
                /\ unfollowed' = RecordRemoteLoadAttempt(verifier, item, unfollowed)
                /\ UNCHANGED <<exec, attempt>>
           ELSE /\ Loaded("incorrect", FALSE)
                /\ UNCHANGED <<verifier, unfollowed>>
  /\ UNCHANGED <<scenario, walk, store, record, open, remote, wire>>

\* loadRemote: the item is for this link, or the peer is at fault; a block that
\* came with it is saved, and otherwise the local store has to have it.
LoadRemote(item) ==
  IF item.link # LinkAt[at]
    THEN /\ Loaded("incorrect", TRUE)
         /\ unfollowed' = Root
         /\ UNCHANGED store
    ELSE /\ unfollowed' = RecordRemoteLoadAttempt(at, item, Root)
         /\ \/ /\ item.block
               /\ store' = store \union {item.link}
               /\ Loaded("loaded", TRUE)
            \/ /\ ~item.block
               /\ LoadLocal(TRUE)
               /\ UNCHANGED store

\* blockReadOpener with remote data
LoadOnline ==
  /\ exec.pc = "wait"
  /\ queue # <<>>
  /\ ~Verifying
  /\ verifier' = NoVerifier
  /\ \/ /\ ~StillOnUnfollowedRemotePath(at)
        /\ Consume
        /\ LoadRemote(Head(queue))
     \/ /\ StillOnUnfollowedRemotePath(at)
        /\ LoadLocal(TRUE)
        /\ UNCHANGED <<store, unfollowed, remoteQueue>>
  /\ UNCHANGED <<scenario, walk, record, open, remote, wire>>

\* blockReadOpener without: there is no item and the request is offline.
LoadOffline ==
  /\ exec.pc = "wait"
  /\ queue = <<>>
  /\ ~open
  /\ LoadLocal(FALSE)
  /\ UNCHANGED <<scenario, walk, store, record, unfollowed, open, verifier, remoteQueue, remote,
                 wire>>

\* RetryLastLoad: the load goes on at waitRemote, and is not recorded.
RetryLastLoad ==
  /\ exec.pc = "retry"
  /\ exec' = [exec EXCEPT !.pc = "wait"]
  /\ attempt' = NoAttempt
  /\ IF attempt.usedRemote THEN RetryLast ELSE UNCHANGED remoteQueue
  /\ UNCHANGED <<scenario, walk, store, record, unfollowed, open, verifier, remote, wire>>

-----------------------------------------------------------------------------
(* The executor *)

\* SetRemoteOnline(true), in traverse
GoOnline ==
  /\ exec.pc = "online"
  /\ wire = <<>>
  /\ SetRemoteOnline(TRUE)
  /\ exec' = [pc |-> "request", requestSent |-> TRUE]
  /\ UNCHANGED <<scenario, walk, store, attempt, record, unfollowed, remoteQueue, remote, wire>>

\* Mutant: the peer is asked not to send one block too many.
SkipOneMore == NBlocksTraversed + 1

\* The blocks the peer is asked not to send.
DoNotSendFirstBlocks == NBlocksTraversed

\* startRemoteRequest: the peer traverses the DAG from its root.
StartRemoteRequest ==
  /\ exec.pc = "request"
  /\ remote' = [at |-> Root, skip |-> DoNotSendFirstBlocks, index |-> 0, sent |-> {}]
  /\ exec' = [exec EXCEPT !.pc = "retry"]
  /\ UNCHANGED <<scenario, walk, store, attempt, record, unfollowed, open, verifier,
                 remoteQueue, wire>>

\* advanceTraversal: a missing link is skipped, an incorrect answer ends the
\* traversal.
AdvanceTraversal ==
  /\ exec.pc = "advance"
  /\ results' = [results EXCEPT ![at] = attempt.outcome]
  /\ at' = IF attempt.outcome = "incorrect" THEN Done
             ELSE NextPath(Tree, at, attempt.outcome = "loaded")
  /\ exec' = [exec EXCEPT !.pc = "load"]
  /\ UNCHANGED <<scenario, pauses, store, attempt, record, unfollowed, open, verifier,
                 remoteQueue, remote, wire>>

\* The request is paused: the peer is cancelled, the loader goes offline.
Pause ==
  /\ exec.pc = "load"
  /\ at # Done
  /\ pauses < scenario.pauses
  /\ pauses' = pauses + 1
  /\ SetRemoteOnline(FALSE)
  /\ remote' = [remote EXCEPT !.at = Done]
  /\ exec' = [exec EXCEPT !.pc = "paused"]
  /\ UNCHANGED <<scenario, store, at, results, attempt, record, unfollowed, remoteQueue, wire>>

\* A new task for the request
Resume ==
  /\ exec.pc = "paused"
  /\ exec' = [pc |-> "load", requestSent |-> FALSE]
  /\ UNCHANGED <<scenario, walk, store, attempt, record, unfollowed, open, verifier,
                 remoteQueue, remote, wire>>

-----------------------------------------------------------------------------
(* The peer and the network *)

\* RecordLinkTraversal of the peer: a block is sent once, and not among the first.
RemoteItem ==
  LET link == LinkAt[remote.at]
      has  == link \in scenario.remote
  IN  [link |-> link, followed |-> has,
       block |-> has /\ remote.skip < remote.index + 1 /\ link \notin remote.sent]

\* An item joins the message that is being built, or begins the next one.
Send(item, final) ==
  \/ wire' = Append(wire, [items |-> item, final |-> final])
  \/ /\ wire # <<>>
     /\ ~Last(wire).final
     /\ Len(Last(wire).items \o item) <= MaxBatch
     /\ wire' = Append(Front(wire), [items |-> Last(wire).items \o item, final |-> final])

\* The peer visits a link; after the last one it sends its final status.
RemoteStep ==
  /\ remote.at # Done
  /\ LET item == RemoteItem
         next == NextPath(Tree, remote.at, item.followed)
     IN  /\ remote' = [remote EXCEPT !.at = next, !.index = @ + 1,
                                     !.sent = IF item.followed THEN @ \union {item.link} ELSE @]
         /\ Send(<<item>>, next = Done)
  /\ UNCHANGED <<scenario, walk, store, exec, attempt, record, unfollowed, open, verifier,
                 remoteQueue>>

\* A block of a message belongs to the first item for its link.
BlockOf(items, i) ==
  /\ items[i].followed
  /\ \E j \in DOMAIN items : items[j].link = items[i].link /\ items[j].block
  /\ \A j \in 1..(i - 1) : items[j].link # items[i].link \/ ~items[j].followed

\* IngestResponse: a request that is offline takes nothing.
IngestResponse(items) ==
  IF open
    THEN Enqueue([i \in DOMAIN items |-> [items[i] EXCEPT !.block = BlockOf(items, i)]])
    ELSE UNCHANGED remoteQueue

\* Mutant: the final status does not end the request.
IgnoreFinal(message) == UNCHANGED <<open, verifier>>

\* processTerminations
ProcessTerminations(message) ==
  IF message.final THEN SetRemoteOnline(FALSE) ELSE UNCHANGED <<open, verifier>>

\* processResponses
ProcessResponses ==
  /\ wire # <<>>
  /\ wire' = Tail(wire)
  /\ IngestResponse(Head(wire).items)
  /\ ProcessTerminations(Head(wire))
  /\ UNCHANGED <<scenario, walk, store, exec, attempt, record, unfollowed, remote>>

-----------------------------------------------------------------------------
Executor ==
  \/ BlockReadOpener
  \/ VerifyNext
  \/ LoadOnline
  \/ LoadOffline
  \/ RetryLastLoad
  \/ GoOnline
  \/ StartRemoteRequest
  \/ AdvanceTraversal

Peer == RemoteStep \/ ProcessResponses

Next == Executor \/ Pause \/ Resume \/ Peer

\* The executor and the peer keep running; a paused request need not be resumed.
FairSpec == Init /\ [][Next]_vars /\ WF_vars(Executor) /\ WF_vars(Peer)

-----------------------------------------------------------------------------
(* Properties *)

\* What a pause needs: the peer has every block.  The load that used the last item of
\* an answer is retried when the request is resumed (retryLast), and where the peer
\* reported a missing link the retried item no longer fits.
PausesAreSafe == pauses > 0 => scenario.remote = Links

\* An honest peer is not blamed, whatever the two stores hold, unless the request was
\* paused and the peer lacks a block: the loader keeps its place in the peer's
\* traversal through missing links, duplicates and batches, and through pauses when
\* the peer has everything, so that every item is compared with the load it was sent
\* for.
HonestPeerIsNotBlamed ==
  PausesAreSafe => \A p \in Tree : results[p] # "incorrect"

\* The reference: the peer gets to a path when it has all the blocks above it ...
RemoteReaches(p) ==
  \A q \in Tree : IsPrefix(q, p) => LinkAt[q] \in scenario.remote

\* ... and the block at a path is there when it was there at the start, or the
\* peer reaches it, here or at an earlier path.
Available(p) ==
  \/ LinkAt[p] \in scenario.local
  \/ \E q \in Tree : /\ q = p \/ Before(q, p)
                     /\ LinkAt[q] = LinkAt[p]
                     /\ RemoteReaches(q)

Expected(p) ==
  LET above == {q \in Tree : IsStrictPrefix(q, p)}
  IN  IF \E q \in above : ~Available(q) THEN "none"
      ELSE IF Available(p) THEN "loaded" ELSE "missing"

\* The peer has every block that the traversal loads before it first misses one, so
\* that it counts the same blocks as the executor, which asks it to leave out as many
\* as were loaded (do-not-send-first-blocks).
PeerHasFirstLoads ==
  \A p \in Tree :
    (\A q \in Tree : q = p \/ Before(q, p) => LinkAt[q] \in scenario.local)
      => LinkAt[p] \in scenario.remote

\* When the traversal is over, its loads have returned exactly what the two
\* sides together have: nothing the peer holds and reaches is reported missing,
\* however the answers were split and timed.  It takes a peer that has the blocks
\* loaded before the request was sent, and all of them if there was a pause; whatever
\* else the two stores hold or lack does not matter.
ResultIsWhatBothHave ==
  at = Done /\ PeerHasFirstLoads /\ PausesAreSafe
    => \A p \in Tree : results[p] = Expected(p)

\* No load waits for ever: each traversal ends or is paused.
TraversalEnds == exec.pc # "paused" ~> at = Done \/ exec.pc = "paused"

=============================================================================
