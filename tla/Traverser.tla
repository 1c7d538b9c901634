------------------------------- MODULE Traverser -------------------------------
(***************************************************************************)
(* ipldutil/traverser.go: a selector traversal that stops at every block   *)
(* and waits to be given it.  The traversal runs in a goroutine of its own *)
(* (here the walker); its user is the executor of a request or of a        *)
(* response, one goroutine at a time.  The two hand the mutex stateMu to   *)
(* each other: Advance and Error lock it and the walker unlocks it when it *)
(* asks for its next block or is done.                                     *)
(*                                                                         *)
(* For the requestor the model also has what runs beside them: the visitor *)
(* that sends every node on inProgressChan and the request manager, which  *)
(* shuts the traversal down and closes that channel in terminateRequest    *)
(* when no executor runs the request.                                      *)
(*                                                                         *)
(* A traversal asks for at most MaxLinks blocks; which links they are does *)
(* not matter, so they are numbered in the order they are asked for.       *)
(***************************************************************************)
EXTENDS Naturals

CONSTANT MaxLinks

ASSUME MaxLinksAssumption == MaxLinks \in Nat

VARIABLES
  ctxDone,        \* the context of the traversal is cancelled
  parentDone,     \* ... because the context of the manager is
  stateMu,        \* the mutex is locked
  walker,         \* where the goroutine of the traversal is
  user,           \* where the executor is
  reply,          \* the executor's answer to the current link
  link,           \* the link the executor read with CurrentRequest
  currentLink,    \* the number of the link in currentLink
  isDone,         \* the traversal has ended ...
  completionErr,  \* ... with this error
  blocksCount,    \* the blocks the executor has counted
  taken,          \* the blocks the walker was given
  manager         \* where terminateRequest is

traverserVars == <<ctxDone, parentDone, stateMu, walker, user, reply, link, currentLink,
                   isDone, completionErr, blocksCount, taken, manager>>

context == <<ctxDone, parentDone>>
result  == <<isDone, completionErr>>

NoErr == "nil"

\* start: the mutex is locked before the goroutine is started.
TraverserInit ==
  /\ ctxDone = FALSE
  /\ parentDone = FALSE
  /\ stateMu = TRUE
  /\ walker = "walk"
  /\ user = "check"
  /\ reply = "block"
  /\ link = 0
  /\ currentLink = 0
  /\ isDone = FALSE
  /\ completionErr = NoErr
  /\ blocksCount = 0
  /\ taken = 0
  /\ manager = "idle"

-----------------------------------------------------------------------------
(* The walker *)

\* The budget of links is not used up.
MoreLinks == currentLink < MaxLinks

\* loader, up to its select: the walk needs a block, and lets the user look.
AskForBlock ==
  /\ walker = "walk"
  /\ MoreLinks
  /\ currentLink' = currentLink + 1
  /\ stateMu' = FALSE
  /\ walker' = "waiting"
  /\ UNCHANGED <<context, user, reply, link, result, blocksCount, taken, manager>>

\* The walk is over, or fails: a block cannot be decoded, the budget is used up,
\* the selector cannot be parsed or the walk panics.
WalkEnds ==
  /\ walker = "walk"
  /\ walker' = "done"
  /\ \E err \in {NoErr, "failed"} :
       /\ err = NoErr => currentLink > 0
       /\ completionErr' = err
  /\ UNCHANGED <<context, stateMu, user, reply, link, currentLink, isDone, blocksCount,
                 taken, manager>>

\* Mutant: the cancelled walk goes on to writeDone without the mutex.
RelockForgotten ==
  /\ walker' = "done"
  /\ completionErr' = "context"
  /\ UNCHANGED stateMu

\* The walk is cancelled while it waits for a block: it locks the mutex again.
Relock ==
  /\ ~stateMu
  /\ stateMu' = TRUE
  /\ walker' = "done"
  /\ completionErr' = "context"

\* Mutant: the loader only waits for an answer.
NeverSeesCancel == FALSE /\ UNCHANGED traverserVars

\* loader: the context is done.
SeeCancel ==
  /\ walker = "waiting"
  /\ ctxDone
  /\ walker' = "relock"
  /\ UNCHANGED <<context, stateMu, user, reply, link, currentLink, result, blocksCount,
                 taken, manager>>

LockAfterCancel ==
  /\ walker = "relock"
  /\ Relock
  /\ UNCHANGED <<context, user, reply, link, currentLink, isDone, blocksCount, taken, manager>>

\* The visitor: a node is sent on inProgressChan, or the context is done.
Visit ==
  /\ walker = "visit"
  /\ walker' = "walk"
  /\ UNCHANGED <<context, stateMu, user, reply, link, currentLink, result, blocksCount,
                 taken, manager>>

\* writeDone
WriteDone ==
  /\ walker = "done"
  /\ isDone' = TRUE
  /\ stateMu' = FALSE
  /\ walker' = "stopping"
  /\ UNCHANGED <<context, user, reply, link, currentLink, completionErr, blocksCount, taken,
                 manager>>

\* close(t.stopped)
CloseStopped ==
  /\ walker = "stopping"
  /\ walker' = "stopped"
  /\ UNCHANGED <<context, stateMu, user, reply, link, currentLink, result, blocksCount,
                 taken, manager>>

-----------------------------------------------------------------------------
(* The user *)

\* IsComplete
IsComplete ==
  /\ user = "check"
  /\ ~stateMu
  /\ user' = IF isDone THEN "finished" ELSE "current"
  /\ UNCHANGED <<context, stateMu, walker, reply, link, currentLink, result, blocksCount,
                 taken, manager>>

\* CurrentRequest; the executor then loads the link and decides what to answer.
CurrentRequest ==
  /\ user = "current"
  /\ ~stateMu
  /\ link' = currentLink
  /\ reply' \in {"block", "skip", "error"}
  /\ user' = "answer"
  /\ UNCHANGED <<context, stateMu, walker, currentLink, result, blocksCount, taken, manager>>

\* A failed Advance ends the executor's loop; Error returns nothing.
AfterFailure == IF reply = "block" THEN "finished" ELSE "check"

\* Advance and Error: the mutex is locked, and unlocked at once when the
\* traversal is done.
LockForAnswer ==
  /\ user = "answer"
  /\ ~stateMu
  /\ \/ isDone /\ user' = AfterFailure /\ UNCHANGED stateMu
     \/ ~isDone /\ user' = "sending" /\ stateMu' = TRUE
  /\ UNCHANGED <<context, walker, reply, link, currentLink, result, blocksCount, taken,
                 manager>>

\* Advance and Error: the context is done before the walker has the answer.
AnswerCancelled ==
  /\ user = "sending"
  /\ ctxDone
  /\ stateMu' = FALSE
  /\ user' = AfterFailure
  /\ UNCHANGED <<context, walker, reply, link, currentLink, result, blocksCount, taken,
                 manager>>

\* Mutant: the user unlocks the mutex that it has handed over.
UnlockAfterAnswer == stateMu' = FALSE

\* The walker unlocks the mutex when it asks for its next block.
KeepLocked == UNCHANGED stateMu

\* What the walk does with an answer: a block is visited; a skipped link that is
\* not the root is passed over; anything else ends the walk.
Given ==
  /\ walker' = CASE reply = "block" -> "visit"
                 [] reply = "skip" /\ currentLink > 1 -> "walk"
                 [] OTHER -> "done"
  /\ completionErr' = IF reply = "error" \/ (reply = "skip" /\ currentLink = 1)
                        THEN "failed" ELSE completionErr

\* The channel responses has no buffer: the user's send and the walker's receive
\* are one step.
Answer ==
  /\ user = "sending"
  /\ walker = "waiting"
  /\ Given
  /\ KeepLocked
  /\ taken' = IF reply = "block" THEN taken + 1 ELSE taken
  /\ user' = IF reply = "block" THEN "count" ELSE "check"
  /\ UNCHANGED <<context, reply, link, currentLink, isDone, blocksCount, manager>>

\* Mutant: the block is not counted.
CountForgotten ==
  /\ user = "count"
  /\ user' = "check"
  /\ UNCHANGED <<context, stateMu, walker, reply, link, currentLink, result, blocksCount,
                 taken, manager>>

\* Advance counts the block after it was given.
CountBlock ==
  /\ user = "count"
  /\ blocksCount' = blocksCount + 1
  /\ user' = "check"
  /\ UNCHANGED <<context, stateMu, walker, reply, link, currentLink, result, taken, manager>>

\* The request is paused between two blocks, and resumed by another task.
Pause ==
  /\ user = "check"
  /\ user' = "paused"
  /\ UNCHANGED <<context, stateMu, walker, reply, link, currentLink, result, blocksCount,
                 taken, manager>>

Resume ==
  /\ user = "paused"
  /\ manager = "idle"
  /\ user' = "check"
  /\ UNCHANGED <<context, stateMu, walker, reply, link, currentLink, result, blocksCount,
                 taken, manager>>

-----------------------------------------------------------------------------
(* The manager *)

\* The context above the one of the traversal is cancelled.
CancelParent ==
  /\ ~parentDone
  /\ parentDone' = TRUE
  /\ ctxDone' = TRUE
  /\ UNCHANGED <<stateMu, walker, user, reply, link, currentLink, result, blocksCount,
                 taken, manager>>

\* terminateRequest, up to Shutdown: the context of the traversal is cancelled.
Shutdown ==
  /\ manager = "idle"
  /\ user \in {"paused", "finished"}
  /\ manager' = "shutdown"
  /\ ctxDone' = TRUE
  /\ UNCHANGED <<parentDone, stateMu, walker, user, reply, link, currentLink, result,
                 blocksCount, taken>>

\* Mutant: Shutdown does not wait.
NoWait == TRUE

\* Shutdown waits for the walker, unless the manager itself ends.
ShutdownReturns == walker = "stopped" \/ parentDone

\* The rest of terminateRequest: inProgressChan is closed unless the manager ends.
CloseChannels ==
  /\ manager = "shutdown"
  /\ ShutdownReturns
  /\ manager' = IF parentDone THEN "abandoned" ELSE "closed"
  /\ UNCHANGED <<context, stateMu, walker, user, reply, link, currentLink, result,
                 blocksCount, taken>>

-----------------------------------------------------------------------------
Walker ==
  \/ AskForBlock
  \/ WalkEnds
  \/ SeeCancel
  \/ LockAfterCancel
  \/ Visit
  \/ WriteDone
  \/ CloseStopped

Executor ==
  \/ IsComplete
  \/ CurrentRequest
  \/ LockForAnswer
  \/ AnswerCancelled
  \/ Answer
  \/ CountBlock

Manager == Shutdown \/ CloseChannels

TraverserNext == Walker \/ Executor \/ Pause \/ Resume \/ CancelParent \/ Manager

TraverserSpec == TraverserInit /\ [][TraverserNext]_traverserVars

\* The goroutines keep running: a lock that is free again and again is obtained
\* (Go's mutexes do not starve a waiter), and a node sent on inProgressChan is
\* read (the collector reads until the channel is closed).  A request need not be
\* paused, resumed or cancelled.
TraverserFairness ==
  /\ WF_traverserVars(Walker)
  /\ SF_traverserVars(LockAfterCancel)
  /\ WF_traverserVars(Executor)
  /\ WF_traverserVars(CloseChannels)

FairTraverserSpec == TraverserSpec /\ TraverserFairness

-----------------------------------------------------------------------------
(* Properties *)

WalkerPlaces == {"walk", "waiting", "relock", "visit", "done", "stopping", "stopped"}

UserPlaces == {"check", "current", "answer", "sending", "count", "paused", "finished"}

\* The state of the traverser has its type; no more links than the budget allows
\* are asked for.
TraverserTypeOK ==
  /\ ctxDone \in BOOLEAN /\ parentDone \in BOOLEAN
  /\ stateMu \in BOOLEAN /\ isDone \in BOOLEAN
  /\ walker \in WalkerPlaces
  /\ user \in UserPlaces
  /\ reply \in {"block", "skip", "error"}
  /\ link \in 0..MaxLinks
  /\ currentLink \in 0..MaxLinks
  /\ completionErr \in {NoErr, "failed", "context"}
  /\ blocksCount \in 0..MaxLinks
  /\ taken \in 0..MaxLinks
  /\ manager \in {"idle", "shutdown", "closed", "abandoned"}

WalkerHolds == walker \in {"walk", "visit", "done"}
UserHolds   == user = "sending"

\* The mutex is handed over and never dropped: it is locked exactly while the
\* walker walks or the user sends an answer, and never by both, so no Unlock hits
\* an unlocked mutex (which would end the process) and nobody locks for ever.
MutexHandedOver ==
  /\ stateMu <=> WalkerHolds \/ UserHolds
  /\ ~(WalkerHolds /\ UserHolds)

\* A block is only given to the walk for the link that the walk is waiting for:
\* the state the user reads between two answers is not one the walk has left.
AnswerIsForCurrentLink ==
  user \in {"answer", "sending"} /\ ~isDone => link = currentLink

\* NBlocksTraversed, which becomes do-not-send-first-blocks when the request is
\* sent again, counts every block the walk was given, whenever the user can pause.
CountIsExact ==
  user # "count" => blocksCount = taken

\* terminateRequest closes inProgressChan only when the walk, whose visitor sends
\* on it, has stopped: there is no send on a closed channel.
ClosedAfterStopped ==
  manager = "closed" => walker = "stopped"

\* A cancelled traversal stops whatever its user does, so Shutdown returns and
\* terminateRequest does not block the manager; and no call of the user blocks for
\* ever, so an executor that is not paused gets to the end of the traversal.
NobodyBlocks ==
  /\ ctxDone ~> walker = "stopped"
  /\ user \notin {"paused", "finished"} ~> user \in {"paused", "finished"}

=============================================================================
