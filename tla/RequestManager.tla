---------------------------- MODULE RequestManager ----------------------------
(***************************************************************************)
(* The requestor: the request manager (requestmanager/server.go and        *)
(* client.go), the executor that runs its tasks (executor/executor.go),    *)
(* the task queue between them, and what the executor sees of the          *)
(* reconciled loader: a queue of remote items and whether the remote is    *)
(* online.                                                                 *)
(*                                                                         *)
(* The manager is one goroutine: each handler is one action.  A worker     *)
(* that executes a task runs beside it and synchronises through            *)
(* GetRequestTask and ReleaseRequestTask, the pauseMessages channel of     *)
(* capacity 1, the request's context and the loader.  The caller reads the *)
(* error channel until it is closed (responsecollector.go), so a send on   *)
(* it never blocks for ever.                                               *)
(*                                                                         *)
(* A traversal is a number of links; what loading one returns is chosen    *)
(* freely.  The hooks are the user's (module Hooks).                       *)
(* The peer may answer anything at any time once it has been asked; an     *)
(* answer may have been on its way since before a cancel.  Each request ID *)
(* is requested once.  Update messages do not touch a request and are left *)
(* out.  MaxLinks bounds the traversal, MaxItems the remote queue,         *)
(* MaxCalls the calls the user makes, MaxAnswers the answers other than    *)
(* the one that ends a remote request, Workers the tasks executed at once. *)
(* The module implements Lifecycle.                                        *)
(***************************************************************************)
EXTENDS Hooks

CONSTANTS Requests, MaxLinks, MaxItems, MaxCalls, MaxAnswers, Workers

ASSUME BoundsAssumption == {MaxLinks, MaxItems, MaxCalls, MaxAnswers, Workers} \subseteq Nat

VARIABLES
  shutdown,       \* rm.ctx is done
  state,          \* the state in inProgressRequestStatuses; "new" before, "terminated" after
  ctxDone,        \* the requests whose context is cancelled
  terminalError,  \* the error that terminateRequest will report
  pauseMessages,  \* the requests whose pauseMessages channel is full
  callerDone,     \* the requests whose caller's context is done
  canceller,      \* the CancelRequest call: "none", "waiting" in onTerminated, or "answered"
  pending,        \* the requests that have a task waiting in the task queue
  exec,           \* where the worker of an active task is, and its local variables
  linksLeft,      \* what the traversal has not visited
  broken,         \* the requests whose traversal was given an error
  loader,         \* the reconciled loader: whether it exists, is open, and its remote queue
  remote,         \* the peer: "unasked", "serving" a request, or "over"
  told,           \* the errors sent on inProgressErr
  calls,          \* how many calls the user has made
  answers         \* how many answers have been counted

vars == <<shutdown, state, ctxDone, terminalError, pauseMessages, callerDone, canceller,
          pending, exec, linksLeft, broken, loader, remote, told, calls, answers>>

status == <<state, ctxDone, terminalError, canceller, told>>
walk   == <<linksLeft, broken>>
inputs == <<callerDone, calls, answers>>

Idle == [at |-> "idle", requestSent |-> FALSE, usedRemote |-> FALSE, err |-> NoErr]

Init ==
  /\ shutdown = FALSE
  /\ state = [r \in Requests |-> "new"]
  /\ ctxDone = {}
  /\ terminalError = [r \in Requests |-> NoErr]
  /\ pauseMessages = {}
  /\ callerDone = {}
  /\ canceller = [r \in Requests |-> "none"]
  /\ pending = {}
  /\ exec = [r \in Requests |-> Idle]
  /\ linksLeft = [r \in Requests |-> MaxLinks]
  /\ broken = {}
  /\ loader = [r \in Requests |-> [exists |-> FALSE, open |-> FALSE, items |-> 0]]
  /\ remote = [r \in Requests |-> "unasked"]
  /\ told = [r \in Requests |-> {}]
  /\ calls = 0
  /\ answers = 0

-----------------------------------------------------------------------------
(* Helpers *)

InProgress(r) == state[r] \in {"Queued", "Running", "Paused"}

Active(r) == exec[r].at # "idle"

Call == ~shutdown /\ calls < MaxCalls /\ calls' = calls + 1 /\ UNCHANGED answers

SetState(r, s) == state' = [state EXCEPT ![r] = s]

Tell(r, err) == told' = [told EXCEPT ![r] = @ \union {err}]

\* requestQueue.PushTask
PushTask(r) == pending' = pending \union {r}

\* SendRequest with a Cancel: the peer serves the request no longer.
SendCancel(r) ==
  remote' = [remote EXCEPT ![r] = IF @ = "serving" THEN "over" ELSE @]

\* SetRemoteOnline
SetRemoteOnline(r, online) == loader' = [loader EXCEPT ![r].open = online]

\* Mutant: the callers of CancelRequest are forgotten.
StillWaiting(waiter) == waiter

\* The end of terminateRequest answers the callers in onTerminated.
Answered(waiter) == IF waiter = "waiting" THEN "answered" ELSE waiter

\* terminateRequest: the terminal error is reported, the context cancelled, the
\* loader cleaned up, both channels closed and the callers of CancelRequest told.
TerminateRequest(r, err) ==
  /\ SetState(r, "terminated")
  /\ IF err = NoErr THEN UNCHANGED told ELSE Tell(r, err)
  /\ ctxDone' = ctxDone \union {r}
  /\ loader' = [loader EXCEPT ![r].items = 0]

\* Mutants: the error is only kept for a request that ends here; a request ends
\* here although a worker runs it.
KeepErrorIfStopped(r, err) ==
  IF terminalError[r] = NoErr /\ state[r] # "Running" THEN err ELSE terminalError[r]
EndsAlways(r) == TRUE

\* The first terminal error is the one that is kept.
KeptError(r, err) == IF terminalError[r] = NoErr THEN err ELSE terminalError[r]

\* cancelOnError ends a request that no worker runs; a running one ends when its
\* worker notices.
EndsHere(r) == state[r] # "Running"

\* cancelOnError; waiter is the state of the CancelRequest call and items what the
\* loader's queue holds.
CancelOnError(r, err, waiter, items) ==
  /\ terminalError' = [terminalError EXCEPT ![r] = KeptError(r, err)]
  /\ \/ /\ EndsHere(r)
        /\ TerminateRequest(r, KeptError(r, err))
        /\ canceller' = [canceller EXCEPT ![r] = Answered(waiter)]
     \/ /\ ~EndsHere(r)
        /\ ctxDone' = ctxDone \union {r}
        /\ loader' = [loader EXCEPT ![r].open = FALSE, ![r].items = items]
        /\ canceller' = [canceller EXCEPT ![r] = waiter]
        /\ UNCHANGED <<state, told>>

-----------------------------------------------------------------------------
(* Handlers of the manager for the user's calls *)

\* newRequest: a request that is invalid or is told by a hook to use an option
\* that is not registered gets a single error, a valid one is queued.
NewRequest(r) ==
  /\ ~shutdown
  /\ state[r] = "new"
  /\ \E valid \in BOOLEAN, option \in OutgoingOutcomes :
       IF valid /\ option # "unregistered"
         THEN SetState(r, "Queued") /\ PushTask(r) /\ UNCHANGED told
         ELSE SetState(r, "terminated") /\ Tell(r, "invalid") /\ UNCHANGED pending
  /\ UNCHANGED <<shutdown, ctxDone, terminalError, pauseMessages, canceller, exec,
                 walk, loader, remote, inputs>>

\* cancelRequest for CancelRequest: the caller waits until the request has ended.
CancelRequest(r) ==
  /\ Call
  /\ InProgress(r)
  /\ SendCancel(r)
  /\ CancelOnError(r, "cancelled", "waiting", loader[r].items)
  /\ UNCHANGED <<shutdown, callerDone, pauseMessages, pending, exec, walk>>

\* cancelRequest for cancelRequestAndClose, when the context of the caller is
\* done: there is no terminal error and no one waits.
CancelRequestAndClose(r) ==
  /\ Call
  /\ InProgress(r)
  /\ SendCancel(r)
  /\ callerDone' = callerDone \union {r}
  /\ CancelOnError(r, NoErr, canceller[r], loader[r].items)
  /\ UNCHANGED <<shutdown, pauseMessages, pending, exec, walk>>

\* pause
PauseRequest(r) ==
  /\ Call
  /\ InProgress(r)
  /\ state[r] # "Paused"
  /\ pauseMessages' = pauseMessages \union {r}
  /\ UNCHANGED <<shutdown, status, callerDone, pending, exec, walk, loader, remote>>

\* unpause: the pause token, the context and the error stay as they are.
UnpauseRequest(r) ==
  /\ Call
  /\ state[r] = "Paused"
  /\ SetState(r, "Queued")
  /\ PushTask(r)
  /\ UNCHANGED <<shutdown, ctxDone, terminalError, canceller, told, callerDone, pauseMessages,
                 exec, walk, loader, remote>>

\* Shutdown: rm.ctx is done, and with it the context of every request.
Shutdown ==
  /\ ~shutdown
  /\ shutdown' = TRUE
  /\ ctxDone' = Requests
  /\ UNCHANGED <<state, terminalError, canceller, told, pauseMessages, pending, exec,
                 walk, loader, remote, inputs>>

-----------------------------------------------------------------------------
(* processResponses *)

\* The answer that ends a remote request is not counted; any other one is.
Answer(r, code) ==
  /\ ~shutdown
  /\ InProgress(r)
  /\ remote[r] # "unasked"
  /\ UNCHANGED <<callerDone, calls>>
  /\ \/ /\ remote[r] = "serving"
        /\ code # "partial"
        /\ remote' = [remote EXCEPT ![r] = "over"]
        /\ UNCHANGED answers
     \/ /\ answers < MaxAnswers
        /\ answers' = answers + 1
        /\ UNCHANGED remote

\* IngestResponse of a response with or without an item; a loader that is offline
\* refuses it.
Ingested(r) ==
  IF loader[r].exists /\ loader[r].open
    THEN {loader[r].items} \union ({loader[r].items + 1} \cap 0..MaxItems)
    ELSE {loader[r].items}

\* Mutant: a terminal response leaves the loader open.
StaysOnline(r, code) == loader[r].open

\* processTerminations takes the loader offline on a terminal response.
OnlineAfter(r, code) == loader[r].open /\ code = "partial"

\* A response that is not terminal, or that says the request is complete.
ProcessResponses(r, code) ==
  /\ code \in {"partial", "completed"}
  /\ Answer(r, code)
  /\ \E items \in Ingested(r) :
       loader' = [loader EXCEPT ![r].items = items,
                                ![r].open = OnlineAfter(r, code)]
  /\ UNCHANGED <<shutdown, status, pauseMessages, pending, exec, walk>>

\* A response that says the request has failed.
ProcessFailure(r) ==
  /\ Answer(r, "failed")
  /\ \E items \in Ingested(r) : CancelOnError(r, "failed", canceller[r], items)
  /\ UNCHANGED <<shutdown, pauseMessages, pending, exec, walk>>

\* A response whose hook returns an error: it is not ingested.
RejectResponse(r) ==
  /\ ~shutdown
  /\ InProgress(r)
  /\ remote[r] # "unasked"
  /\ answers < MaxAnswers
  /\ answers' = answers + 1
  /\ SendCancel(r)
  /\ CancelOnError(r, "hook", canceller[r], loader[r].items)
  /\ UNCHANGED <<shutdown, pauseMessages, pending, exec, walk, callerDone, calls>>

-----------------------------------------------------------------------------
(* A worker: WorkerTaskQueue.worker and Executor.ExecuteTask *)

At(r, at, err) == exec' = [exec EXCEPT ![r] = [@ EXCEPT !.at = at, !.err = err]]

\* PopTasks
PopTask(r) ==
  /\ ~shutdown
  /\ r \in pending
  /\ Cardinality({q \in Requests : Active(q)}) < Workers
  /\ pending' = pending \ {r}
  /\ At(r, "start", NoErr)
  /\ UNCHANGED <<shutdown, status, pauseMessages, walk, loader, remote, inputs>>

\* getRequestTask: the task of a request that has ended is Empty, and done.  The
\* first task of a request makes its traverser and its loader.
GetRequestTask(r) ==
  /\ ~shutdown
  /\ exec[r].at = "start"
  /\ \/ /\ InProgress(r)
        /\ SetState(r, "Running")
        /\ loader' = [loader EXCEPT ![r].exists = TRUE]
        /\ At(r, "traverse", NoErr)
     \/ /\ ~InProgress(r)
        /\ exec' = [exec EXCEPT ![r] = Idle]
        /\ UNCHANGED <<state, loader>>
  /\ UNCHANGED <<shutdown, ctxDone, terminalError, canceller, told, pauseMessages, pending,
                 walk, remote, inputs>>

\* Traverser.IsComplete: there is no link left, or the traversal has an error.
IsComplete(r) == linksLeft[r] = 0 \/ r \in broken

\* traverse: the traversal is complete, one of its nodes failed, or Shutdown has
\* cancelled its context (the context of the request does not).
TraverseReturns(r) ==
  /\ exec[r].at = "traverse"
  /\ \/ IsComplete(r) /\ r \notin broken /\ At(r, "returned", NoErr)
     \/ linksLeft[r] < MaxLinks /\ At(r, "returned", "failed")
     \/ shutdown /\ At(r, "returned", "context")
  /\ UNCHANGED <<shutdown, status, pauseMessages, pending, walk, loader, remote, inputs>>

\* BlockReadOpener: waitRemote blocks while the loader is open and its queue
\* empty.  A remote item may turn out not to be the next one; a block the peer
\* does not have, or that is asked for offline, is loaded locally or missing.
\* A missing block makes the executor go on at "missing".  After the peer was
\* asked again the verifier consumes the items for links already visited.
BlockReadOpener(r, missing) ==
  \/ /\ loader[r].items > 0
     /\ loader' = [loader EXCEPT ![r].items = @ - 1]
     /\ UNCHANGED exec
  \/ /\ loader[r].items > 0
     /\ loader' = [loader EXCEPT ![r].items = @ - 1]
     /\ \E err \in {NoErr, "missing", "incorrect"} :
          exec' = [exec EXCEPT ![r] =
                     [@ EXCEPT !.at = IF err = "missing" THEN missing ELSE "advance",
                               !.usedRemote = TRUE, !.err = err]]
  \/ /\ loader[r].items = 0
     /\ ~loader[r].open
     /\ \E err \in {NoErr, "missing"} :
          exec' = [exec EXCEPT ![r] =
                     [@ EXCEPT !.at = IF err = "missing" THEN missing ELSE "advance",
                               !.usedRemote = FALSE, !.err = err]]
     /\ UNCHANGED loader

\* A missing block makes the executor ask the peer, once for each task.
LoadLink(r) ==
  /\ exec[r].at = "traverse"
  /\ ~IsComplete(r)
  /\ BlockReadOpener(r, IF exec[r].requestSent THEN "advance" ELSE "open")
  /\ UNCHANGED <<shutdown, status, pauseMessages, pending, walk, remote, inputs>>

\* SetRemoteOnline(true), in traverse
GoOnline(r) ==
  /\ exec[r].at = "open"
  /\ SetRemoteOnline(r, TRUE)
  /\ exec' = [exec EXCEPT ![r] = [@ EXCEPT !.at = "request", !.requestSent = TRUE]]
  /\ UNCHANGED <<shutdown, status, pauseMessages, pending, walk, remote, inputs>>

\* startRemoteRequest
StartRemoteRequest(r) ==
  /\ exec[r].at = "request"
  /\ remote' = [remote EXCEPT ![r] = "serving"]
  /\ At(r, "retry", NoErr)
  /\ UNCHANGED <<shutdown, status, pauseMessages, pending, walk, loader, inputs>>

\* RetryLastLoad: an item that was consumed goes back to the queue, where it is
\* loaded or consumed by the verifier.
RetryLastLoad(r) ==
  /\ exec[r].at = "retry"
  /\ \/ /\ exec[r].usedRemote
        /\ \/ \E err \in {NoErr, "missing", "incorrect"} : At(r, "advance", err)
           \/ exec' = [exec EXCEPT ![r].usedRemote = FALSE]
        /\ UNCHANGED loader
     \/ ~exec[r].usedRemote /\ BlockReadOpener(r, "advance")
  /\ UNCHANGED <<shutdown, status, pauseMessages, pending, walk, remote, inputs>>

\* advanceTraversal looks at the context, but only after a failed load.
SeesContext(r) == r \in ctxDone

\* advanceTraversal: an error is sent to the caller unless the context is done;
\* a missing link is skipped, any other error ends the traversal.  After Shutdown
\* the traversal may refuse the block.
AdvanceTraversal(r) ==
  /\ exec[r].at = "advance"
  /\ \/ /\ exec[r].err = NoErr
        /\ linksLeft' = [linksLeft EXCEPT ![r] = @ - 1]
        /\ At(r, "result", NoErr)
        /\ UNCHANGED <<told, broken>>
     \/ /\ exec[r].err = NoErr
        /\ shutdown
        /\ \E err \in {"context", "failed"} : At(r, "returned", err)
        /\ UNCHANGED <<told, walk>>
     \/ /\ exec[r].err # NoErr
        /\ SeesContext(r)
        /\ At(r, "returned", "context")
        /\ UNCHANGED <<told, walk>>
     \/ /\ exec[r].err # NoErr
        /\ ~SeesContext(r)
        /\ Tell(r, exec[r].err)
        /\ linksLeft' = [linksLeft EXCEPT ![r] = @ - 1]
        /\ broken' = IF exec[r].err = "missing" THEN broken ELSE broken \union {r}
        /\ At(r, "result", exec[r].err)
  /\ UNCHANGED <<shutdown, state, ctxDone, terminalError, canceller, pauseMessages, pending,
                 loader, remote, inputs>>

\* processResult: the block hooks run for a block that was loaded, then a pause
\* token is taken; an error of the hooks wins over it.
ProcessResult(r) ==
  /\ exec[r].at = "result"
  /\ pauseMessages' = pauseMessages \ {r}
  /\ \E hookErr \in IF exec[r].err = NoErr THEN IncomingOutcomes ELSE {NoErr} :
       LET err == IF hookErr = NoErr /\ r \in pauseMessages THEN "paused" ELSE hookErr
       IN  At(r, IF err = NoErr THEN "traverse" ELSE "returned", err)
  /\ UNCHANGED <<shutdown, status, pending, walk, loader, remote, inputs>>

\* ExecuteTask after traverse: on an error other than a cancelled context the
\* peer is told and the loader taken offline.
LeaveRemote(r) ==
  /\ exec[r].at = "returned"
  /\ \/ /\ exec[r].err \in {NoErr, "context"}
        /\ At(r, "release", exec[r].err)
        /\ UNCHANGED <<remote, loader>>
     \/ /\ exec[r].err \notin {NoErr, "context"}
        /\ SendCancel(r)
        /\ SetRemoteOnline(r, FALSE)
        /\ At(r, IF exec[r].err = "paused" THEN "release" ELSE "report", exec[r].err)
  /\ UNCHANGED <<shutdown, status, pauseMessages, pending, walk, inputs>>

\* The error is sent to the caller, or the context is done.
ReportError(r) ==
  /\ exec[r].at = "report"
  /\ At(r, "release", exec[r].err)
  /\ Tell(r, exec[r].err) \/ (r \in ctxDone /\ UNCHANGED told)
  /\ UNCHANGED <<shutdown, state, ctxDone, terminalError, canceller, pauseMessages, pending,
                 walk, loader, remote, inputs>>

\* The result of the task says whether its request is only paused.
StaysPaused(r) == exec[r].err = "paused"

\* releaseRequestTask: a paused request stays, any other result ends it.
ReleaseRequestTask(r) ==
  /\ ~shutdown
  /\ exec[r].at = "release"
  /\ exec' = [exec EXCEPT ![r] = Idle]
  /\ IF ~InProgress(r)
       THEN UNCHANGED <<state, ctxDone, told, loader, canceller>>
       ELSE \/ /\ StaysPaused(r)
               /\ SetState(r, "Paused")
               /\ UNCHANGED <<ctxDone, told, loader, canceller>>
            \/ /\ ~StaysPaused(r)
               /\ TerminateRequest(r, terminalError[r])
               /\ canceller' = [canceller EXCEPT ![r] = Answered(@)]
  /\ UNCHANGED <<shutdown, terminalError, pauseMessages, pending, walk, remote, inputs>>

\* After Shutdown the manager does not answer: ExecuteTask and ReleaseRequestTask return.
AbandonTask(r) ==
  /\ shutdown
  /\ exec[r].at \in {"start", "release"}
  /\ exec' = [exec EXCEPT ![r] = Idle]
  /\ UNCHANGED <<shutdown, status, pauseMessages, pending, walk, loader, remote, inputs>>

Worker(r) ==
  \/ PopTask(r)
  \/ GetRequestTask(r)
  \/ TraverseReturns(r)
  \/ LoadLink(r)
  \/ GoOnline(r)
  \/ StartRemoteRequest(r)
  \/ RetryLastLoad(r)
  \/ AdvanceTraversal(r)
  \/ ProcessResult(r)
  \/ LeaveRemote(r)
  \/ ReportError(r)
  \/ ReleaseRequestTask(r)
  \/ AbandonTask(r)

-----------------------------------------------------------------------------
User(r) ==
  \/ NewRequest(r)
  \/ CancelRequest(r)
  \/ CancelRequestAndClose(r)
  \/ PauseRequest(r)
  \/ UnpauseRequest(r)

Peer(r) ==
  \/ \E code \in {"partial", "completed"} : ProcessResponses(r, code)
  \/ ProcessFailure(r)
  \/ RejectResponse(r)

Next ==
  \/ \E r \in Requests : User(r) \/ Peer(r) \/ Worker(r)
  \/ Shutdown

\* The workers keep running, and the manager handles what they send it.  Calls
\* and answers need not come.
Fairness == \A r \in Requests : WF_vars(Worker(r))

Spec == Init /\ [][Next]_vars

FairSpec == Spec /\ Fairness

\* A peer that was asked ends its response at some point, unless it is cancelled.
PeerAnswers ==
  \A r \in Requests :
    WF_vars(remote[r] = "serving"
              /\ (ProcessResponses(r, "completed") \/ ProcessFailure(r)))

AnsweredSpec == FairSpec /\ PeerAnswers

-----------------------------------------------------------------------------
(* Properties *)

\* The phase of the life cycle that a state stands for.
Phase(s) ==
  CASE s = "Queued"     -> "waiting"
    [] s = "Running"    -> "running"
    [] s = "Paused"     -> "paused"
    [] s = "terminated" -> "over"
    [] OTHER            -> "new"

\* Where a worker may be, and the errors it may carry.
Steps == {"idle", "start", "traverse", "open", "request", "retry", "advance", "result",
          "returned", "report", "release"}

TaskErrors == {NoErr, "missing", "incorrect", "failed", "paused", "context"}

Executions == [at : Steps, requestSent : BOOLEAN, usedRemote : BOOLEAN, err : TaskErrors]

Loaders == [exists : BOOLEAN, open : BOOLEAN, items : 0..MaxItems]

\* The state of the manager, its workers and the loaders has its type.
TypeOK ==
  /\ shutdown \in BOOLEAN
  /\ state \in [Requests -> {"new", "Queued", "Running", "Paused", "terminated"}]
  /\ {ctxDone, callerDone, pauseMessages, pending, broken} \subseteq SUBSET Requests
  /\ terminalError \in [Requests -> {NoErr, "cancelled", "failed", "hook"}]
  /\ canceller \in [Requests -> {"none", "waiting", "answered"}]
  /\ exec \in [Requests -> Executions]
  /\ linksLeft \in [Requests -> 0..MaxLinks]
  /\ loader \in [Requests -> Loaders]
  /\ remote \in [Requests -> {"unasked", "serving", "over"}]
  /\ told \in [Requests -> SUBSET {"invalid", "missing", "incorrect", "failed",
                                   "cancelled", "hook"}]
  /\ calls \in 0..MaxCalls
  /\ answers \in 0..MaxAnswers

\* The manager, the task queue and the worker agree about a request.
WorkerMatchesState(r) ==
  /\ ~shutdown => (state[r] = "Running" <=> exec[r].at \notin {"idle", "start"})
  /\ state[r] = "Queued" => r \in pending \/ exec[r].at = "start" \/ shutdown
  /\ state[r] = "Paused" => r \notin pending /\ ~Active(r)
  /\ ~(r \in pending /\ Active(r))

\* "It has control of requests when they are in the running state": while a worker
\* may still send on a request's channels, nobody closes them (a send on a closed
\* channel panics), and a request in the state Running has such a worker; a queued
\* request has a task that will run it and a paused one has none, so no request is
\* lost between the manager and the task queue, or run twice.
ExecutorOwnsRunning == \A r \in Requests : WorkerMatchesState(r)

\* A request that ended before its traversal did has told its caller, or was given
\* up by it.
EndIsExplained(r) ==
  state[r] = "terminated" /\ linksLeft[r] > 0 /\ told[r] = {} => r \in callerDone

\* The channels are never closed on a traversal that was cut short without an
\* error on the error channel, unless the caller's own context is done: whichever
\* of the worker and the manager sees a failure first, it is reported.
TruncationIsTold == \A r \in Requests : EndIsExplained(r)

Life == INSTANCE Lifecycle WITH
  Verdicts <- {"terminated"},
  phase    <- [r \in Requests |-> Phase(state[r])],
  reports  <- [r \in Requests |-> IF canceller[r] = "answered" THEN <<"terminated">> ELSE <<>>],
  halted   <- shutdown

\* The manager, its workers and the loaders together keep the promise of Lifecycle:
\* whatever calls, answers and hooks meet, a request runs only from the queue, never
\* comes back from its end, is reported to CancelRequest once and after it has
\* ended, and while peers answer it does not wait or run for ever.
ImplementsLifecycle == Life!Spec

\* A CancelRequest call does not wait on a request that has gone: whoever ends the
\* request, the manager or the release of its task, answers the call.  (A request
\* that was told to pause before it was cancelled becomes Paused, and the call waits
\* on.)
CancelReturnsOrPauses ==
  \A r \in Requests :
    canceller[r] = "waiting" ~> canceller[r] = "answered" \/ state[r] = "Paused" \/ shutdown

=============================================================================
