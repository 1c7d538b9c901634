--------------------------- MODULE ResponseManager ---------------------------
(***************************************************************************)
(* The responder: the response manager (responsemanager/server.go and      *)
(* client.go), the query executor that runs its tasks                      *)
(* (queryexecutor.go), the task queue between them, and the subscriber     *)
(* that turns the events of the message queue into calls of the manager.   *)
(*                                                                         *)
(* The manager is one goroutine: each handler is one action.  A worker     *)
(* that executes a task runs beside it and synchronises through StartTask, *)
(* GetUpdates and FinishTask and through three signal channels of          *)
(* capacity 1.  Messages go out batched: a message carries a prefix of     *)
(* what the response has queued; when it fails, the response stream is     *)
(* closed and the rest of the queue scrubbed without an event (module      *)
(* MessageQueue).                                                          *)
(*                                                                         *)
(* A response is a number of blocks; block contents, link tracking and     *)
(* back pressure are left out.  The hooks are the user's (module Hooks).   *)
(* Each request ID is requested once.  MaxBlocks bounds the traversal,     *)
(* MaxCommands the calls and messages that arrive for a response, Workers  *)
(* the tasks executed at once.  The module implements Lifecycle.           *)
(***************************************************************************)
EXTENDS Hooks

CONSTANTS Requests, MaxBlocks, MaxCommands, Workers

ASSUME BoundsAssumption ==
  /\ MaxBlocks \in Nat
  /\ MaxCommands \in Nat
  /\ Workers \in Nat

VARIABLES
  state,         \* inProgressResponses[r].state; "new" before, "terminated" after
  updates,       \* responses with updates that have not been read
  pauseSignal,   \* responses whose PauseSignal channel is full
  updateSignal,  \* responses whose UpdateSignal channel is full
  errSignal,     \* the content of the ErrSignal channel
  pending,       \* the responses that have a task waiting in the task queue
  exec,          \* where the worker of an active task is, its error so far, and
                 \* whether its transaction has collected extension data
  blocksLeft,    \* what the traversal has not visited
  closed,        \* the closed response streams
  outbox,        \* what the message queue holds for each response
  events,        \* the notification queue: events the subscribers will see
  subscriber,    \* the event whose handling is between two calls of the manager
  commands,      \* how many calls and messages each response has had
  listeners,     \* what the completed and cancelled listeners were told of each response
  networkErrors, \* the responses whose network error listeners were told
  refused        \* the responses that hooks have refused or terminated (a history)

vars == <<state, updates, pauseSignal, updateSignal, errSignal, pending, exec,
          blocksLeft, closed, outbox, events, subscriber, commands, listeners,
          networkErrors, refused>>

signals  == <<pauseSignal, updateSignal, errSignal, updates>>
delivery == <<events, subscriber, listeners, networkErrors>>

NoEvent == [name |-> "none"]
Idle    == [at |-> "idle", err |-> NoErr, extensions |-> FALSE]

Init ==
  /\ state = [r \in Requests |-> "new"]
  /\ updates = {}
  /\ pauseSignal = {}
  /\ updateSignal = {}
  /\ errSignal = [r \in Requests |-> NoErr]
  /\ pending = {}
  /\ exec = [r \in Requests |-> Idle]
  /\ blocksLeft \in [Requests -> 0..MaxBlocks]
  /\ closed = {}
  /\ outbox = [r \in Requests |-> <<>>]
  /\ events = <<>>
  /\ subscriber = NoEvent
  /\ commands = [r \in Requests |-> 0]
  /\ listeners = [r \in Requests |-> <<>>]
  /\ networkErrors = {}
  /\ refused = {}

-----------------------------------------------------------------------------
(* Helpers *)

InProgress(r) == state[r] \notin {"new", "terminated"}

Active(r) == exec[r].at # "idle"

Command(r) ==
  /\ commands[r] < MaxCommands
  /\ commands' = [commands EXCEPT ![r] = @ + 1]

SetState(r, s) == state' = [state EXCEPT ![r] = s]

\* responseStream.Transaction with some operations: "data" for a block, extension
\* data or the paused status, "completed" or "failed" for a terminal status,
\* "partial" for the PartialResponse status.  A closed stream drops them.
Transaction(r, ops) ==
  outbox' = IF r \in closed THEN outbox ELSE [outbox EXCEPT ![r] = @ \o ops]

\* Extension data, if there is any, and then the operations.
WithExtensions(extensions, ops) == IF extensions THEN <<"data">> \o ops ELSE ops

\* The hooks have spoken.
Refuse(r, isRefused) == refused' = IF isRefused THEN refused \union {r} ELSE refused

Notify(r, listener) == listeners' = [listeners EXCEPT ![r] = Append(@, listener)]

\* Mutant: the state is changed but the task is forgotten.
PushNoTask(r) == UNCHANGED pending

\* responseQueue.PushTask
PushTask(r) == pending' = pending \union {r}

-----------------------------------------------------------------------------
(* Handlers of the manager for what the network delivers *)

\* newRequest: the request hooks and prepareQuery reject the request, leave it
\* paused, or let it be queued.
NewRequest(r) ==
  /\ state[r] = "new"
  /\ \E outcome \in RequestOutcomes, decodes \in BOOLEAN :
       LET result == outcome.result
           query  == PrepareQuery(result, decodes)
       IN  /\ Transaction(r, query.ops)
           /\ Refuse(r, outcome.refused)
           /\ \/ query.err /\ SetState(r, "CompletingSend") /\ UNCHANGED pending
              \/ ~query.err /\ result.isPaused /\ SetState(r, "Paused") /\ UNCHANGED pending
              \/ ~query.err /\ ~result.isPaused /\ SetState(r, "Queued") /\ PushTask(r)
  /\ UNCHANGED <<signals, exec, blocksLeft, closed, delivery, commands>>

\* Mutant: a response that is completing is aborted again.
AbortableWhileCompleting(r) == InProgress(r)

\* abortRequest finds something to abort.
Abortable(r) == InProgress(r) /\ state[r] # "CompletingSend"

\* abortRequest, from a Cancel message ("cancel"), CancelResponse ("command") or
\* CloseWithNetworkError ("network").  A running response is told through
\* ErrSignal; any other is ended here.  The task is taken off the queue in
\* every case.
AbortRequest(r, err) ==
  /\ pending' = pending \ {r}
  /\ \/ /\ ~Abortable(r)
        /\ UNCHANGED <<state, errSignal, outbox, listeners>>
     \/ /\ Abortable(r)
        /\ state[r] = "Running"
        /\ errSignal' = [errSignal EXCEPT ![r] = IF @ = NoErr THEN err ELSE @]
        /\ UNCHANGED <<state, outbox, listeners>>
     \/ /\ Abortable(r)
        /\ state[r] # "Running"
        /\ \/ /\ err = "cancel"
              /\ SetState(r, "terminated")
              /\ Notify(r, "cancelled")
              /\ UNCHANGED outbox
           \/ /\ err = "network"
              /\ SetState(r, "terminated")
              /\ UNCHANGED <<outbox, listeners>>
           \/ /\ err = "command"
              /\ SetState(r, "CompletingSend")
              /\ Transaction(r, <<"failed">>)
              /\ UNCHANGED listeners
        /\ UNCHANGED errSignal

\* A Cancel message of the requestor.
ProcessCancel(r) ==
  /\ state[r] # "new"
  /\ Command(r)
  /\ AbortRequest(r, "cancel")
  /\ UNCHANGED <<updates, pauseSignal, updateSignal, exec, blocksLeft, closed,
                 events, subscriber, networkErrors, refused>>

\* processUpdate for a response that is not paused: the executor will read it.
ProcessUpdateLater(r) ==
  /\ state[r] \in {"Queued", "Running"}
  /\ Command(r)
  /\ updates' = updates \union {r}
  /\ updateSignal' = updateSignal \union {r}
  /\ UNCHANGED <<state, pauseSignal, errSignal, pending, exec, blocksLeft, closed,
                 outbox, delivery, refused>>

\* processUpdate for a paused response: the hooks run here, and may fail the
\* response or unpause it.
ProcessUpdatePaused(r) ==
  /\ state[r] = "Paused"
  /\ Command(r)
  /\ \E outcome \in UpdateOutcomes :
       LET result == outcome.result
       IN  /\ Refuse(r, outcome.refused)
           /\ Transaction(r, WithExtensions(result.extensions,
                                            IF result.err = NoErr THEN <<>> ELSE <<"failed">>))
           /\ \/ /\ result.err # NoErr
                 /\ SetState(r, "CompletingSend")
                 /\ UNCHANGED pending
              \/ /\ result.err = NoErr
                 /\ result.unpause
                 /\ SetState(r, "Queued")
                 /\ PushTask(r)
              \/ /\ result.err = NoErr
                 /\ ~result.unpause
                 /\ UNCHANGED <<state, pending>>
  /\ UNCHANGED <<signals, exec, blocksLeft, closed, delivery>>

-----------------------------------------------------------------------------
(* Handlers of the manager for the user's calls *)

\* pauseRequest
PauseResponse(r) ==
  /\ state[r] \in {"Queued", "Running"}
  /\ Command(r)
  /\ pauseSignal' = pauseSignal \union {r}
  /\ UNCHANGED <<state, updateSignal, errSignal, updates, pending, exec, blocksLeft,
                 closed, outbox, delivery, refused>>

\* unpauseRequest, with or without extension data.  The signals stay as they are.
UnpauseResponse(r) ==
  /\ state[r] = "Paused"
  /\ Command(r)
  /\ SetState(r, "Queued")
  /\ \E extensions \in BOOLEAN : Transaction(r, WithExtensions(extensions, <<>>))
  /\ PushTask(r)
  /\ UNCHANGED <<signals, exec, blocksLeft, closed, delivery, refused>>

CancelResponse(r) ==
  /\ InProgress(r)
  /\ Command(r)
  /\ AbortRequest(r, "command")
  /\ UNCHANGED <<updates, pauseSignal, updateSignal, exec, blocksLeft, closed,
                 events, subscriber, networkErrors, refused>>

\* updateRequest: allowed in every state.
UpdateResponse(r) ==
  /\ InProgress(r)
  /\ Command(r)
  /\ Transaction(r, <<"partial">>)
  /\ UNCHANGED <<state, signals, pending, exec, blocksLeft, closed, delivery, refused>>

-----------------------------------------------------------------------------
(* A worker: WorkerTaskQueue.worker and QueryExecutor.ExecuteTask *)

At(r, at, err) == exec' = [exec EXCEPT ![r] = [@ EXCEPT !.at = at, !.err = err]]

\* PopTasks
PopTask(r) ==
  /\ r \in pending
  /\ ~Active(r)
  /\ Cardinality({q \in Requests : Active(q)}) < Workers
  /\ pending' = pending \ {r}
  /\ At(r, "start", NoErr)
  /\ UNCHANGED <<state, signals, blocksLeft, closed, outbox, delivery, commands, refused>>

\* Mutant: a task is started whatever has happened to its response meanwhile.
StartableAlways(r) == InProgress(r)

\* taskDataForKey returns a task that is not Empty.
Startable(r) == InProgress(r) /\ state[r] # "CompletingSend"

\* startTask: an Empty task is done at once.
StartTask(r) ==
  /\ exec[r].at = "start"
  /\ \/ Startable(r) /\ SetState(r, "Running") /\ At(r, "traverse", NoErr)
     \/ ~Startable(r) /\ exec' = [exec EXCEPT ![r] = Idle] /\ UNCHANGED state
  /\ UNCHANGED <<signals, pending, blocksLeft, closed, outbox, delivery, commands, refused>>

\* Traverser.IsComplete
IsComplete(r) == blocksLeft[r] = 0

\* runTraversal: the traversal is complete, with or without an error, or the
\* next block is loaded (a link that cannot be loaded is reported as missing),
\* or reading it fails.
Traverse(r) ==
  /\ exec[r].at = "traverse"
  /\ \/ /\ IsComplete(r)
        /\ \E err \in {NoErr, "failed"} : At(r, "finish", err)
        /\ UNCHANGED blocksLeft
     \/ /\ ~IsComplete(r)
        /\ blocksLeft' = [blocksLeft EXCEPT ![r] = @ - 1]
        /\ \/ At(r, "check", NoErr)
           \/ At(r, "finish", "failed")
  /\ UNCHANGED <<state, signals, pending, closed, outbox, delivery, commands, refused>>

\* checkForUpdates: one turn of its select, which picks any signal that is
\* ready.  Any error but a pause ends the transaction before the block is sent;
\* the extension data collected so far still goes out.
CheckForUpdates(r) ==
  /\ exec[r].at = "check"
  /\ \/ /\ r \in pauseSignal
        /\ pauseSignal' = pauseSignal \ {r}
        /\ At(r, "send", "paused")
        /\ UNCHANGED <<errSignal, updateSignal, outbox>>
     \/ /\ errSignal[r] # NoErr
        /\ errSignal' = [errSignal EXCEPT ![r] = NoErr]
        /\ At(r, "finish", errSignal[r])
        /\ Transaction(r, WithExtensions(exec[r].extensions, <<>>))
        /\ UNCHANGED <<pauseSignal, updateSignal>>
     \/ /\ r \in updateSignal
        /\ updateSignal' = updateSignal \ {r}
        /\ At(r, "updates", NoErr)
        /\ UNCHANGED <<pauseSignal, errSignal, outbox>>
     \/ /\ r \notin pauseSignal \union updateSignal
        /\ errSignal[r] = NoErr
        /\ At(r, "send", NoErr)
        /\ UNCHANGED <<pauseSignal, errSignal, updateSignal, outbox>>
  /\ UNCHANGED <<state, updates, pending, blocksLeft, closed, delivery, commands, refused>>

NoUpdate == [result |-> ProcessUpdateHooks(<<>>), refused |-> FALSE]

\* getUpdates, and the update hooks on what it returns: they may add extension
\* data to the transaction, and an error ends it.
GetUpdates(r) ==
  /\ exec[r].at = "updates"
  /\ updates' = updates \ {r}
  /\ \E outcome \in IF r \in updates THEN UpdateOutcomes ELSE {NoUpdate} :
       LET result     == outcome.result
           extensions == exec[r].extensions \/ result.extensions
       IN  /\ Refuse(r, outcome.refused)
           /\ \/ /\ result.err = NoErr
                 /\ exec' = [exec EXCEPT ![r] = [@ EXCEPT !.at = "check",
                                                         !.extensions = extensions]]
                 /\ UNCHANGED outbox
              \/ /\ result.err # NoErr
                 /\ At(r, "finish", result.err)
                 /\ Transaction(r, WithExtensions(extensions, <<>>))
  /\ UNCHANGED <<state, pauseSignal, updateSignal, errSignal, pending, blocksLeft,
                 closed, delivery, commands>>

\* Mutant: the pause that was read first wins over the error of a hook.
PauseWins(r, hookErr) == IF exec[r].err = NoErr THEN hookErr ELSE exec[r].err

\* What sendResponse returns: the error of the block hooks, or the pause it has read.
BlockError(r, hookErr) == IF hookErr = NoErr THEN exec[r].err ELSE hookErr

\* The rest of sendResponse: the block is sent, and the block hooks may pause or
\* fail the response.  They do not run for a block that could not be loaded.
SendResponse(r) ==
  /\ exec[r].at = "send"
  /\ Transaction(r, <<"data">>)
  /\ \E outcome \in BlockOutcomes :
       LET err == BlockError(r, outcome.err)
       IN  /\ Refuse(r, outcome.refused)
           /\ exec' = [exec EXCEPT ![r] = [at |-> IF err = NoErr THEN "traverse" ELSE "finish",
                                           err |-> err, extensions |-> FALSE]]
  /\ UNCHANGED <<state, signals, pending, blocksLeft, closed, delivery, commands>>

\* What executeQuery sends when the traversal has ended with an error.
FinalStatus(err) ==
  IF err \in {"paused", "network", "cancel"} THEN <<>>
  ELSE IF err = NoErr THEN <<"completed">> ELSE <<"failed">>

\* The end of executeQuery.
CloseOut(r) ==
  /\ exec[r].at = "finish"
  /\ At(r, "done", exec[r].err)
  /\ Transaction(r, FinalStatus(exec[r].err))
  /\ UNCHANGED <<state, signals, pending, blocksLeft, closed, delivery, commands, refused>>

\* finishTask
FinishTask(r) ==
  /\ exec[r].at = "done"
  /\ exec' = [exec EXCEPT ![r] = Idle]
  /\ \/ /\ ~InProgress(r)
        /\ UNCHANGED <<state, listeners>>
     \/ /\ InProgress(r)
        /\ exec[r].err = "paused"
        /\ SetState(r, "Paused")
        /\ UNCHANGED listeners
     \/ /\ InProgress(r)
        /\ exec[r].err = "cancel"
        /\ SetState(r, "terminated")
        /\ Notify(r, "cancelled")
     \/ /\ InProgress(r)
        /\ exec[r].err = "network"
        /\ SetState(r, "terminated")
        /\ UNCHANGED listeners
     \/ /\ InProgress(r)
        /\ exec[r].err \notin {"paused", "cancel", "network"}
        /\ SetState(r, "CompletingSend")
        /\ UNCHANGED listeners
  /\ UNCHANGED <<signals, pending, blocksLeft, closed, outbox, events, subscriber, networkErrors,
                 commands, refused>>

Worker(r) ==
  \/ PopTask(r)
  \/ StartTask(r)
  \/ Traverse(r)
  \/ CheckForUpdates(r)
  \/ GetUpdates(r)
  \/ SendResponse(r)
  \/ CloseOut(r)
  \/ FinishTask(r)

-----------------------------------------------------------------------------
(* The message queue and its events *)

\* The status code of a message is the one set last; it is terminal if that was
\* a final status.
Terminal(batch) ==
  \E i \in DOMAIN batch :
    /\ batch[i] \in {"completed", "failed"}
    /\ \A j \in DOMAIN batch : j > i => batch[j] = "data"

\* A message with the first n operations of the response has been sent.
MessageSent(r) ==
  /\ \E n \in 1..Len(outbox[r]) :
       /\ outbox' = [outbox EXCEPT ![r] = SubSeq(@, n + 1, Len(@))]
       /\ events' = Append(events, [name |-> "Sent", request |-> r,
                                    terminal |-> Terminal(SubSeq(outbox[r], 1, n))])
  /\ UNCHANGED <<state, signals, pending, exec, blocksLeft, closed, subscriber,
                 commands, listeners, networkErrors, refused>>

\* ... or has failed: the stream is closed and the rest scrubbed.
MessageFailed(r) ==
  /\ \E n \in 1..Len(outbox[r]) :
       events' = Append(events, [name |-> "Error", request |-> r,
                                 terminal |-> Terminal(SubSeq(outbox[r], 1, n))])
  /\ outbox' = [outbox EXCEPT ![r] = <<>>]
  /\ closed' = closed \union {r}
  /\ UNCHANGED <<state, signals, pending, exec, blocksLeft, subscriber, commands, listeners,
                 networkErrors, refused>>

\* terminateRequest; it does nothing for a response that is not tracked.
TerminateRequest(r) ==
  state' = [state EXCEPT ![r] = IF InProgress(r) THEN "terminated" ELSE @]

\* subscriber.OnNext(Sent): TerminateRequest and the completed listeners.
OnNextSent ==
  /\ subscriber = NoEvent
  /\ events # <<>>
  /\ Head(events).name = "Sent"
  /\ events' = Tail(events)
  /\ LET r == Head(events).request
     IN  IF Head(events).terminal
           THEN TerminateRequest(r) /\ Notify(r, "completed")
           ELSE UNCHANGED <<state, listeners>>
  /\ UNCHANGED <<signals, pending, exec, blocksLeft, closed, outbox, subscriber, networkErrors,
                 commands, refused>>

\* subscriber.OnNext(Error), first CloseWithNetworkError ...
OnNextError ==
  /\ subscriber = NoEvent
  /\ events # <<>>
  /\ Head(events).name = "Error"
  /\ events' = Tail(events)
  /\ subscriber' = Head(events)
  /\ AbortRequest(Head(events).request, "network")
  /\ UNCHANGED <<updates, pauseSignal, updateSignal, exec, blocksLeft, closed, networkErrors,
                 commands, refused>>

\* Mutant: a failed terminal message does not end the response.
IgnoreFailedTerminal(r) == UNCHANGED state

\* The response code of the failed message decides whether it was the last.
TerminateIfTerminal(r) ==
  IF subscriber.terminal THEN TerminateRequest(r) ELSE UNCHANGED state

\* ... then TerminateRequest if the message was terminal, and the listeners.
OnNextErrorTerminate ==
  /\ subscriber # NoEvent
  /\ TerminateIfTerminal(subscriber.request)
  /\ networkErrors' = networkErrors \union {subscriber.request}
  /\ subscriber' = NoEvent
  /\ UNCHANGED <<signals, pending, exec, blocksLeft, closed, outbox, events, listeners,
                 commands, refused>>

Publisher == OnNextSent \/ OnNextError \/ OnNextErrorTerminate

-----------------------------------------------------------------------------
Remote(r) == NewRequest(r) \/ ProcessCancel(r) \/ ProcessUpdateLater(r) \/ ProcessUpdatePaused(r)

Local(r) == PauseResponse(r) \/ UnpauseResponse(r) \/ CancelResponse(r) \/ UpdateResponse(r)

Next ==
  \/ \E r \in Requests :
       Remote(r) \/ Local(r) \/ Worker(r) \/ MessageSent(r) \/ MessageFailed(r)
  \/ Publisher

\* The workers, the message queue and the publisher keep running, and the manager
\* handles what they send it.  Requests, calls and failures need not happen.
Fairness ==
  /\ \A r \in Requests : WF_vars(Worker(r))
  /\ \A r \in Requests : WF_vars(MessageSent(r) \/ MessageFailed(r))
  /\ WF_vars(Publisher)

Spec == Init /\ [][Next]_vars

FairSpec == Spec /\ Fairness

-----------------------------------------------------------------------------
(* Properties *)

\* The phase of the life cycle that a state stands for.
Phase(s) ==
  CASE s = "Queued"         -> "waiting"
    [] s = "Running"        -> "running"
    [] s = "Paused"         -> "paused"
    [] s = "CompletingSend" -> "completing"
    [] s = "terminated"     -> "over"
    [] OTHER                -> "new"

States == {"new", "Queued", "Running", "Paused", "CompletingSend", "terminated"}

Errors == {NoErr, "paused", "failed", "cancel", "network", "command"}

Executions == [at : {"idle", "start", "traverse", "check", "updates", "send", "finish", "done"},
               err : Errors, extensions : BOOLEAN]

\* What a transaction may do, and the events of the messages.
Operations == {"data", "completed", "failed", "partial"}

Events(names) == [name : names, request : Requests, terminal : BOOLEAN]

\* The state of the manager, its signal channels and its workers has its type.
TypeOK ==
  /\ state \in [Requests -> States]
  /\ {updates, pauseSignal, updateSignal, pending, closed} \subseteq SUBSET Requests
  /\ errSignal \in [Requests -> {NoErr, "cancel", "network", "command"}]
  /\ exec \in [Requests -> Executions]
  /\ blocksLeft \in [Requests -> 0..MaxBlocks]
  /\ outbox \in [Requests -> Seq(Operations)]
  /\ events \in Seq(Events({"Sent", "Error"}))
  /\ subscriber \in {NoEvent} \union Events({"Error"})
  /\ commands \in [Requests -> 0..MaxCommands]
  /\ listeners \in [Requests -> Seq({"cancelled", "completed"})]
  /\ {networkErrors, refused} \subseteq SUBSET Requests

\* The consistency that peerstate.Diagnostics looks for, whenever no task is
\* between PopTasks and StartTask: exactly the queued responses have a waiting
\* task, and the running ones have a worker that will finish them.
StateMatchesTaskQueue ==
  \A r \in Requests :
    /\ r \in pending => state[r] = "Queued" /\ ~Active(r)
    /\ state[r] = "Queued" => r \in pending \/ exec[r].at = "start"
    /\ state[r] = "Running" => exec[r].at \notin {"idle", "start"}
    /\ exec[r].at \notin {"idle", "start"} => state[r] \in {"Running", "terminated"}

\* A response ends once: nothing but PartialResponse updates follows its final
\* status, although the executor, the update hooks and CancelResponse may each
\* send one.
NothingAfterFinal ==
  \A r \in Requests : \A i, j \in DOMAIN outbox[r] :
    i < j /\ outbox[r][i] \in {"completed", "failed"} => outbox[r][j] = "partial"

\* What a hook refuses is not served: a response that no hook validated, or that a
\* request, update or block hook terminated, is not queued, paused or reported as
\* complete, whatever pause, update or call meets the hook on its way.
RefusedIsFailed ==
  \A r \in refused :
    /\ state[r] \notin {"Queued", "Paused"}
    /\ \A i \in DOMAIN outbox[r] : outbox[r][i] # "completed"

\* A response is not tracked for ever once the message with its final status was
\* sent or has failed: the subscriber terminates it, although CloseWithNetworkError
\* finds it completing and does nothing.
FinalEventTerminates ==
  \A r \in Requests :
    (\E i \in DOMAIN events : events[i].request = r /\ events[i].terminal)
      ~> state[r] = "terminated"

Life == INSTANCE Lifecycle WITH
  Verdicts <- {"completed", "cancelled"},
  phase    <- [r \in Requests |-> Phase(state[r])],
  reports  <- listeners,
  halted   <- FALSE

\* The manager, its workers, the message queue and the subscriber together keep
\* the promise of Lifecycle: whatever pauses, cancels, updates and failures meet, a
\* response runs only from the queue, never comes back from its end, does not wait
\* or run for ever, and its listeners get one verdict, after it has ended.
ImplementsLifecycle == Life!Spec

=============================================================================
