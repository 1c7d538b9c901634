-------------------------- MODULE ResponseCollector --------------------------
(***************************************************************************)
(* The caller's side of one request: NewRequest (requestmanager/client.go),*)
(* the two goroutines of collectResponses (responsecollector.go) that      *)
(* buffer between the request and its caller, and the three senders they   *)
(* listen to: the visitor of the traversal (nodes), the worker (errors of  *)
(* loads) and terminateRequest, which runs in the manager's loop and       *)
(* blocks it while it reports an error.                                    *)
(*                                                                         *)
(* Channels are unbuffered unless the code gives them a capacity: a send   *)
(* and its receive are one step, taken when both sides stand at theirs.    *)
(* A select is one action per case; a goroutine that has several ready     *)
(* cases takes any of them.  The caller may stop reading at any time, and  *)
(* its context may end at any time, before the call too.  After Shutdown   *)
(* every goroutine may return at its next select; no further message from  *)
(* outside and no end of a context is added then.                          *)
(*                                                                         *)
(* RequestManager has the manager's states and the worker's steps; here    *)
(* they are reduced to what is sent, reported and closed when.  A message  *)
(* "fail" is any that ends the request with an error: a failing response,  *)
(* a hook that refuses one, CancelRequest.  MaxNodes,                      *)
(* MaxErrors and MaxTasks bound the traversal, its errors and the times a  *)
(* worker takes the request up, MaxOther the messages about other requests,*)
(* and Capacity is that of rm.messages.                                    *)
(***************************************************************************)
EXTENDS Naturals, Sequences, SequencesExt

CONSTANTS MaxNodes, MaxErrors, MaxTasks, MaxOther, Capacity

ASSUME CollectorAssumption ==
  /\ {MaxNodes, MaxErrors, MaxTasks, MaxOther} \subseteq Nat
  /\ Capacity \in Nat \ {0}

VARIABLES
  rmDone,         \* rm.ctx is done
  ctxDone,        \* the context of the caller of NewRequest is done
  newCall,        \* where NewRequest is
  messages,       \* rm.messages
  manager,        \* where the run loop is
  request,        \* the request in inProgressRequestStatuses
  terminalError,  \* the error that terminateRequest reports
  reqDone,        \* the context of the request is done
  visitor,        \* where the goroutine of the traversal is
  worker,         \* where the executor is
  closed,         \* inProgressChan and inProgressErr are closed
  errBuffer,      \* the error that singleErrorResponse leaves in its channel
  responses,      \* the goroutine that collects responses, and its variables
  errors,         \* the goroutine that collects errors, and its variables
  dropped,        \* a terminated traversal has dropped a node
  late,           \* the caller's context ended before the errors of the request did
  got,            \* the nodes the caller has read, and whether it knows of its context
  counts          \* nodes, errors, tasks and other messages so far

vars == <<rmDone, ctxDone, newCall, messages, manager, request,
          terminalError, reqDone, visitor, worker, closed, errBuffer, responses, errors,
          dropped, late, got, counts>>

contexts   == <<rmDone, ctxDone>>
status     == <<request, terminalError, reqDone, closed, errBuffer>>
senders    == <<visitor, worker>>
collectors == <<responses, errors>>
history    == <<dropped, late, got, counts>>

Init ==
  /\ rmDone = FALSE /\ ctxDone = FALSE
  /\ newCall = "none"
  /\ messages = <<>>
  /\ manager = "loop"
  /\ request = "none" /\ terminalError = "nil" /\ reqDone = FALSE
  /\ visitor = "none" /\ worker = "none"
  /\ closed = FALSE /\ errBuffer = <<>>
  /\ responses = [at |-> "off", nodes |-> TRUE, errs |-> TRUE, cancel |-> TRUE, buf |-> <<>>]
  /\ errors = [at |-> "off", errs |-> TRUE, buf |-> <<>>]
  /\ dropped = FALSE /\ late = FALSE
  /\ got = [nodes |-> <<>>, cancelled |-> FALSE]
  /\ counts = [nodes |-> 0, errs |-> 0, tasks |-> 0, other |-> 0]

-----------------------------------------------------------------------------
(* The contexts *)

CallerContextEnds ==
  /\ ~ctxDone /\ ~rmDone
  /\ ctxDone' = TRUE
  /\ UNCHANGED <<rmDone, newCall, messages, manager, status, senders, collectors,
                 history>>

\* Shutdown: every other context is derived from rm.ctx but the callers'.
Shutdown ==
  /\ ~rmDone
  /\ rmDone' = TRUE
  /\ reqDone' = TRUE
  /\ UNCHANGED <<ctxDone, newCall, messages, manager, request, terminalError,
                 closed, errBuffer, senders, collectors, history>>

-----------------------------------------------------------------------------
(* The calls *)

\* send: the message goes into the channel, or one of the contexts is done and it
\* does not; the caller cannot tell which.
Send(msg, done) ==
  \/ /\ Len(messages) < Capacity
     /\ messages' = Append(messages, msg)
  \/ /\ rmDone \/ done
     /\ UNCHANGED messages

\* NewRequest, up to the wait for inProgressRequestChan.
NewRequest ==
  /\ newCall = "none"
  /\ Send("new", ctxDone)
  /\ newCall' = "waiting"
  /\ UNCHANGED <<contexts, manager, status, senders, collectors, history>>

\* emptyResponse: the manager is shut down, both channels are returned closed.
EmptyResponse ==
  /\ newCall = "waiting"
  /\ rmDone
  /\ newCall' = "empty"
  /\ UNCHANGED <<contexts, messages, manager, status, senders, collectors, history>>

-----------------------------------------------------------------------------
(* The manager's loop *)

InProgress == request \in {"queued", "running", "paused"}

Head1(msg) ==
  /\ manager = "loop"
  /\ messages # <<>>
  /\ Head(messages) = msg
  /\ messages' = Tail(messages)

\* newRequestMessage.handle: the reply is sent over an unbuffered channel.  A
\* request that is refused gets closed channels and an error in the buffer.
HandleNew ==
  /\ Head1("new")
  /\ manager' = "reply"
  /\ \/ request' = "queued" /\ UNCHANGED <<closed, errBuffer>>
     \/ request' = "refused" /\ closed' = TRUE /\ errBuffer' = <<"invalid">>
  /\ UNCHANGED <<contexts, newCall, terminalError, reqDone, senders, collectors, history>>

\* inProgressRequestChan: the call has its channels and starts to collect.
Reply ==
  /\ manager = "reply"
  /\ newCall = "waiting"
  /\ manager' = "loop"
  /\ newCall' = "returned"
  /\ responses' = [responses EXCEPT !.at = "collect"]
  /\ errors' = [errors EXCEPT !.at = "collect"]
  /\ UNCHANGED <<contexts, messages, status, senders, history>>

\* cancelRequest and cancelOnError; a request that no worker runs is terminated at
\* once: its error is reported first, if it has one.
Cancel(err) ==
  LET kept == IF terminalError = "nil" THEN err ELSE terminalError
  IN  /\ terminalError' = kept
      /\ reqDone' = TRUE
      /\ manager' = IF request = "running" THEN "loop"
                    ELSE IF kept = "nil" THEN "stop" ELSE "report"

\* The message of cancelRequestAndClose, and a response that fails the request.
HandleQuietly(msg, err) ==
  /\ Head1(msg)
  /\ IF InProgress THEN Cancel(err) ELSE UNCHANGED <<terminalError, reqDone, manager>>
  /\ UNCHANGED <<contexts, newCall, request, closed, errBuffer, senders, collectors, history>>

\* Everything that is about another request.
HandleOther ==
  /\ Head1("other")
  /\ UNCHANGED <<contexts, newCall, manager, status, senders, collectors, history>>

\* getRequestTask: the first task starts the traversal.
HandleTask ==
  /\ Head1("task")
  /\ \/ /\ InProgress
        /\ request' = "running"
        /\ worker' = "working"
        /\ visitor' = IF visitor = "none" THEN "walking" ELSE visitor
     \/ ~InProgress /\ worker' = "none" /\ UNCHANGED <<request, visitor>>
  /\ UNCHANGED <<contexts, newCall, manager, terminalError, reqDone, closed, errBuffer, collectors,
                 history>>

\* releaseRequestTask: a paused request stays, any other is terminated.
HandleRelease ==
  /\ \/ /\ Head1("paused")
        /\ request' = "paused"
        /\ UNCHANGED manager
     \/ /\ Head1("release")
        /\ manager' = IF terminalError = "nil" THEN "stop" ELSE "report"
        /\ UNCHANGED request
  /\ worker' = "none"
  /\ UNCHANGED <<contexts, newCall, terminalError, reqDone, closed, errBuffer, visitor, collectors,
                 history>>

\* Traverser.Shutdown returns when the goroutine of the traversal has stopped.
TraverserStopped == visitor \in {"none", "stopped"}

\* terminateRequest after the report: the traversal is shut down, the channels are
\* closed.
CloseChannels ==
  /\ manager = "stop"
  /\ ~rmDone
  /\ TraverserStopped
  /\ manager' = "loop"
  /\ request' = "ended"
  /\ reqDone' = TRUE
  /\ closed' = TRUE
  /\ late' = (late \/ ctxDone)
  /\ UNCHANGED <<contexts, newCall, messages, terminalError, errBuffer, senders, collectors,
                 dropped, got, counts>>

\* rm.ctx is done: each of the waits of the loop ends, and then the loop.
ManagerStops ==
  /\ rmDone
  /\ manager # "stopped"
  /\ manager' = "stopped"
  /\ UNCHANGED <<contexts, newCall, messages, status, senders, collectors, history>>

-----------------------------------------------------------------------------
(* Senders *)

\* The peer, or any other caller of the manager.
OtherMessage(msg) ==
  /\ ~rmDone
  /\ counts.other < MaxOther
  /\ Len(messages) < Capacity
  /\ msg = "fail" => newCall = "returned"
  /\ messages' = Append(messages, msg)
  /\ counts' = [counts EXCEPT !.other = @ + 1]
  /\ UNCHANGED <<contexts, newCall, manager, status, senders, collectors, dropped, late, got>>

\* The traversal goes on to a node and offers it, or comes to its end.
Visit ==
  /\ visitor = "walking"
  /\ \/ /\ counts.nodes < MaxNodes
        /\ visitor' = "sending"
        /\ counts' = [counts EXCEPT !.nodes = @ + 1]
     \/ visitor' = "stopped" /\ UNCHANGED counts
  /\ UNCHANGED <<contexts, newCall, messages, manager, status, worker, collectors, dropped, late, got>>

\* The context of the traversal: traverserCancel, or rm.ctx.
TraversalDone == rmDone \/ manager = "stop"

\* The node is dropped, and the walk goes on to the next load.
VisitorCancelled ==
  /\ visitor = "sending"
  /\ TraversalDone
  /\ visitor' = "walking"
  /\ dropped' = TRUE
  /\ UNCHANGED <<contexts, newCall, messages, manager, status, worker, collectors, late, got,
                 counts>>

\* A worker takes the request up: GetRequestTask.
TakeTask ==
  /\ worker = "none"
  /\ request \in {"queued", "paused"}
  /\ counts.tasks < MaxTasks
  /\ Send("task", FALSE)
  /\ worker' = "asking"
  /\ counts' = [counts EXCEPT !.tasks = @ + 1]
  /\ UNCHANGED <<contexts, newCall, manager, status, visitor, collectors, dropped, late, got>>

\* An error of a load, or the error the task ends with.
OfferError ==
  /\ worker = "working"
  /\ ~reqDone
  /\ counts.errs < MaxErrors
  /\ worker' = "sending"
  /\ counts' = [counts EXCEPT !.errs = @ + 1]
  /\ UNCHANGED <<contexts, newCall, messages, manager, status, visitor, collectors, dropped, late, got>>

WorkerCancelled ==
  /\ worker = "sending"
  /\ reqDone
  /\ worker' = "working"
  /\ UNCHANGED <<contexts, newCall, messages, manager, status, visitor, collectors, history>>

\* ReleaseRequestTask: the traversal is over, has failed, or is to pause.
ReleaseTask(msg) ==
  /\ worker = "working"
  /\ Send(msg, FALSE)
  /\ worker' = "releasing"
  /\ UNCHANGED <<contexts, newCall, manager, status, visitor, collectors, history>>

-----------------------------------------------------------------------------
(* collectResponses: the goroutine for responses *)

Collecting == responses.at = "collect"
Closing    == responses.at = "closing"

\* Mutant: what is buffered when the channel closes is forgotten.
ResponsesLeftOpenOnly(r) == r.nodes

\* Its loop goes on while it has something or may get something.
ResponsesLeft(r) == r.buf # <<>> \/ r.nodes

\* What the loop does next.
NextResponses(r) == IF ResponsesLeft(r) THEN r ELSE [r EXCEPT !.at = "done"]

\* A node is received, in collectResponses or in cancelRequestAndClose, which drops it.
ReceiveNode ==
  /\ visitor = "sending"
  /\ responses.nodes
  /\ \/ /\ Collecting
        /\ responses' = [responses EXCEPT !.buf = Append(@, counts.nodes)]
     \/ Closing /\ UNCHANGED responses
  /\ visitor' = "walking"
  /\ UNCHANGED <<contexts, newCall, messages, manager, status, worker, errors, history>>

\* What cancelRequestAndClose still waits for.
Draining(r) == r.cancel \/ r.nodes \/ r.errs

NextClosing(r) == IF Draining(r) THEN r ELSE [r EXCEPT !.at = "done"]

ResponsesClosed ==
  /\ closed
  /\ responses.nodes
  /\ LET r == [responses EXCEPT !.nodes = FALSE]
     IN  \/ Collecting /\ responses' = NextResponses(r)
         \/ Closing /\ responses' = NextClosing(r)
  /\ UNCHANGED <<contexts, newCall, messages, manager, status, senders, errors, history>>

\* The caller reads a response.
ReadResponse ==
  /\ Collecting
  /\ responses.buf # <<>>
  /\ got' = [got EXCEPT !.nodes = Append(@, Head(responses.buf))]
  /\ responses' = NextResponses([responses EXCEPT !.buf = Tail(@)])
  /\ UNCHANGED <<contexts, newCall, messages, manager, status, senders, errors, dropped, late,
                 counts>>

\* Mutant: the request is cancelled and its channels are left to themselves.
CancelOnly == [responses EXCEPT !.at = "closing", !.nodes = FALSE, !.errs = FALSE]

\* cancelRequestAndClose starts: it sends the cancel and clears both channels.
CancelRequestAndClose == [responses EXCEPT !.at = "closing"]

\* The caller's context is done.
ResponsesCancelled ==
  /\ Collecting
  /\ ctxDone
  /\ responses' = IF responses.nodes THEN CancelRequestAndClose
                  ELSE [responses EXCEPT !.at = "done"]
  /\ UNCHANGED <<contexts, newCall, messages, manager, status, senders, errors, history>>

\* cancelRequestAndClose sends its message.
SendCancel ==
  /\ Closing
  /\ responses.cancel
  /\ Len(messages) < Capacity
  /\ messages' = Append(messages, "close")
  /\ responses' = NextClosing([responses EXCEPT !.cancel = FALSE])
  /\ UNCHANGED <<contexts, newCall, manager, status, senders, errors, history>>

ResponsesStopped ==
  /\ responses.at \in {"collect", "closing"}
  /\ rmDone
  /\ responses' = [responses EXCEPT !.at = "done"]
  /\ UNCHANGED <<contexts, newCall, messages, manager, status, senders, errors, history>>

-----------------------------------------------------------------------------
(* collectResponses: the goroutine for errors *)

NextErrors(e) == IF e.buf # <<>> \/ e.errs THEN e ELSE [e EXCEPT !.at = "done"]

\* The error on offer: the worker's, or the one terminateRequest reports.
Offered == IF worker = "sending" THEN "load" ELSE terminalError

\* An error is received here, or by cancelRequestAndClose, which drops it.
ReceiveError ==
  /\ worker = "sending" \/ manager = "report"
  /\ \/ /\ errors.at = "collect"
        /\ errors.errs
        /\ errors' = [errors EXCEPT !.buf = Append(@, Offered)]
        /\ UNCHANGED late
     \/ /\ Closing
        /\ responses.errs
        /\ late' = TRUE
        /\ UNCHANGED errors
  /\ IF worker = "sending"
       THEN worker' = "working" /\ UNCHANGED manager
       ELSE manager' = "stop" /\ UNCHANGED worker
  /\ UNCHANGED <<contexts, newCall, messages, status, visitor, responses, dropped, got, counts>>

\* The buffered error of singleErrorResponse.
ReceiveBuffered ==
  /\ errBuffer # <<>>
  /\ errBuffer' = <<>>
  /\ \/ /\ errors.at = "collect"
        /\ errors' = [errors EXCEPT !.buf = Append(@, Head(errBuffer))]
        /\ UNCHANGED late
     \/ /\ Closing
        /\ responses.errs
        /\ late' = TRUE
        /\ UNCHANGED errors
  /\ UNCHANGED <<contexts, newCall, messages, manager, request, terminalError, reqDone, closed,
                 senders, responses, dropped, got, counts>>

\* Mutant: a closed channel is taken for the end of the matter.
AfterCloseUnchecked(e) == NextErrors(e)

\* "even if the incomingErrors channel is closed without any error, the context
\* could still have timed out": the caller is told of it, then the loop goes on.
AfterClose(e) == IF ctxDone THEN [e EXCEPT !.at = "telling"] ELSE NextErrors(e)

ErrorsClosed ==
  /\ closed
  /\ errBuffer = <<>>
  /\ \/ /\ errors.at = "collect"
        /\ errors.errs
        /\ errors' = AfterClose([errors EXCEPT !.errs = FALSE])
        /\ UNCHANGED responses
     \/ /\ Closing
        /\ responses.errs
        /\ responses' = NextClosing([responses EXCEPT !.errs = FALSE])
        /\ UNCHANGED errors
  /\ UNCHANGED <<contexts, newCall, messages, manager, status, senders, history>>

ReadError ==
  /\ errors.at = "collect"
  /\ errors.buf # <<>>
  /\ errors' = NextErrors([errors EXCEPT !.buf = Tail(@)])
  /\ UNCHANGED <<contexts, newCall, messages, manager, status, senders, responses, history>>

\* The caller's context is done: it is told, and the goroutine returns.
ErrorsCancelled ==
  /\ errors.at = "collect"
  /\ ctxDone
  /\ errors' = [errors EXCEPT !.at = "cancelled"]
  /\ UNCHANGED <<contexts, newCall, messages, manager, status, senders, responses, history>>

\* The caller reads RequestClientCancelledErr.
ReadCancelled ==
  /\ \/ errors.at = "cancelled" /\ errors' = [errors EXCEPT !.at = "done"]
     \/ errors.at = "telling" /\ errors' = NextErrors([errors EXCEPT !.at = "collect"])
  /\ got' = [got EXCEPT !.cancelled = TRUE]
  /\ UNCHANGED <<contexts, newCall, messages, manager, status, senders, responses, dropped,
                 late, counts>>

\* rm.ctx is done; in "telling" the loop goes on and returns in its next select.
ErrorsStopped ==
  /\ errors.at \in {"collect", "cancelled", "telling"}
  /\ rmDone
  /\ errors' = [errors EXCEPT !.at = "done"]
  /\ UNCHANGED <<contexts, newCall, messages, manager, status, senders, responses, history>>

-----------------------------------------------------------------------------
Caller ==
  \/ NewRequest
  \/ EmptyResponse

Reader == ReadResponse \/ ReadError \/ ReadCancelled

Manager ==
  \/ HandleNew
  \/ Reply
  \/ HandleQuietly("close", "nil")
  \/ HandleQuietly("fail", "failed")
  \/ HandleOther
  \/ HandleTask
  \/ HandleRelease
  \/ CloseChannels
  \/ ManagerStops

Traversal == Visit \/ VisitorCancelled

Worker ==
  \/ TakeTask
  \/ OfferError
  \/ WorkerCancelled
  \/ ReleaseTask("release")
  \/ ReleaseTask("paused")

CollectResponses ==
  \/ ReceiveNode
  \/ ResponsesClosed
  \/ ResponsesCancelled
  \/ SendCancel
  \/ ResponsesStopped

CollectErrors ==
  \/ ReceiveError
  \/ ReceiveBuffered
  \/ ErrorsClosed
  \/ ErrorsCancelled
  \/ ErrorsStopped

Next ==
  \/ CallerContextEnds
  \/ Shutdown
  \/ Caller
  \/ Reader
  \/ Manager
  \/ \E msg \in {"other", "fail"} : OtherMessage(msg)
  \/ Traversal
  \/ Worker
  \/ CollectResponses
  \/ CollectErrors

\* Goroutines that can run do run, and a select does not pass over a ready case for
\* ever.  The callers are not assumed to read, and contexts not to end.
Fairness ==
  /\ WF_vars(EmptyResponse)
  /\ WF_vars(Manager)
  /\ WF_vars(Traversal)
  /\ WF_vars(Worker)
  /\ WF_vars(CollectErrors)
  /\ WF_vars(ReceiveNode) /\ WF_vars(ResponsesClosed) /\ WF_vars(ResponsesStopped)
  /\ SF_vars(ResponsesCancelled) /\ SF_vars(SendCancel)

Spec == Init /\ [][Next]_vars /\ Fairness

-----------------------------------------------------------------------------
(* Properties *)

\* What the caller reads is in the order of the traversal, and without gaps until a
\* terminated traversal drops a node; when the returned channel is closed it is all
\* that was sent, unless a context ended.
DeliveredInOrder ==
  /\ \A i, j \in DOMAIN got.nodes : i < j => got.nodes[i] < got.nodes[j]
  /\ ~dropped => IsPrefix(got.nodes, [i \in 1..MaxNodes |-> i])
  /\ responses.at = "done" /\ ~ctxDone /\ ~rmDone => responses.buf = <<>>

\* When the error channel is closed the caller has read every error of the request,
\* or knows that its own context ended; if that was before the request ended, or if
\* an error was dropped for it, it always knows.
ErrorsAreTold ==
  errors.at = "done" /\ ~rmDone /\ ~got.cancelled =>
    errors.buf = <<>> /\ ~late

\* "just don't do anything likely to block": the loop blocks in the reply to
\* NewRequest and in the report of an error, and comes back from both, whether or
\* not the caller reads its channels and whenever its context ends.  When that
\* context ends the returned channel is closed, although nobody reads it, unless a
\* worker pauses the request after it was cancelled.
NobodyWaitsForEver ==
  /\ manager # "loop" ~> manager \in {"loop", "stopped"}
  /\ ctxDone /\ newCall = "returned"
       ~> responses.at = "done" \/ (request = "paused" /\ reqDone)

=============================================================================
