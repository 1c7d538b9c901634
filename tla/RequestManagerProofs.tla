------------------------- MODULE RequestManagerProofs -------------------------
(***************************************************************************)
(* Proofs about the requestor, for every set of requests, every length of  *)
(* a traversal, any number of workers, calls, answers and hooks.           *)
(***************************************************************************)
EXTENDS RequestManager, TLAPS

-----------------------------------------------------------------------------
(* The inductive invariant *)

\* A worker that is loading a link has one left to load, what it has loaded is
\* a block or one of the loader's two errors, and only a failure of the request
\* itself is reported to the caller.
StepOfWorker(r) ==
  /\ exec[r].at \in {"open", "request", "retry", "advance"} => linksLeft[r] > 0
  /\ exec[r].at = "advance" => exec[r].err \in {NoErr, "missing", "incorrect"}
  /\ exec[r].at = "report" => exec[r].err \in {"missing", "incorrect", "failed"}

\* A request that was never made has neither a task nor a worker.
UnknownIsIdle(r) == state[r] = "new" => r \notin pending /\ exec[r] = Idle

\* The context of a request that has not ended was cancelled for a reason that is
\* kept: a terminal error, or the caller's own context.
CancelHasReason(r) ==
  r \in ctxDone /\ ~shutdown /\ state[r] # "terminated"
    => terminalError[r] # NoErr \/ r \in callerDone

\* What the result of a task that is about to be released says: without an error
\* the traversal is complete, a context error comes from the request's context, and
\* any other error but a pause has been told or the context was done first.
ResultIsHonest(r) ==
  ~shutdown =>
    /\ exec[r].at \in {"returned", "release"} /\ exec[r].err = NoErr => linksLeft[r] = 0
    /\ exec[r].at \in {"returned", "release"} /\ exec[r].err = "context" => r \in ctxDone
    /\ exec[r].at = "release" /\ exec[r].err \notin {NoErr, "context", "paused"}
         => told[r] # {} \/ r \in ctxDone

\* A call of CancelRequest is answered only when the request has ended.
AnswerIsLast(r) == canceller[r] = "answered" => state[r] = "terminated"

\* What is known of one request, in every state.
RequestInv(r) ==
  /\ WorkerMatchesState(r)
  /\ EndIsExplained(r)
  /\ StepOfWorker(r)
  /\ UnknownIsIdle(r)
  /\ CancelHasReason(r)
  /\ ResultIsHonest(r)
  /\ AnswerIsLast(r)

\* The inductive invariant.
IInv == TypeOK /\ \A r \in Requests : RequestInv(r)

-----------------------------------------------------------------------------
(* What the hooks return *)

\* The hooks of a block return no error, that of the user or a pause, so none is
\* taken for the error of a cancelled context.
LEMMA HookErrors == IncomingOutcomes \subseteq {NoErr, "failed", "paused"}
<1>1. \A hook : HookError(hook) \in {NoErr, "failed", "paused"}
  BY DEF HookError, SelectLastInSeq
<1>2. \A hooks : PublishBlock(hooks) \in {NoErr, "failed", "paused"}
  BY <1>1 DEF PublishBlock, SelectInSeq
<1> QED BY <1>2 DEF IncomingOutcomes, ProcessIncomingHooks


-----------------------------------------------------------------------------
(* What the helpers of the model do to a record *)

\* A worker's step changes where it is and the error it carries, and no other worker.
LEMMA AtFields ==
  ASSUME NEW r \in Requests, exec \in [Requests -> Executions],
         NEW at \in Steps, NEW err \in TaskErrors, At(r, at, err)
  PROVE  /\ exec' \in [Requests -> Executions]
         /\ exec'[r].at = at /\ exec'[r].err = err
         /\ \A q \in Requests \ {r} : exec'[q] = exec[q]
BY DEF At, Executions

\* A worker that has ended its task is idle.
LEMMA IdleFields ==
  ASSUME NEW r \in Requests, exec \in [Requests -> Executions],
         exec' = [exec EXCEPT ![r] = Idle]
  PROVE  /\ exec' \in [Requests -> Executions]
         /\ exec'[r] = Idle /\ exec'[r].at = "idle" /\ exec'[r].err = NoErr
         /\ \A q \in Requests \ {r} : exec'[q] = exec[q]
BY DEF Executions, Idle, Steps, TaskErrors, NoErr

\* Changes of one loader leave a loader.
LEMMA LoaderFields ==
  ASSUME NEW r \in Requests, loader \in [Requests -> Loaders],
         NEW items \in 0..MaxItems, NEW open \in BOOLEAN
  PROVE  /\ [loader EXCEPT ![r].open = open, ![r].items = items] \in [Requests -> Loaders]
         /\ [loader EXCEPT ![r].items = items, ![r].open = open] \in [Requests -> Loaders]
         /\ [loader EXCEPT ![r].items = items] \in [Requests -> Loaders]
         /\ [loader EXCEPT ![r].open = open] \in [Requests -> Loaders]
         /\ [loader EXCEPT ![r].exists = TRUE] \in [Requests -> Loaders]
         /\ loader[r].items \in 0..MaxItems /\ loader[r].open \in BOOLEAN
         /\ loader[r].items > 0 => loader[r].items - 1 \in 0..MaxItems
<1>1. [loader EXCEPT ![r].open = open, ![r].items = items] \in [Requests -> Loaders]
  BY DEF Loaders
<1>2. [loader EXCEPT ![r].items = items, ![r].open = open] \in [Requests -> Loaders]
  BY DEF Loaders
<1>3. [loader EXCEPT ![r].items = items] \in [Requests -> Loaders]
  BY DEF Loaders
<1>4. [loader EXCEPT ![r].open = open] \in [Requests -> Loaders]
  BY DEF Loaders
<1>5. [loader EXCEPT ![r].exists = TRUE] \in [Requests -> Loaders]
  BY DEF Loaders
<1>6. loader[r].items \in 0..MaxItems /\ loader[r].open \in BOOLEAN
  BY DEF Loaders
<1>7. loader[r].items > 0 => loader[r].items - 1 \in 0..MaxItems
  BY <1>6, BoundsAssumption
<1> QED BY <1>1, <1>2, <1>3, <1>4, <1>5, <1>6, <1>7

\* A loader may have no items, and one less than it has.
LEMMA FewerItems ==
  /\ 0 \in 0..MaxItems
  /\ \A n \in 0..MaxItems : n > 0 => n - 1 \in 0..MaxItems
<1>1. MaxItems \in Nat
  BY BoundsAssumption, Zenon
<1> QED BY <1>1

\* The types of what the manager keeps of a request.
ManagerTypes ==
  /\ state \in [Requests -> {"new", "Queued", "Running", "Paused", "terminated"}]
  /\ ctxDone \in SUBSET Requests
  /\ terminalError \in [Requests -> {NoErr, "cancelled", "failed", "hook"}]
  /\ canceller \in [Requests -> {"none", "waiting", "answered"}]
  /\ loader \in [Requests -> Loaders]
  /\ told \in [Requests -> SUBSET {"invalid", "missing", "incorrect", "failed",
                                   "cancelled", "hook"}]

\* terminateRequest keeps the types.
LEMMA TerminateTypes ==
  ASSUME TypeOK, NEW r \in Requests, NEW err \in {NoErr, "cancelled", "failed", "hook"},
         TerminateRequest(r, err)
  PROVE  /\ state' \in [Requests -> {"new", "Queued", "Running", "Paused", "terminated"}]
         /\ ctxDone' \in SUBSET Requests
         /\ loader' \in [Requests -> Loaders]
         /\ told' \in [Requests -> SUBSET {"invalid", "missing", "incorrect", "failed",
                                           "cancelled", "hook"}]
<1>1. loader' \in [Requests -> Loaders]
  <2>1. 0 \in 0..MaxItems /\ FALSE \in BOOLEAN /\ loader \in [Requests -> Loaders]
    <3>1. 0 \in 0..MaxItems
      BY FewerItems, Zenon
    <3> QED BY <3>1 DEF TypeOK
  <2>2. [loader EXCEPT ![r].items = 0] \in [Requests -> Loaders]
    BY <2>1, LoaderFields, Zenon
  <2> QED BY <2>2 DEF TerminateRequest
<1> QED BY <1>1 DEF TypeOK, TerminateRequest, SetState, Tell, NoErr

\* cancelOnError keeps the types.
LEMMA CancelTypes ==
  ASSUME TypeOK, NEW r \in Requests, NEW err \in {NoErr, "cancelled", "failed", "hook"},
         NEW waiter \in {"none", "waiting", "answered"}, NEW items \in 0..MaxItems,
         CancelOnError(r, err, waiter, items)
  PROVE  ManagerTypes'
<1>1. KeptError(r, err) \in {NoErr, "cancelled", "failed", "hook"}
  BY DEF KeptError, TypeOK
<1>2. Answered(waiter) \in {"none", "waiting", "answered"}
  BY DEF Answered
<1>3. CASE EndsHere(r)
  <2>1. TerminateRequest(r, KeptError(r, err))
    BY <1>3 DEF CancelOnError
  <2> QED BY <1>1, <1>2, <1>3, <2>1, TerminateTypes DEF ManagerTypes, CancelOnError, TypeOK
<1>4. CASE ~EndsHere(r)
  <2>1. [loader EXCEPT ![r].open = FALSE, ![r].items = items] \in [Requests -> Loaders]
    BY LoaderFields, Zenon DEF TypeOK
  <2>2. /\ loader' = [loader EXCEPT ![r].open = FALSE, ![r].items = items]
        /\ ctxDone' = ctxDone \union {r} /\ state' = state /\ told' = told
        /\ terminalError' = [terminalError EXCEPT ![r] = KeptError(r, err)]
        /\ canceller' = [canceller EXCEPT ![r] = waiter]
    BY <1>4 DEF CancelOnError
  <2>3. state' \in [Requests -> {"new", "Queued", "Running", "Paused", "terminated"}]
    BY <2>2 DEF TypeOK
  <2>4. ctxDone' \in SUBSET Requests
    BY <2>2 DEF TypeOK
  <2>5. terminalError' \in [Requests -> {NoErr, "cancelled", "failed", "hook"}]
    BY <1>1, <2>2 DEF TypeOK
  <2>6. canceller' \in [Requests -> {"none", "waiting", "answered"}]
    BY <2>2 DEF TypeOK
  <2>7. told' \in [Requests -> SUBSET {"invalid", "missing", "incorrect", "failed",
                                       "cancelled", "hook"}]
    BY <2>2 DEF TypeOK
  <2>8. loader' \in [Requests -> Loaders]
    BY <2>1, <2>2
  <2> QED BY <2>3, <2>4, <2>5, <2>6, <2>7, <2>8, Zenon DEF ManagerTypes
<1> QED BY <1>3, <1>4

-----------------------------------------------------------------------------
(* Type correctness *)

\* A Cancel that is sent keeps the type of the peer.
LEMMA CancelSentTypes ==
  ASSUME TypeOK, NEW r \in Requests, SendCancel(r)
  PROVE  remote' \in [Requests -> {"unasked", "serving", "over"}]
BY DEF TypeOK, SendCancel

\* The user's calls keep the types.
LEMMA UserTypes ==
  ASSUME TypeOK, NEW r \in Requests, User(r)
  PROVE  TypeOK'
<1> USE BoundsAssumption
<1>1. loader[r].items \in 0..MaxItems
  BY DEF TypeOK, Loaders
<1>2. CASE NewRequest(r)
  BY <1>2 DEF TypeOK, NewRequest, SetState, PushTask, Tell, walk, inputs
<1>3. CASE CancelRequest(r)
  <2>1. ManagerTypes'
    BY <1>1, <1>3, CancelTypes DEF CancelRequest
  <2>2. remote' \in [Requests -> {"unasked", "serving", "over"}] /\ calls' \in 0..MaxCalls
    BY <1>3, CancelSentTypes DEF TypeOK, CancelRequest, Call
  <2> QED BY <1>3, <2>1, <2>2 DEF TypeOK, ManagerTypes, CancelRequest, Call, walk
<1>4. CASE CancelRequestAndClose(r)
  <2>1. canceller[r] \in {"none", "waiting", "answered"}
    BY DEF TypeOK
  <2>2. ManagerTypes'
    BY <1>1, <1>4, <2>1, CancelTypes DEF CancelRequestAndClose
  <2>3. remote' \in [Requests -> {"unasked", "serving", "over"}] /\ calls' \in 0..MaxCalls
    BY <1>4, CancelSentTypes DEF TypeOK, CancelRequestAndClose, Call
  <2> QED BY <1>4, <2>2, <2>3 DEF TypeOK, ManagerTypes, CancelRequestAndClose, Call, walk
<1>5. CASE PauseRequest(r)
  BY <1>5 DEF TypeOK, PauseRequest, Call, status, walk
<1>6. CASE UnpauseRequest(r)
  BY <1>6 DEF TypeOK, UnpauseRequest, Call, SetState, PushTask, walk
<1> QED BY <1>2, <1>3, <1>4, <1>5, <1>6 DEF User

\* The peer's answers keep the types.
LEMMA PeerTypes ==
  ASSUME TypeOK, NEW r \in Requests, Peer(r)
  PROVE  TypeOK'
<1> USE BoundsAssumption
<1>1. /\ loader[r].items \in 0..MaxItems
      /\ loader[r].open \in BOOLEAN
      /\ canceller[r] \in {"none", "waiting", "answered"}
  BY DEF TypeOK, Loaders
<1>2. Ingested(r) \subseteq 0..MaxItems
  BY <1>1 DEF Ingested
<1>3. ASSUME NEW code \in {"partial", "completed"}, ProcessResponses(r, code)
      PROVE  TypeOK'
  <2>1. PICK items \in Ingested(r) :
          loader' = [loader EXCEPT ![r].items = items, ![r].open = OnlineAfter(r, code)]
    BY <1>3 DEF ProcessResponses
  <2>2. items \in 0..MaxItems /\ OnlineAfter(r, code) \in BOOLEAN
    BY <1>2, <2>1 DEF OnlineAfter
  <2>3. loader' \in [Requests -> Loaders]
    BY <2>1, <2>2, LoaderFields, Zenon DEF TypeOK
  <2>4. remote' \in [Requests -> {"unasked", "serving", "over"}] /\ answers' \in 0..MaxAnswers
    BY <1>3 DEF TypeOK, ProcessResponses, Answer
  <2> QED BY <1>3, <2>3, <2>4 DEF TypeOK, ProcessResponses, Answer, status, walk
<1>4. CASE ProcessFailure(r)
  <2>1. PICK items \in Ingested(r) : CancelOnError(r, "failed", canceller[r], items)
    BY <1>4 DEF ProcessFailure
  <2>2. ManagerTypes'
    BY <1>1, <1>2, <2>1, CancelTypes
  <2>3. remote' \in [Requests -> {"unasked", "serving", "over"}] /\ answers' \in 0..MaxAnswers
    BY <1>4 DEF TypeOK, ProcessFailure, Answer
  <2> QED BY <1>4, <2>2, <2>3 DEF TypeOK, ManagerTypes, ProcessFailure, Answer, walk
<1>5. CASE RejectResponse(r)
  <2>1. ManagerTypes'
    BY <1>1, <1>5, CancelTypes DEF RejectResponse
  <2>2. remote' \in [Requests -> {"unasked", "serving", "over"}] /\ answers' \in 0..MaxAnswers
    BY <1>5, CancelSentTypes DEF TypeOK, RejectResponse
  <2> QED BY <1>5, <2>1, <2>2 DEF TypeOK, ManagerTypes, RejectResponse, walk
<1> QED BY <1>3, <1>4, <1>5 DEF Peer

\* One turn of BlockReadOpener leaves the worker where it is or moves it on with
\* a block or an error of the loader, and touches no other worker.
LEMMA ReadFields ==
  ASSUME TypeOK, NEW r \in Requests, NEW missing \in {"open", "advance"},
         BlockReadOpener(r, missing)
  PROVE  /\ exec' \in [Requests -> Executions]
         /\ loader' \in [Requests -> Loaders]
         /\ \A q \in Requests \ {r} : exec'[q] = exec[q]
         /\ \/ exec'[r] = exec[r]
            \/ /\ exec'[r].at \in {"advance", missing}
               /\ exec'[r].err \in {NoErr, "missing", "incorrect"}
<1>1. /\ exec \in [Requests -> Executions] /\ loader \in [Requests -> Loaders]
      /\ loader[r].items \in 0..MaxItems
  BY DEF TypeOK, Loaders
<1>2. ASSUME NEW used \in BOOLEAN, NEW err \in {NoErr, "missing", "incorrect"},
             exec' = [exec EXCEPT ![r] =
                        [@ EXCEPT !.at = IF err = "missing" THEN missing ELSE "advance",
                                  !.usedRemote = used, !.err = err]]
      PROVE  /\ exec' \in [Requests -> Executions]
             /\ \A q \in Requests \ {r} : exec'[q] = exec[q]
             /\ exec'[r].at \in {"advance", missing}
             /\ exec'[r].err \in {NoErr, "missing", "incorrect"}
  <2> DEFINE at == IF err = "missing" THEN missing ELSE "advance"
  <2>1. at \in {"advance", missing} /\ at \in Steps /\ err \in TaskErrors
    BY DEF Steps, TaskErrors
  <2> HIDE DEF at
  <2>2. exec' = [exec EXCEPT ![r] = [@ EXCEPT !.at = at, !.usedRemote = used, !.err = err]]
    BY <1>2 DEF at
  <2> QED BY <1>1, <2>1, <2>2 DEF Executions
<1>3. CASE loader[r].items > 0 /\ loader' = [loader EXCEPT ![r].items = @ - 1]
  <2>1. loader' = [loader EXCEPT ![r].items = loader[r].items - 1]
    BY <1>1, <1>3
  <2>2. loader[r].items - 1 \in 0..MaxItems /\ TRUE \in BOOLEAN
    BY <1>1, <1>3, FewerItems, Zenon
  <2>3. loader' \in [Requests -> Loaders]
    BY <1>1, <2>1, <2>2, LoaderFields, Zenon
  <2>4. CASE exec' = exec
    BY <1>1, <2>3, <2>4
  <2>5. CASE \E err \in {NoErr, "missing", "incorrect"} :
               exec' = [exec EXCEPT ![r] =
                          [@ EXCEPT !.at = IF err = "missing" THEN missing ELSE "advance",
                                    !.usedRemote = TRUE, !.err = err]]
    BY <1>2, <2>3, <2>5
  <2>6. loader[r].items # 0
    BY <1>1, <1>3
  <2> QED BY <2>4, <2>5, <2>6 DEF BlockReadOpener
<1>4. CASE /\ loader' = loader
           /\ \E err \in {NoErr, "missing"} :
                exec' = [exec EXCEPT ![r] =
                           [@ EXCEPT !.at = IF err = "missing" THEN missing ELSE "advance",
                                     !.usedRemote = FALSE, !.err = err]]
  BY <1>1, <1>2, <1>4
<1> QED BY <1>3, <1>4 DEF BlockReadOpener

\* A worker's steps keep the types, given what is known of a worker that is loading
\* a link.
LEMMA WorkerTypes ==
  ASSUME TypeOK, NEW r \in Requests, StepOfWorker(r), Worker(r)
  PROVE  TypeOK'
<1> USE BoundsAssumption DEF TypeOK
<1>1. /\ exec[r].at \in Steps /\ exec[r].err \in TaskErrors /\ exec[r].usedRemote \in BOOLEAN
      /\ NoErr \in TaskErrors
  BY DEF Executions, TaskErrors
<1>2. CASE PopTask(r)
  <2>1. exec' \in [Requests -> Executions]
    BY <1>1, <1>2, AtFields DEF PopTask, Steps
  <2> QED BY <1>2, <2>1 DEF PopTask, status, walk, inputs
<1>3. CASE GetRequestTask(r)
  <2>1. exec' \in [Requests -> Executions]
    <3>1. "traverse" \in Steps /\ NoErr \in TaskErrors
      BY <1>1 DEF Steps
    <3>2. At(r, "traverse", NoErr) \/ exec' = [exec EXCEPT ![r] = Idle]
      BY <1>3 DEF GetRequestTask
    <3>3. CASE At(r, "traverse", NoErr)
      BY <3>1, <3>3, AtFields
    <3>4. CASE exec' = [exec EXCEPT ![r] = Idle]
      BY <3>4, IdleFields
    <3> QED BY <3>2, <3>3, <3>4
  <2>2. 0 \in 0..MaxItems /\ TRUE \in BOOLEAN
    OBVIOUS
  <2>3. [loader EXCEPT ![r].exists = TRUE] \in [Requests -> Loaders]
    BY <2>2, LoaderFields, Zenon
  <2>4. /\ state' \in [Requests -> {"new", "Queued", "Running", "Paused", "terminated"}]
        /\ loader' \in [Requests -> Loaders]
    BY <1>3, <2>3 DEF GetRequestTask, SetState
  <2> QED BY <1>3, <2>1, <2>4 DEF GetRequestTask, walk, inputs
<1>4. CASE TraverseReturns(r)
  <2>1. exec' \in [Requests -> Executions]
    BY <1>1, <1>4, AtFields DEF TraverseReturns, Steps, TaskErrors
  <2> QED BY <1>4, <2>1 DEF TraverseReturns, status, walk, inputs
<1>5. CASE LoadLink(r)
  <2>1. (IF exec[r].requestSent THEN "advance" ELSE "open") \in {"open", "advance"}
    OBVIOUS
  <2>2. exec' \in [Requests -> Executions] /\ loader' \in [Requests -> Loaders]
    BY <1>5, <2>1, ReadFields DEF LoadLink
  <2> QED BY <1>5, <2>2 DEF LoadLink, status, walk, inputs
<1>6. CASE GoOnline(r)
  <2>1. exec' \in [Requests -> Executions]
    <3>1. "request" \in Steps
      BY DEF Steps
    <3>2. [exec[r] EXCEPT !.at = "request", !.requestSent = TRUE] \in Executions
      <4>1. exec[r] \in Executions
        OBVIOUS
      <4> QED BY <3>1, <4>1 DEF Executions
    <3> QED BY <1>6, <3>2 DEF GoOnline
  <2>2. 0 \in 0..MaxItems /\ TRUE \in BOOLEAN
    OBVIOUS
  <2>3. loader' \in [Requests -> Loaders]
    BY <1>6, <2>2, LoaderFields, Zenon DEF GoOnline, SetRemoteOnline
  <2> QED BY <1>6, <2>1, <2>3 DEF GoOnline, status, walk, inputs
<1>7. CASE StartRemoteRequest(r)
  <2>1. exec' \in [Requests -> Executions]
    BY <1>1, <1>7, AtFields DEF StartRemoteRequest, Steps
  <2> QED BY <1>7, <2>1 DEF StartRemoteRequest, status, walk, inputs
<1>8. CASE RetryLastLoad(r)
  <2>1. CASE BlockReadOpener(r, "advance")
    <3>1. exec' \in [Requests -> Executions] /\ loader' \in [Requests -> Loaders]
      BY <2>1, ReadFields
    <3> QED BY <1>8, <3>1 DEF RetryLastLoad, status, walk, inputs
  <2>2. CASE /\ loader' = loader
             /\ \E err \in {NoErr, "missing", "incorrect"} : At(r, "advance", err)
    <3>1. exec' \in [Requests -> Executions]
      BY <2>2, AtFields DEF Steps, TaskErrors
    <3> QED BY <1>8, <2>2, <3>1 DEF RetryLastLoad, status, walk, inputs
  <2>3. CASE loader' = loader /\ exec' = [exec EXCEPT ![r].usedRemote = FALSE]
    <3>1. exec' \in [Requests -> Executions]
      <4>1. exec[r] \in Executions
        OBVIOUS
      <4>2. [exec[r] EXCEPT !.usedRemote = FALSE] \in Executions
        BY <4>1 DEF Executions
      <4> QED BY <2>3, <4>2
    <3> QED BY <1>8, <2>3, <3>1 DEF RetryLastLoad, status, walk, inputs
  <2> QED BY <1>8, <2>1, <2>2, <2>3 DEF RetryLastLoad
<1>9. CASE AdvanceTraversal(r)
  <2>1. exec[r].err \in {NoErr, "missing", "incorrect"} /\ linksLeft[r] > 0
    BY <1>9 DEF AdvanceTraversal, StepOfWorker
  <2>2. exec' \in [Requests -> Executions]
    BY <1>1, <1>9, AtFields DEF AdvanceTraversal, Steps, TaskErrors
  <2>3. linksLeft' \in [Requests -> 0..MaxLinks] /\ broken' \in SUBSET Requests
    BY <1>9, <2>1 DEF AdvanceTraversal, walk
  <2>4. told' \in [Requests -> SUBSET {"invalid", "missing", "incorrect", "failed",
                                       "cancelled", "hook"}]
    BY <1>9, <2>1 DEF AdvanceTraversal, Tell, walk
  <2> QED BY <1>9, <2>2, <2>3, <2>4 DEF AdvanceTraversal, inputs
<1>10. CASE ProcessResult(r)
  <2>1. PICK hookErr \in IF exec[r].err = NoErr THEN IncomingOutcomes ELSE {NoErr} :
          LET err == IF hookErr = NoErr /\ r \in pauseMessages THEN "paused" ELSE hookErr
          IN  At(r, IF err = NoErr THEN "traverse" ELSE "returned", err)
    BY <1>10 DEF ProcessResult
  <2> DEFINE err == IF hookErr = NoErr /\ r \in pauseMessages THEN "paused" ELSE hookErr
             at  == IF err = NoErr THEN "traverse" ELSE "returned"
  <2>2. err \in TaskErrors /\ at \in Steps
    BY HookErrors DEF TaskErrors, Steps
  <2>3. At(r, at, err)
    BY <2>1
  <2> HIDE DEF err, at
  <2>4. exec' \in [Requests -> Executions]
    BY <2>2, <2>3, AtFields
  <2> QED BY <1>10, <2>4 DEF ProcessResult, status, walk, inputs
<1>11. CASE LeaveRemote(r)
  <2>1. exec' \in [Requests -> Executions]
    BY <1>1, <1>11, AtFields DEF LeaveRemote, Steps
  <2>2. 0 \in 0..MaxItems /\ FALSE \in BOOLEAN
    OBVIOUS
  <2>3. loader' \in [Requests -> Loaders]
    <3>1. [loader EXCEPT ![r].open = FALSE] \in [Requests -> Loaders]
      BY <2>2, LoaderFields, Zenon
    <3> QED BY <1>11, <3>1 DEF LeaveRemote, SetRemoteOnline
  <2>4. remote' \in [Requests -> {"unasked", "serving", "over"}]
    BY <1>11, CancelSentTypes DEF LeaveRemote
  <2> QED BY <1>11, <2>1, <2>3, <2>4 DEF LeaveRemote, status, walk, inputs
<1>12. CASE ReportError(r)
  <2>1. exec[r].err \in {"missing", "incorrect", "failed"}
    BY <1>12 DEF ReportError, StepOfWorker
  <2>2. exec' \in [Requests -> Executions]
    BY <1>1, <1>12, AtFields DEF ReportError, Steps
  <2>3. told' \in [Requests -> SUBSET {"invalid", "missing", "incorrect", "failed",
                                       "cancelled", "hook"}]
    BY <1>12, <2>1 DEF ReportError, Tell
  <2> QED BY <1>12, <2>2, <2>3 DEF ReportError, walk, inputs
<1>13. CASE ReleaseRequestTask(r)
  <2>1. exec' \in [Requests -> Executions]
    BY <1>13, IdleFields DEF ReleaseRequestTask
  <2>2. ManagerTypes'
    <3>1. CASE TerminateRequest(r, terminalError[r])
      BY <1>13, <3>1, TerminateTypes DEF ReleaseRequestTask, ManagerTypes, Answered
    <3>2. CASE SetState(r, "Paused") /\ UNCHANGED <<ctxDone, told, loader, canceller>>
      BY <1>13, <3>2 DEF ReleaseRequestTask, ManagerTypes, SetState
    <3>3. CASE UNCHANGED <<state, ctxDone, told, loader, canceller>>
      BY <1>13, <3>3 DEF ReleaseRequestTask, ManagerTypes
    <3> QED BY <1>13, <3>1, <3>2, <3>3 DEF ReleaseRequestTask
  <2> QED BY <1>13, <2>1, <2>2 DEF ReleaseRequestTask, ManagerTypes, walk, inputs
<1>14. CASE AbandonTask(r)
  <2>1. exec' \in [Requests -> Executions]
    BY <1>14, IdleFields DEF AbandonTask
  <2> QED BY <1>14, <2>1 DEF AbandonTask, status, walk, inputs
<1> QED BY <1>2, <1>3, <1>4, <1>5, <1>6, <1>7, <1>8, <1>9, <1>10, <1>11, <1>12, <1>13,
           <1>14 DEF Worker

-----------------------------------------------------------------------------
(* The invariant *)

\* A step that changes nothing of a request keeps what is known of it.
LEMMA OthersKeep ==
  ASSUME NEW q \in Requests, RequestInv(q), shutdown' = shutdown,
         state'[q] = state[q], exec'[q] = exec[q], linksLeft'[q] = linksLeft[q],
         terminalError'[q] = terminalError[q], told'[q] = told[q],
         canceller'[q] = canceller[q], q \in pending' <=> q \in pending,
         q \in ctxDone' <=> q \in ctxDone, q \in callerDone' <=> q \in callerDone
  PROVE  RequestInv(q)'
BY DEF RequestInv, WorkerMatchesState, EndIsExplained, StepOfWorker, UnknownIsIdle,
       CancelHasReason, ResultIsHonest, AnswerIsLast, Active

\* cancelOnError for a reason that is kept, of a request that is in progress: it ends
\* with an explanation, or its worker will find one.
LEMMA CancelStep ==
  ASSUME TypeOK, NEW r \in Requests, RequestInv(r), InProgress(r),
         NEW err \in {NoErr, "cancelled", "failed", "hook"},
         NEW waiter \in {"none", "waiting", "answered"}, NEW items \in 0..MaxItems,
         CancelOnError(r, err, waiter, items),
         err # NoErr \/ r \in callerDone',
         waiter # "answered",
         callerDone \subseteq callerDone',
         UNCHANGED <<shutdown, pending, exec, linksLeft>>
  PROVE  RequestInv(r)'
<1> USE DEF TypeOK, NoErr
<1>1. KeptError(r, err) # NoErr \/ r \in callerDone'
  BY DEF KeptError
<1>2. terminalError'[r] = KeptError(r, err) /\ r \in ctxDone'
  BY DEF CancelOnError, TerminateRequest
<1>3. CASE EndsHere(r)
  <2>1. /\ state'[r] = "terminated"
        /\ KeptError(r, err) # NoErr => told'[r] # {}
    BY <1>3 DEF CancelOnError, TerminateRequest, SetState, Tell
  <2> QED BY <1>1, <1>2, <1>3, <2>1
          DEF RequestInv, WorkerMatchesState, EndIsExplained, StepOfWorker, UnknownIsIdle,
              CancelHasReason, ResultIsHonest, AnswerIsLast, Active, EndsHere, InProgress
<1>4. CASE ~EndsHere(r)
  <2>1. state' = state /\ told' = told /\ canceller'[r] = waiter
    BY <1>4 DEF CancelOnError
  <2> QED BY <1>1, <1>2, <1>4, <2>1
          DEF RequestInv, WorkerMatchesState, EndIsExplained, StepOfWorker, UnknownIsIdle,
              CancelHasReason, ResultIsHonest, AnswerIsLast, Active, EndsHere, InProgress
<1> QED BY <1>3, <1>4

\* The user's calls keep what is known of every request.
LEMMA UserStep ==
  ASSUME IInv, NEW r \in Requests, User(r)
  PROVE  \A q \in Requests : RequestInv(q)'
<1>1. /\ TypeOK /\ RequestInv(r) /\ \A q \in Requests : RequestInv(q)
      /\ loader[r].items \in 0..MaxItems
      /\ canceller[r] \in {"none", "waiting", "answered"}
  BY DEF IInv, TypeOK, Loaders
<1>2. InProgress(r) => canceller[r] # "answered"
  BY <1>1 DEF RequestInv, AnswerIsLast, InProgress
<1>3. \A q \in Requests \ {r} : RequestInv(q)'
  <2> SUFFICES ASSUME NEW q \in Requests \ {r} PROVE RequestInv(q)'
    OBVIOUS
  <2>1. /\ shutdown' = shutdown /\ exec' = exec /\ linksLeft' = linksLeft
        /\ q \in pending' <=> q \in pending
        /\ q \in callerDone' <=> q \in callerDone
    BY DEF User, NewRequest, CancelRequest, CancelRequestAndClose, PauseRequest,
           UnpauseRequest, PushTask, walk, inputs
  <2>2. /\ state'[q] = state[q] /\ terminalError'[q] = terminalError[q]
        /\ told'[q] = told[q] /\ canceller'[q] = canceller[q]
        /\ q \in ctxDone' <=> q \in ctxDone
    BY <1>1 DEF User, NewRequest, CancelRequest, CancelRequestAndClose, PauseRequest,
           UnpauseRequest, CancelOnError, TerminateRequest, SetState, Tell, status, TypeOK
  <2> QED BY <1>1, <2>1, <2>2, OthersKeep
<1>4. CASE NewRequest(r)
  <2>1. /\ shutdown' = shutdown /\ exec' = exec /\ linksLeft' = linksLeft
        /\ ctxDone' = ctxDone /\ callerDone' = callerDone /\ terminalError' = terminalError
        /\ canceller' = canceller
    BY <1>4 DEF NewRequest, walk, inputs
  <2>2. \/ state'[r] = "Queued" /\ r \in pending' /\ told' = told
        \/ state'[r] = "terminated" /\ told'[r] # {} /\ pending' = pending
    <3>1. \/ SetState(r, "Queued") /\ PushTask(r) /\ told' = told
          \/ SetState(r, "terminated") /\ Tell(r, "invalid") /\ pending' = pending
      BY <1>4 DEF NewRequest
    <3> QED BY <1>1, <3>1 DEF SetState, PushTask, Tell, TypeOK
  <2>3. state[r] = "new"
    BY <1>4 DEF NewRequest
  <2>4. r \notin pending /\ exec[r].at = "idle"
    BY <1>1, <2>3 DEF RequestInv, UnknownIsIdle, Idle
  <2>5. RequestInv(r)'
    BY <1>1, <2>1, <2>2, <2>3, <2>4
    DEF RequestInv, WorkerMatchesState, EndIsExplained, StepOfWorker, UnknownIsIdle,
        CancelHasReason, ResultIsHonest, AnswerIsLast, Active
  <2> QED BY <1>3, <2>5
<1>5. CASE CancelRequest(r)
  <2>1. RequestInv(r)'
    BY <1>1, <1>5, CancelStep DEF CancelRequest, walk, NoErr
  <2> QED BY <1>3, <2>1
<1>6. CASE CancelRequestAndClose(r)
  <2>1. callerDone' = callerDone \union {r}
    BY <1>6 DEF CancelRequestAndClose
  <2>2. RequestInv(r)'
    BY <1>1, <1>2, <1>6, <2>1, CancelStep DEF CancelRequestAndClose, walk
  <2> QED BY <1>3, <2>2
<1>7. CASE PauseRequest(r)
  BY <1>1, <1>3, <1>7, OthersKeep DEF PauseRequest, status, walk
<1>8. CASE UnpauseRequest(r)
  <2>1. /\ shutdown' = shutdown /\ exec' = exec /\ linksLeft' = linksLeft
        /\ ctxDone' = ctxDone /\ callerDone' = callerDone /\ terminalError' = terminalError
        /\ canceller' = canceller /\ told' = told
        /\ state[r] = "Paused" /\ state'[r] = "Queued" /\ r \in pending'
    BY <1>1, <1>8 DEF UnpauseRequest, SetState, PushTask, walk, TypeOK
  <2> QED BY <1>1, <1>3, <2>1
          DEF RequestInv, WorkerMatchesState, EndIsExplained, StepOfWorker, UnknownIsIdle,
              CancelHasReason, ResultIsHonest, AnswerIsLast, Active
<1> QED BY <1>4, <1>5, <1>6, <1>7, <1>8 DEF User

\* The peer's answers keep what is known of every request.
LEMMA PeerStep ==
  ASSUME IInv, NEW r \in Requests, Peer(r)
  PROVE  \A q \in Requests : RequestInv(q)'
<1>1. /\ TypeOK /\ RequestInv(r) /\ \A q \in Requests : RequestInv(q)
      /\ loader[r].items \in 0..MaxItems
      /\ canceller[r] \in {"none", "waiting", "answered"}
  BY DEF IInv, TypeOK, Loaders
<1>2. Ingested(r) \subseteq 0..MaxItems
  BY <1>1 DEF Ingested
<1>3. ASSUME NEW code \in {"partial", "completed"}, ProcessResponses(r, code)
      PROVE  \A q \in Requests : RequestInv(q)'
  <2>1. UNCHANGED <<shutdown, state, exec, linksLeft, terminalError, told, canceller, pending,
                    ctxDone, callerDone>>
    BY <1>3 DEF ProcessResponses, Answer, status, walk
  <2> QED BY <1>1, <2>1, OthersKeep
<1>4. ASSUME NEW err \in {"failed", "hook"}, NEW items \in 0..MaxItems,
             CancelOnError(r, err, canceller[r], items), InProgress(r),
             UNCHANGED <<shutdown, pending, exec, linksLeft, callerDone>>
      PROVE  \A q \in Requests : RequestInv(q)'
  <2>1. canceller[r] # "answered"
    BY <1>1, <1>4 DEF RequestInv, AnswerIsLast, InProgress
  <2>2. RequestInv(r)'
    BY <1>1, <1>4, <2>1, CancelStep DEF NoErr
  <2>3. ASSUME NEW q \in Requests \ {r} PROVE RequestInv(q)'
    <3>1. /\ state'[q] = state[q] /\ terminalError'[q] = terminalError[q]
          /\ told'[q] = told[q] /\ canceller'[q] = canceller[q]
          /\ q \in ctxDone' <=> q \in ctxDone
      BY <1>1, <1>4 DEF CancelOnError, TerminateRequest, SetState, Tell, TypeOK
    <3> QED BY <1>1, <1>4, <3>1, OthersKeep
  <2> QED BY <2>2, <2>3
<1>5. CASE ProcessFailure(r)
  BY <1>2, <1>4, <1>5 DEF ProcessFailure, Answer, walk
<1>6. CASE RejectResponse(r)
  BY <1>1, <1>4, <1>6 DEF RejectResponse, walk
<1> QED BY <1>3, <1>5, <1>6 DEF Peer

\* A step of one worker changes nothing of another request.
LEMMA WorkerOthers ==
  ASSUME IInv, NEW r \in Requests, Worker(r), NEW q \in Requests \ {r}
  PROVE  RequestInv(q)'
<1>1. TypeOK /\ RequestInv(q) /\ exec \in [Requests -> Executions]
  BY DEF IInv, TypeOK
<1>2. shutdown' = shutdown /\ callerDone' = callerDone /\ terminalError' = terminalError
  BY DEF Worker, PopTask, GetRequestTask, TraverseReturns, LoadLink, GoOnline,
         StartRemoteRequest, RetryLastLoad, AdvanceTraversal, ProcessResult, LeaveRemote,
         ReportError, ReleaseRequestTask, AbandonTask, status, inputs
<1>3. q \in pending' <=> q \in pending
  BY DEF Worker, PopTask, GetRequestTask, TraverseReturns, LoadLink, GoOnline,
         StartRemoteRequest, RetryLastLoad, AdvanceTraversal, ProcessResult, LeaveRemote,
         ReportError, ReleaseRequestTask, AbandonTask
<1>4. exec'[q] = exec[q]
  BY <1>1, Zenon DEF Worker, PopTask, GetRequestTask, TraverseReturns, LoadLink, GoOnline,
         StartRemoteRequest, RetryLastLoad, AdvanceTraversal, ProcessResult, LeaveRemote,
         ReportError, ReleaseRequestTask, AbandonTask, BlockReadOpener, At
<1>5. /\ state'[q] = state[q] /\ canceller'[q] = canceller[q]
      /\ q \in ctxDone' <=> q \in ctxDone
  <2>1. CASE GetRequestTask(r)
    BY <1>1, <2>1 DEF GetRequestTask, SetState, TypeOK
  <2>2. CASE ReleaseRequestTask(r)
    BY <1>1, <2>2 DEF ReleaseRequestTask, SetState, TerminateRequest, TypeOK
  <2>3. CASE ~GetRequestTask(r) /\ ~ReleaseRequestTask(r)
    BY <2>3 DEF Worker, PopTask, TraverseReturns, LoadLink, GoOnline, StartRemoteRequest,
           RetryLastLoad, AdvanceTraversal, ProcessResult, LeaveRemote, ReportError,
           AbandonTask, status
  <2> QED BY <2>1, <2>2, <2>3
<1>6. linksLeft'[q] = linksLeft[q] /\ told'[q] = told[q]
  <2>1. CASE AdvanceTraversal(r)
    BY <1>1, <2>1 DEF AdvanceTraversal, walk, Tell, TypeOK
  <2>2. CASE ReportError(r) \/ ReleaseRequestTask(r)
    BY <1>1, <2>2 DEF ReportError, ReleaseRequestTask, TerminateRequest, Tell, walk, TypeOK
  <2>3. CASE ~AdvanceTraversal(r) /\ ~ReportError(r) /\ ~ReleaseRequestTask(r)
    BY <2>3 DEF Worker, PopTask, GetRequestTask, TraverseReturns, LoadLink, GoOnline,
           StartRemoteRequest, RetryLastLoad, ProcessResult, LeaveRemote, AbandonTask, status,
           walk
  <2> QED BY <2>1, <2>2, <2>3
<1> QED BY <1>1, <1>2, <1>3, <1>4, <1>5, <1>6, OthersKeep

\* A worker that goes on with its task keeps what is known of its request, if what
\* it carries to the next step is what that step is known to have.
LEMMA GoesOn ==
  ASSUME NEW r \in Requests, RequestInv(r),
         exec[r].at \notin {"idle", "start"}, exec'[r].at \notin {"idle", "start"},
         UNCHANGED <<shutdown, state, pending, ctxDone, callerDone, terminalError, canceller>>,
         linksLeft'[r] > 0 => linksLeft[r] > 0,
         told'[r] = {} => told[r] = {},
         StepOfWorker(r)', ResultIsHonest(r)'
  PROVE  RequestInv(r)'
BY DEF RequestInv, WorkerMatchesState, EndIsExplained, StepOfWorker, UnknownIsIdle,
       CancelHasReason, AnswerIsLast, Active, Idle

\* A step of a worker keeps what is known of its request.
LEMMA WorkerStep ==
  ASSUME IInv, NEW r \in Requests, Worker(r)
  PROVE  RequestInv(r)'
<1>1. TypeOK /\ RequestInv(r)
  BY DEF IInv
<1>2. /\ exec \in [Requests -> Executions] /\ exec[r].at \in Steps
      /\ exec[r].err \in TaskErrors /\ NoErr \in TaskErrors
      /\ linksLeft \in [Requests -> 0..MaxLinks] /\ linksLeft[r] \in 0..MaxLinks
  BY <1>1 DEF TypeOK, Executions, TaskErrors
<1>3. ASSUME NEW at \in Steps, NEW err \in TaskErrors, At(r, at, err)
      PROVE  exec'[r].at = at /\ exec'[r].err = err
  BY <1>2, <1>3, AtFields
<1>4. CASE PopTask(r)
  <2>1. exec'[r].at = "start" /\ exec'[r].err = NoErr
    BY <1>2, <1>3, <1>4 DEF PopTask, Steps
  <2>2. r \in pending /\ r \notin pending'
        /\ UNCHANGED <<shutdown, state, ctxDone, callerDone, terminalError, canceller, told,
                       linksLeft>>
    BY <1>4 DEF PopTask, status, walk, inputs
  <2> QED BY <1>1, <2>1, <2>2
          DEF RequestInv, WorkerMatchesState, EndIsExplained, StepOfWorker, UnknownIsIdle,
              CancelHasReason, ResultIsHonest, AnswerIsLast, Active
<1>5. CASE GetRequestTask(r)
  <2>1. /\ exec[r].at = "start" /\ ~shutdown
        /\ UNCHANGED <<shutdown, pending, ctxDone, callerDone, terminalError, canceller, told,
                       linksLeft>>
    BY <1>5 DEF GetRequestTask, walk, inputs
  <2>2. \/ state'[r] = "Running" /\ exec'[r].at = "traverse" /\ InProgress(r)
        \/ state' = state /\ exec'[r] = Idle /\ exec'[r].at = "idle" /\ ~InProgress(r)
    BY <1>1, <1>2, <1>3, <1>5, IdleFields DEF GetRequestTask, SetState, TypeOK, Steps
  <2> QED BY <1>1, <2>1, <2>2
          DEF RequestInv, WorkerMatchesState, EndIsExplained, StepOfWorker, UnknownIsIdle,
              CancelHasReason, ResultIsHonest, AnswerIsLast, Active, InProgress
<1>6. CASE TraverseReturns(r)
  <2>1. /\ exec[r].at = "traverse" /\ exec'[r].at = "returned"
        /\ \/ exec'[r].err = NoErr /\ linksLeft[r] = 0
           \/ exec'[r].err = "failed"
           \/ exec'[r].err = "context" /\ shutdown
    BY <1>2, <1>3, <1>6 DEF TraverseReturns, IsComplete, Steps, TaskErrors
  <2>2. UNCHANGED <<shutdown, state, pending, ctxDone, callerDone, terminalError, canceller,
                    linksLeft, told>>
    BY <1>6 DEF TraverseReturns, status, walk, inputs
  <2> QED BY <1>1, <2>1, <2>2, GoesOn DEF StepOfWorker, ResultIsHonest, NoErr
<1>7. ASSUME NEW missing \in {"open", "advance"}, BlockReadOpener(r, missing),
             exec[r].at \in {"traverse", "retry"}, linksLeft[r] > 0,
             UNCHANGED <<shutdown, state, pending, ctxDone, callerDone, terminalError,
                         canceller, linksLeft, told>>
      PROVE  RequestInv(r)'
  <2>1. CASE exec'[r] = exec[r]
    BY <1>1, <1>7, <2>1, OthersKeep
  <2>2. CASE /\ exec'[r].at \in {"open", "advance"}
             /\ exec'[r].err \in {NoErr, "missing", "incorrect"}
    BY <1>1, <1>7, <2>2, GoesOn DEF StepOfWorker, ResultIsHonest
  <2> QED BY <1>1, <1>7, <2>1, <2>2, ReadFields
<1>8. CASE LoadLink(r)
  <2>1. linksLeft[r] > 0
    BY <1>2, <1>8 DEF LoadLink, IsComplete
  <2> DEFINE missing == IF exec[r].requestSent THEN "advance" ELSE "open"
  <2>2. missing \in {"open", "advance"} /\ BlockReadOpener(r, missing)
    BY <1>8 DEF LoadLink
  <2> HIDE DEF missing
  <2> QED BY <1>7, <1>8, <2>1, <2>2 DEF LoadLink, status, walk, inputs
<1>9. CASE GoOnline(r)
  <2>1. exec[r].at = "open" /\ exec'[r].at = "request"
    BY <1>2, <1>9 DEF GoOnline, Executions
  <2> QED BY <1>1, <1>9, <2>1, GoesOn
          DEF GoOnline, status, walk, inputs, RequestInv, StepOfWorker, ResultIsHonest
<1>10. CASE StartRemoteRequest(r)
  <2>1. exec[r].at = "request" /\ exec'[r].at = "retry"
    BY <1>2, <1>3, <1>10 DEF StartRemoteRequest, Steps
  <2> QED BY <1>1, <1>10, <2>1, GoesOn
          DEF StartRemoteRequest, status, walk, inputs, RequestInv, StepOfWorker, ResultIsHonest
<1>11. CASE RetryLastLoad(r)
  <2>1. /\ exec[r].at = "retry" /\ linksLeft[r] > 0
        /\ UNCHANGED <<shutdown, state, pending, ctxDone, callerDone, terminalError, canceller,
                       linksLeft, told>>
    BY <1>1, <1>11 DEF RetryLastLoad, status, walk, inputs, RequestInv, StepOfWorker
  <2>2. CASE BlockReadOpener(r, "advance")
    BY <1>7, <2>1, <2>2
  <2>3. CASE \E err \in {NoErr, "missing", "incorrect"} : At(r, "advance", err)
    <3>1. exec'[r].at = "advance" /\ exec'[r].err \in {NoErr, "missing", "incorrect"}
      BY <1>3, <2>3 DEF Steps, TaskErrors
    <3> QED BY <1>1, <2>1, <3>1, GoesOn DEF StepOfWorker, ResultIsHonest
  <2>4. CASE exec' = [exec EXCEPT ![r].usedRemote = FALSE]
    <3>1. exec'[r].at = exec[r].at /\ exec'[r].err = exec[r].err
      BY <1>2, <2>4 DEF Executions
    <3> QED BY <1>1, <2>1, <3>1, GoesOn DEF StepOfWorker, ResultIsHonest
  <2> QED BY <1>11, <2>2, <2>3, <2>4 DEF RetryLastLoad
<1>12. CASE AdvanceTraversal(r)
  <2>1. /\ exec[r].at = "advance" /\ linksLeft[r] > 0
        /\ UNCHANGED <<shutdown, state, pending, ctxDone, callerDone, terminalError, canceller>>
    BY <1>1, <1>12 DEF AdvanceTraversal, inputs, RequestInv, StepOfWorker
  <2>2. \/ exec'[r].at = "result"
        \/ exec'[r].at = "returned" /\ shutdown
        \/ exec'[r].at = "returned" /\ exec'[r].err = "context" /\ r \in ctxDone
    BY <1>2, <1>3, <1>12 DEF AdvanceTraversal, SeesContext, Steps, TaskErrors
  <2>3. told'[r] = {} => told[r] = {}
    BY <1>1, <1>12 DEF AdvanceTraversal, Tell, TypeOK
  <2> QED BY <1>1, <2>1, <2>2, <2>3, GoesOn DEF StepOfWorker, ResultIsHonest, NoErr
<1>13. CASE ProcessResult(r)
  <2>1. PICK hookErr \in IF exec[r].err = NoErr THEN IncomingOutcomes ELSE {NoErr} :
          LET err == IF hookErr = NoErr /\ r \in pauseMessages THEN "paused" ELSE hookErr
          IN  At(r, IF err = NoErr THEN "traverse" ELSE "returned", err)
    BY <1>13 DEF ProcessResult
  <2> DEFINE err == IF hookErr = NoErr /\ r \in pauseMessages THEN "paused" ELSE hookErr
             at  == IF err = NoErr THEN "traverse" ELSE "returned"
  <2>2. /\ err \in TaskErrors /\ at \in Steps /\ at \in {"traverse", "returned"}
        /\ at = "returned" => err \in {"failed", "paused"}
    BY HookErrors DEF TaskErrors, Steps
  <2>3. At(r, at, err)
    BY <2>1
  <2> HIDE DEF err, at
  <2>4. exec'[r].at = at /\ exec'[r].err = err
    BY <1>3, <2>2, <2>3
  <2> QED BY <1>1, <1>13, <2>2, <2>4, GoesOn
          DEF ProcessResult, status, walk, inputs, StepOfWorker, ResultIsHonest, NoErr
<1>14. CASE LeaveRemote(r)
  <2>1. /\ exec[r].at = "returned" /\ exec'[r].err = exec[r].err
        /\ \/ exec'[r].at = "release" /\ exec[r].err \in {NoErr, "context", "paused"}
           \/ exec'[r].at = "report" /\ exec[r].err \notin {NoErr, "context", "paused"}
    BY <1>2, <1>3, <1>14 DEF LeaveRemote, Steps
  <2> QED BY <1>1, <1>2, <1>14, <2>1, GoesOn
          DEF LeaveRemote, status, walk, inputs, RequestInv, StepOfWorker, ResultIsHonest,
              TaskErrors
<1>15. CASE ReportError(r)
  <2>1. exec[r].at = "report" /\ exec'[r].at = "release" /\ exec'[r].err = exec[r].err
    BY <1>2, <1>3, <1>15 DEF ReportError, Steps
  <2>2. told'[r] # {} \/ (r \in ctxDone /\ told' = told)
    BY <1>1, <1>15 DEF ReportError, Tell, TypeOK
  <2>3. exec[r].err \in {"missing", "incorrect", "failed"}
    BY <1>1, <2>1 DEF RequestInv, StepOfWorker
  <2> QED BY <1>1, <1>15, <2>1, <2>2, <2>3, GoesOn
          DEF ReportError, walk, inputs, StepOfWorker, ResultIsHonest, NoErr
<1>16. CASE ReleaseRequestTask(r)
  <2>1. /\ exec[r].at = "release" /\ ~shutdown
        /\ UNCHANGED <<shutdown, pending, callerDone, terminalError, linksLeft>>
    BY <1>16 DEF ReleaseRequestTask, walk, inputs
  <2>2. state[r] = "Running" /\ exec'[r].at = "idle" /\ exec'[r] = Idle
    BY <1>1, <1>2, <1>16, <2>1, IdleFields DEF ReleaseRequestTask, RequestInv, WorkerMatchesState
  <2>3. CASE StaysPaused(r)
    <3>1. state'[r] = "Paused" /\ UNCHANGED <<ctxDone, told, canceller>>
      BY <1>1, <1>16, <2>2, <2>3 DEF ReleaseRequestTask, SetState, InProgress, TypeOK
    <3> QED BY <1>1, <2>1, <2>2, <3>1
            DEF RequestInv, WorkerMatchesState, EndIsExplained, StepOfWorker, UnknownIsIdle,
                CancelHasReason, ResultIsHonest, AnswerIsLast, Active
  <2>4. CASE ~StaysPaused(r)
    <3>1. TerminateRequest(r, terminalError[r])
      BY <1>16, <2>2, <2>4 DEF ReleaseRequestTask, InProgress
    <3>2. /\ state'[r] = "terminated"
          /\ terminalError[r] # NoErr => told'[r] # {}
          /\ told'[r] = {} => told[r] = {}
      <4>1. state'[r] = "terminated"
        BY <1>1, <3>1 DEF TerminateRequest, SetState, TypeOK
      <4>2. /\ terminalError[r] # NoErr => told'[r] = told[r] \union {terminalError[r]}
            /\ terminalError[r] = NoErr => told' = told
        BY <1>1, <3>1 DEF TerminateRequest, Tell, TypeOK
      <4> QED BY <4>1, <4>2
    <3>3. EndIsExplained(r)'
      BY <1>1, <1>2, <2>1, <2>2, <2>4, <3>2
      DEF RequestInv, EndIsExplained, CancelHasReason, ResultIsHonest, StaysPaused, NoErr
    <3> QED BY <1>1, <2>1, <2>2, <3>2, <3>3
            DEF RequestInv, WorkerMatchesState, StepOfWorker, UnknownIsIdle,
                CancelHasReason, ResultIsHonest, AnswerIsLast, Active
  <2> QED BY <2>3, <2>4
<1>17. CASE AbandonTask(r)
  <2>1. /\ exec'[r].at = "idle" /\ exec'[r] = Idle /\ shutdown
        /\ UNCHANGED <<shutdown, state, pending, ctxDone, callerDone, terminalError, canceller,
                       linksLeft, told>>
    BY <1>2, <1>17, IdleFields DEF AbandonTask, status, walk, inputs
  <2> QED BY <1>1, <2>1
          DEF RequestInv, WorkerMatchesState, EndIsExplained, StepOfWorker, UnknownIsIdle,
              CancelHasReason, ResultIsHonest, AnswerIsLast, Active
<1> QED BY <1>4, <1>5, <1>6, <1>8, <1>9, <1>10, <1>11, <1>12, <1>13, <1>14, <1>15, <1>16,
           <1>17 DEF Worker

\* The invariant is inductive.
LEMMA InvStep ==
  ASSUME IInv, [Next]_vars
  PROVE  IInv'
<1>1. ASSUME NEW r \in Requests, User(r) PROVE IInv'
  BY <1>1, UserTypes, UserStep DEF IInv
<1>2. ASSUME NEW r \in Requests, Peer(r) PROVE IInv'
  BY <1>2, PeerTypes, PeerStep DEF IInv
<1>3. ASSUME NEW r \in Requests, Worker(r) PROVE IInv'
  BY <1>3, WorkerTypes, WorkerStep, WorkerOthers DEF IInv, RequestInv
<1>4. CASE Shutdown
  <2>1. TypeOK'
    BY <1>4 DEF IInv, TypeOK, Shutdown, walk, inputs
  <2>2. /\ shutdown' = TRUE
        /\ UNCHANGED <<state, exec, linksLeft, terminalError, told, canceller, pending,
                       callerDone>>
    BY <1>4 DEF Shutdown, walk, inputs
  <2>3. ASSUME NEW q \in Requests PROVE RequestInv(q)'
    BY <2>2
    DEF IInv, RequestInv, WorkerMatchesState, EndIsExplained, StepOfWorker, UnknownIsIdle,
        CancelHasReason, ResultIsHonest, AnswerIsLast, Active
  <2> QED BY <2>1, <2>3 DEF IInv
<1>5. CASE UNCHANGED vars
  <2>1. TypeOK'
    BY <1>5 DEF IInv, TypeOK, vars
  <2>2. ASSUME NEW q \in Requests PROVE RequestInv(q)'
    BY <1>5, OthersKeep DEF IInv, vars
  <2> QED BY <2>1, <2>2 DEF IInv
<1> QED BY <1>1, <1>2, <1>3, <1>4, <1>5 DEF Next

\* The invariant holds at the start.
LEMMA InvInit == Init => IInv
<1> SUFFICES ASSUME Init PROVE IInv
  OBVIOUS
<1>1. TypeOK
  <2>1. exec \in [Requests -> Executions]
    BY DEF Init, Executions, Idle, Steps, TaskErrors, NoErr
  <2>2. loader \in [Requests -> Loaders]
    BY BoundsAssumption DEF Init, Loaders
  <2>3. MaxLinks \in 0..MaxLinks /\ 0 \in 0..MaxCalls /\ 0 \in 0..MaxAnswers
    BY BoundsAssumption
  <2> QED BY <2>1, <2>2, <2>3 DEF Init, TypeOK
<1>2. ASSUME NEW r \in Requests PROVE RequestInv(r)
  BY DEF Init, Idle, RequestInv, WorkerMatchesState, EndIsExplained, StepOfWorker,
         UnknownIsIdle, CancelHasReason, ResultIsHonest, AnswerIsLast, Active
<1> QED BY <1>1, <1>2 DEF IInv

\* The invariant holds in every state of the request manager and its workers.
THEOREM Invariance == Spec => []IInv
<1>1. IInv /\ [Next]_vars => IInv'
  BY InvStep
<1> QED BY <1>1, InvInit, PTL DEF Spec

\* The state of the manager, its workers and the loaders keeps its type: no error
\* but those of the loader, the hooks, the peer and a cancel reaches a caller, no
\* traversal visits more links than it has, and no count leaves its range.
THEOREM TypeCorrect == Spec => []TypeOK
<1>1. IInv => TypeOK
  BY DEF IInv
<1> QED BY <1>1, Invariance, PTL

\* Whatever calls, answers, hooks and shutdown meet, for any number of requests and
\* workers: a running request has a worker, a worker past GetRequestTask has a
\* running request, a queued request has a task and a paused one none (getRequestTask,
\* releaseRequestTask, cancelOnError and the task queue).
THEOREM ExecutorOwnsRunningHolds == Spec => []ExecutorOwnsRunning
<1>1. IInv => ExecutorOwnsRunning
  BY DEF IInv, RequestInv, ExecutorOwnsRunning
<1> QED BY <1>1, Invariance, PTL

\* For traversals of any length: a request that ends before its traversal is complete
\* has an error on its error channel, or its caller's own context is done
\* (terminateRequest, and the executor's advanceTraversal and ExecuteTask).
THEOREM TruncationIsToldHolds == Spec => []TruncationIsTold
<1>1. IInv => TruncationIsTold
  BY DEF IInv, RequestInv, TruncationIsTold
<1> QED BY <1>1, Invariance, PTL

-----------------------------------------------------------------------------
(* The request manager implements the life cycle *)

\* The phases that the states stand for.
LEMMA PhaseOf ==
  /\ Phase("new") = "new"
  /\ Phase("Queued") = "waiting"
  /\ Phase("Running") = "running"
  /\ Phase("Paused") = "paused"
  /\ Phase("terminated") = "over"
BY DEF Phase

\* A step that changes the state of one request, and answers its CancelRequest call
\* at most as it ends, enters a phase of the life cycle.
LEMMA EntersPhase ==
  ASSUME NEW r \in Requests, NEW phases, TypeOK, TypeOK', ~shutdown, shutdown' = shutdown,
         Phase(state'[r]) \in phases,
         \A q \in Requests \ {r} : state'[q] = state[q] /\ canceller'[q] = canceller[q],
         \/ canceller'[r] = "answered" <=> canceller[r] = "answered"
         \/ /\ canceller'[r] = "answered" /\ canceller[r] # "answered"
            /\ state'[r] = "terminated"
  PROVE  Life!Enter(r, phases)
<1> DEFINE phase == [q \in Requests |-> Phase(state[q])]
           reports == [q \in Requests |-> IF canceller[q] = "answered" THEN <<"terminated">>
                                                                        ELSE <<>>]
<1>1. phase' = [phase EXCEPT ![r] = Phase(state'[r])]
  OBVIOUS
<1>2. CASE canceller'[r] = "answered" <=> canceller[r] = "answered"
  <2>1. reports' = reports
    BY <1>2
  <2> QED BY <1>1, <2>1 DEF Life!Enter
<1>3. CASE /\ canceller'[r] = "answered" /\ canceller[r] # "answered"
           /\ state'[r] = "terminated"
  <2>1. Phase(state'[r]) = "over" /\ reports[r] = <<>>
    BY <1>3, PhaseOf
  <2>2. reports' = [reports EXCEPT ![r] = <<"terminated">>]
    BY <1>3
  <2> QED BY <1>1, <2>1, <2>2 DEF Life!Enter
<1> QED BY <1>2, <1>3

\* A step that changes no state and answers no call stutters in the life cycle.
LEMMA LifeStutters ==
  ASSUME UNCHANGED <<state, shutdown>>,
         \A q \in Requests : canceller'[q] = "answered" <=> canceller[q] = "answered"
  PROVE  UNCHANGED Life!vars
BY DEF Life!vars

\* cancelOnError ends a request that waits or is paused, and leaves a running one to
\* its worker.
LEMMA CancelLife ==
  ASSUME TypeOK, TypeOK', NEW r \in Requests, RequestInv(r), InProgress(r),
         NEW err, NEW waiter \in {"none", "waiting"}, NEW items,
         CancelOnError(r, err, waiter, items), ~shutdown, shutdown' = shutdown
  PROVE  Life!Next \/ UNCHANGED Life!vars
<1>1. canceller[r] # "answered"
  BY DEF RequestInv, AnswerIsLast, InProgress
<1>2. CASE EndsHere(r)
  <2>1. /\ state[r] \in {"Queued", "Paused"} /\ state'[r] = "terminated"
        /\ canceller'[r] \in {"none", "answered"}
        /\ \A q \in Requests \ {r} : state'[q] = state[q] /\ canceller'[q] = canceller[q]
    BY <1>2 DEF EndsHere, InProgress, CancelOnError, TerminateRequest, SetState, Answered,
                TypeOK
  <2>2. Life!Enter(r, {"completing", "over"})
    BY <1>1, <2>1, PhaseOf, EntersPhase
  <2>3. Life!End(r)
    BY <2>1, <2>2, PhaseOf DEF Life!End
  <2> QED BY <2>3 DEF Life!Next
<1>3. CASE ~EndsHere(r)
  <2>1. state' = state /\ canceller' = [canceller EXCEPT ![r] = waiter]
    BY <1>3 DEF CancelOnError
  <2> QED BY <1>1, <2>1, LifeStutters DEF TypeOK
<1> QED BY <1>2, <1>3

\* Every step of the manager and its workers is a step of the life cycle, or none.
LEMMA LifeStep ==
  ASSUME IInv, IInv', [Next]_vars
  PROVE  Life!Next \/ UNCHANGED Life!vars
<1> USE DEF IInv
<1>1. ASSUME NEW r \in Requests, User(r) PROVE Life!Next \/ UNCHANGED Life!vars
  <2>1. CASE NewRequest(r)
    <3>1. /\ ~shutdown /\ shutdown' = shutdown /\ canceller' = canceller
          /\ state[r] = "new" /\ state'[r] \in {"Queued", "terminated"}
          /\ \A q \in Requests \ {r} : state'[q] = state[q]
      BY <2>1 DEF NewRequest, SetState, TypeOK
    <3>2. Life!Enter(r, {"waiting", "paused", "completing", "over"})
      BY <3>1, PhaseOf, EntersPhase
    <3>3. Life!Accept(r)
      BY <3>1, <3>2, PhaseOf DEF Life!Accept
    <3> QED BY <3>3 DEF Life!Next
  <2>2. CASE CancelRequest(r)
    BY <2>2, CancelLife DEF CancelRequest, Call
  <2>3. CASE CancelRequestAndClose(r)
    <3>1. canceller[r] \in {"none", "waiting"}
      BY <2>3 DEF CancelRequestAndClose, RequestInv, AnswerIsLast, InProgress, TypeOK
    <3> QED BY <2>3, <3>1, CancelLife DEF CancelRequestAndClose, Call
  <2>4. CASE PauseRequest(r)
    BY <2>4, LifeStutters DEF PauseRequest, status
  <2>5. CASE UnpauseRequest(r)
    <3>1. /\ ~shutdown /\ shutdown' = shutdown /\ canceller' = canceller
          /\ state[r] = "Paused" /\ state'[r] = "Queued"
          /\ \A q \in Requests \ {r} : state'[q] = state[q]
      BY <2>5 DEF UnpauseRequest, Call, SetState, TypeOK
    <3>2. Life!Enter(r, {"waiting"})
      BY <3>1, PhaseOf, EntersPhase
    <3>3. Life!Resume(r)
      BY <3>1, <3>2, PhaseOf DEF Life!Resume
    <3> QED BY <3>3 DEF Life!Next
  <2> QED BY <1>1, <2>1, <2>2, <2>3, <2>4, <2>5 DEF User
<1>2. ASSUME NEW r \in Requests, Peer(r) PROVE Life!Next \/ UNCHANGED Life!vars
  <2>1. InProgress(r) => canceller[r] \in {"none", "waiting"}
    BY DEF RequestInv, AnswerIsLast, InProgress, TypeOK
  <2>2. ASSUME NEW code \in {"partial", "completed"}, ProcessResponses(r, code)
        PROVE  UNCHANGED Life!vars
    BY <2>2, LifeStutters DEF ProcessResponses, status
  <2>3. CASE ProcessFailure(r)
    BY <2>1, <2>3, CancelLife DEF ProcessFailure, Answer
  <2>4. CASE RejectResponse(r)
    BY <2>1, <2>4, CancelLife DEF RejectResponse
  <2> QED BY <1>2, <2>2, <2>3, <2>4 DEF Peer
<1>3. ASSUME NEW r \in Requests, Worker(r) PROVE Life!Next \/ UNCHANGED Life!vars
  <2>1. CASE GetRequestTask(r)
    <3>1. ~shutdown /\ shutdown' = shutdown /\ canceller' = canceller /\ exec[r].at = "start"
      BY <2>1 DEF GetRequestTask
    <3>2. CASE InProgress(r)
      <4>1. /\ state[r] = "Queued" /\ state'[r] = "Running"
            /\ \A q \in Requests \ {r} : state'[q] = state[q]
        BY <2>1, <3>1, <3>2 DEF GetRequestTask, SetState, InProgress, RequestInv,
                                WorkerMatchesState, Active, TypeOK
      <4>2. Life!Enter(r, {"running"})
        BY <3>1, <4>1, PhaseOf, EntersPhase
      <4>3. Life!Start(r)
        BY <4>1, <4>2, PhaseOf DEF Life!Start
      <4> QED BY <4>3 DEF Life!Next
    <3>3. CASE ~InProgress(r)
      BY <2>1, <3>1, <3>3, LifeStutters DEF GetRequestTask
    <3> QED BY <3>2, <3>3
  <2>2. CASE ReleaseRequestTask(r)
    <3>1. ~shutdown /\ shutdown' = shutdown /\ state[r] = "Running"
      BY <2>2 DEF ReleaseRequestTask, RequestInv, WorkerMatchesState
    <3>2. canceller[r] # "answered"
      BY <3>1 DEF RequestInv, AnswerIsLast
    <3>3. /\ state'[r] \in {"Paused", "terminated"}
          /\ state'[r] = "Paused" => canceller' = canceller
          /\ \A q \in Requests \ {r} : state'[q] = state[q] /\ canceller'[q] = canceller[q]
      BY <2>2, <3>1 DEF ReleaseRequestTask, InProgress, SetState, TerminateRequest, TypeOK
    <3>4. Life!Enter(r, {"paused", "completing", "over"})
      BY <3>1, <3>2, <3>3, PhaseOf, EntersPhase
    <3>5. Life!Leave(r)
      BY <3>1, <3>4, PhaseOf DEF Life!Leave
    <3> QED BY <3>5 DEF Life!Next
  <2>3. CASE UNCHANGED <<state, shutdown, canceller>>
    BY <2>3, LifeStutters
  <2> QED BY <1>3, <2>1, <2>2, <2>3
          DEF Worker, PopTask, TraverseReturns, LoadLink, GoOnline, StartRemoteRequest,
              RetryLastLoad, AdvanceTraversal, ProcessResult, LeaveRemote, ReportError,
              AbandonTask, status
<1>4. CASE Shutdown
  BY <1>4 DEF Shutdown, Life!Next, Life!Halt
<1>5. CASE UNCHANGED vars
  BY <1>5, LifeStutters DEF vars
<1> QED BY <1>1, <1>2, <1>3, <1>4, <1>5 DEF Next

\* The safety part of ImplementsLifecycle: a request is accepted once, runs only from
\* the queue, comes back from a pause only through it, never leaves its end, and
\* CancelRequest is answered once and after the end.
THEOREM ImplementsLifecycleSafety == Spec => Life!Init /\ [][Life!Next]_(Life!vars)
<1>1. Init => Life!Init
  BY PhaseOf DEF Init, Life!Init
<1>2. IInv /\ IInv' /\ [Next]_vars => [Life!Next]_(Life!vars)
  BY LifeStep
<1> QED BY <1>1, <1>2, Invariance, PTL DEF Spec

=============================================================================
