------------------------ MODULE ResponseCollectorProofs ------------------------
(***************************************************************************)
(* Proofs about the caller's side of a request, for a traversal, errors,   *)
(* tasks and messages of any number and a channel of any capacity.         *)
(***************************************************************************)
EXTENDS ResponseCollector, SequenceTheorems, TLAPS

-----------------------------------------------------------------------------
(* The inductive invariant *)

MessageNames == {"new", "close", "fail", "other", "task", "release", "paused"}
ErrorNames   == {"nil", "load", "failed", "invalid"}

ResponsesType == [at : {"off", "collect", "closing", "done"}, nodes : BOOLEAN, errs : BOOLEAN,
                  cancel : BOOLEAN, buf : Seq(Nat)]
ErrorsType    == [at : {"off", "collect", "cancelled", "telling", "done"}, errs : BOOLEAN,
                  buf : Seq(ErrorNames)]
GotType       == [nodes : Seq(Nat), cancelled : BOOLEAN]
CountsType    == [nodes : 0..MaxNodes, errs : 0..MaxErrors, tasks : 0..MaxTasks,
                  other : 0..MaxOther]

\* Every variable has its type.
TypeOK ==
  /\ rmDone \in BOOLEAN /\ ctxDone \in BOOLEAN /\ reqDone \in BOOLEAN
  /\ closed \in BOOLEAN /\ dropped \in BOOLEAN /\ late \in BOOLEAN
  /\ newCall \in {"none", "waiting", "returned", "empty"}
  /\ messages \in Seq(MessageNames)
  /\ manager \in {"loop", "reply", "report", "stop", "stopped"}
  /\ request \in {"none", "queued", "running", "paused", "refused", "ended"}
  /\ terminalError \in {"nil", "failed"}
  /\ visitor \in {"none", "walking", "sending", "stopped"}
  /\ worker \in {"none", "asking", "working", "sending", "releasing"}
  /\ errBuffer \in Seq(ErrorNames)
  /\ responses \in ResponsesType
  /\ errors \in ErrorsType
  /\ got \in GotType
  /\ counts \in CountsType

Increasing(s) == \A i, j \in DOMAIN s : i < j => s[i] < s[j]

\* The nodes that were received by one of the goroutines: not the one on offer.
Passed == IF visitor = "sending" THEN counts.nodes - 1 ELSE counts.nodes

\* What was read is in order, what is buffered comes later, and none of it is ahead
\* of the first p nodes of the traversal.
InOrder(read, buffered, p) ==
  /\ Increasing(read)
  /\ Increasing(buffered)
  /\ \A i \in DOMAIN read : read[i] <= p
  /\ \A i \in DOMAIN buffered : buffered[i] <= p
  /\ \A i \in DOMAIN read : \A j \in DOMAIN buffered : read[i] < buffered[j]

\* What was read and what is buffered are the first p nodes of the traversal.
Everything(read, buffered, p) ==
  /\ \A i \in DOMAIN read : read[i] = i
  /\ \A i \in DOMAIN buffered : buffered[i] = Len(read) + i
  /\ Len(read) + Len(buffered) = p

\* The caller has read a part of the traversal in order, and what is buffered for it
\* comes later.
NodesInOrder ==
  /\ InOrder(got.nodes, responses.buf, Passed)
  /\ visitor = "sending" => counts.nodes > 0

\* While nothing is dropped, what was read has no gaps, and until the collector stops
\* what was read and what is buffered is everything.
NodesWithoutGaps ==
  ~dropped =>
    /\ \A i \in DOMAIN got.nodes : got.nodes[i] = i
    /\ Len(got.nodes) <= Passed
    /\ responses.at \in {"off", "collect"} => Everything(got.nodes, responses.buf, Passed)

\* Nothing is collected before the call returns.
Started ==
  /\ newCall \in {"none", "waiting"} => responses.at = "off" /\ errors.at = "off"
  /\ errors.at = "off" => errors.errs = TRUE

\* Why a goroutine stops collecting.
StopsForAReason ==
  /\ responses.at = "closing" => ctxDone
  /\ responses.at = "done" /\ ~ctxDone /\ ~rmDone => responses.buf = <<>>

\* The messages of the call and of a worker.
CallMessages    == {"new"}
TaskMessages    == {"task"}
ReleaseMessages == {"release", "paused"}
WorkerMessages  == TaskMessages \union ReleaseMessages

\* At most one message of the set S is in the channel, or none.
Single(ms, S)  == \A i, j \in DOMAIN ms : ms[i] \in S /\ ms[j] \in S => i = j
Without(ms, S) == \A i \in DOMAIN ms : ms[i] \notin S

\* The call and the worker have at most one message each in the channel, and wait for
\* its answer meanwhile.
MessagesMatch ==
  /\ Single(messages, CallMessages)
  /\ Single(messages, WorkerMessages)
  /\ Without(messages, CallMessages) \/ (request = "none" /\ newCall # "none")
  /\ Without(messages, TaskMessages) \/ worker = "asking"
  /\ Without(messages, ReleaseMessages) \/ worker = "releasing"
  /\ newCall = "none" => request = "none"

\* A worker has the request only while it is running and not being terminated, and
\* nothing is terminated after the channels are closed.
TerminatedOnce ==
  ~rmDone =>
    /\ MessagesMatch
    /\ worker \in {"working", "sending", "releasing"} => request = "running" /\ manager = "loop"
    /\ manager \in {"report", "stop"} => request \in {"queued", "running", "paused"}
    /\ closed => request \in {"refused", "ended"}

\* The channel of errors is only left when it is closed and empty, and by then the
\* caller knows that its context ended, if it did.
ErrorsInv ==
  /\ late => ctxDone
  /\ ~rmDone /\ ~errors.errs => closed /\ errBuffer = <<>>
  /\ ~rmDone /\ ~errors.errs /\ ~got.cancelled /\ errors.at \in {"collect", "done"} => ~late
  /\ ~rmDone /\ errors.at = "done" /\ ~got.cancelled => errors.buf = <<>> /\ ~errors.errs

-----------------------------------------------------------------------------
(* Types *)

\* The fields of the collectors, and what a step makes of them.
LEMMA ResponsesFields ==
  ASSUME NEW r \in ResponsesType
  PROVE  /\ r.at \in {"off", "collect", "closing", "done"} /\ r.buf \in Seq(Nat)
         /\ r.nodes \in BOOLEAN /\ r.errs \in BOOLEAN /\ r.cancel \in BOOLEAN
         /\ \A a \in {"off", "collect", "closing", "done"} : [r EXCEPT !.at = a] \in ResponsesType
         /\ [r EXCEPT !.nodes = FALSE] \in ResponsesType
         /\ [r EXCEPT !.errs = FALSE] \in ResponsesType
         /\ [r EXCEPT !.cancel = FALSE] \in ResponsesType
         /\ \A b \in Seq(Nat) : [r EXCEPT !.buf = b] \in ResponsesType
         /\ NextResponses(r) \in ResponsesType /\ NextClosing(r) \in ResponsesType
<1>1. \A a \in {"off", "collect", "closing", "done"} : [r EXCEPT !.at = a] \in ResponsesType
  BY DEF ResponsesType
<1>2. \A b \in Seq(Nat) : [r EXCEPT !.buf = b] \in ResponsesType
  BY DEF ResponsesType
<1>3. /\ [r EXCEPT !.nodes = FALSE] \in ResponsesType
      /\ [r EXCEPT !.errs = FALSE] \in ResponsesType
      /\ [r EXCEPT !.cancel = FALSE] \in ResponsesType
  BY DEF ResponsesType
<1>4. /\ r.at \in {"off", "collect", "closing", "done"} /\ r.buf \in Seq(Nat)
      /\ r.nodes \in BOOLEAN /\ r.errs \in BOOLEAN /\ r.cancel \in BOOLEAN
  BY DEF ResponsesType
<1> QED BY <1>1, <1>2, <1>3, <1>4 DEF NextResponses, NextClosing

\* The same for the goroutine of the errors.
LEMMA ErrorsFields ==
  ASSUME NEW e \in ErrorsType
  PROVE  /\ e.at \in {"off", "collect", "cancelled", "telling", "done"} /\ e.errs \in BOOLEAN
         /\ e.buf \in Seq(ErrorNames)
         /\ \A a \in {"off", "collect", "cancelled", "telling", "done"} :
              [e EXCEPT !.at = a] \in ErrorsType
         /\ [e EXCEPT !.errs = FALSE] \in ErrorsType
         /\ \A b \in Seq(ErrorNames) : [e EXCEPT !.buf = b] \in ErrorsType
         /\ NextErrors(e) \in ErrorsType /\ AfterClose(e) \in ErrorsType
<1>1. \A a \in {"off", "collect", "cancelled", "telling", "done"} :
        [e EXCEPT !.at = a] \in ErrorsType
  BY DEF ErrorsType
<1>2. /\ [e EXCEPT !.errs = FALSE] \in ErrorsType
      /\ \A b \in Seq(ErrorNames) : [e EXCEPT !.buf = b] \in ErrorsType
  BY DEF ErrorsType
<1>3. /\ e.at \in {"off", "collect", "cancelled", "telling", "done"} /\ e.errs \in BOOLEAN
      /\ e.buf \in Seq(ErrorNames)
  BY DEF ErrorsType
<1> QED BY <1>1, <1>2, <1>3 DEF NextErrors, AfterClose

\* What the caller has read, and the bounds.
LEMMA HistoryFields ==
  ASSUME NEW g \in GotType, NEW n \in CountsType
  PROVE  /\ g.nodes \in Seq(Nat) /\ g.cancelled \in BOOLEAN
         /\ \A s \in Seq(Nat) : [g EXCEPT !.nodes = s] \in GotType
         /\ [g EXCEPT !.cancelled = TRUE] \in GotType
         /\ n.nodes \in 0..MaxNodes
         /\ n.nodes < MaxNodes => [n EXCEPT !.nodes = @ + 1] \in CountsType
         /\ n.errs < MaxErrors => [n EXCEPT !.errs = @ + 1] \in CountsType
         /\ n.tasks < MaxTasks => [n EXCEPT !.tasks = @ + 1] \in CountsType
         /\ n.other < MaxOther => [n EXCEPT !.other = @ + 1] \in CountsType
<1>1. /\ g.nodes \in Seq(Nat) /\ g.cancelled \in BOOLEAN
      /\ \A s \in Seq(Nat) : [g EXCEPT !.nodes = s] \in GotType
      /\ [g EXCEPT !.cancelled = TRUE] \in GotType
  BY DEF GotType
<1>2. /\ n.nodes \in 0..MaxNodes
      /\ n.nodes < MaxNodes => [n EXCEPT !.nodes = @ + 1] \in CountsType
      /\ n.errs < MaxErrors => [n EXCEPT !.errs = @ + 1] \in CountsType
  BY CollectorAssumption DEF CountsType
<1>3. /\ n.tasks < MaxTasks => [n EXCEPT !.tasks = @ + 1] \in CountsType
      /\ n.other < MaxOther => [n EXCEPT !.other = @ + 1] \in CountsType
  BY CollectorAssumption DEF CountsType
<1> QED BY <1>1, <1>2, <1>3

\* The steps of one action over the messages: a message is put last, or taken from
\* the front.
LEMMA MessagesKept ==
  ASSUME NEW s \in Seq(MessageNames)
  PROVE  /\ \A m \in MessageNames : Append(s, m) \in Seq(MessageNames)
         /\ s # <<>> => Head(s) \in MessageNames /\ Tail(s) \in Seq(MessageNames)
  BY EmptySeq, AppendProperties, HeadTailProperties

\* Every action keeps the types.
THEOREM TypeCorrect == Spec => []TypeOK
<1> USE DEF contexts, status, senders, collectors, history
<1>1. Init => TypeOK
  <2>1. ASSUME Init PROVE responses \in ResponsesType /\ errors \in ErrorsType /\ got \in GotType
    BY <2>1 DEF Init, ResponsesType, ErrorsType, GotType
  <2>2. ASSUME Init PROVE counts \in CountsType
    BY <2>2, CollectorAssumption DEF Init, CountsType
  <2>3. ASSUME Init PROVE messages \in Seq(MessageNames) /\ errBuffer \in Seq(ErrorNames)
    BY <2>3 DEF Init
  <2> QED BY <2>1, <2>2, <2>3 DEF Init, TypeOK
<1>2. ASSUME TypeOK, [Next]_vars PROVE TypeOK'
  <2> USE <1>2
  <2>1. /\ responses \in ResponsesType /\ errors \in ErrorsType /\ got \in GotType
        /\ counts \in CountsType /\ messages \in Seq(MessageNames)
        /\ errBuffer \in Seq(ErrorNames)
    BY DEF TypeOK
  <2>2. ASSUME NEW m, Head1(m) PROVE messages' \in Seq(MessageNames)
    BY <2>1, <2>2, MessagesKept DEF Head1
  <2>3. ASSUME NEW m \in MessageNames, NEW d, Send(m, d) PROVE messages' \in Seq(MessageNames)
    BY <2>1, <2>3, MessagesKept DEF Send
  <2>4. /\ "new" \in MessageNames /\ "task" \in MessageNames /\ "release" \in MessageNames
        /\ "paused" \in MessageNames /\ "close" \in MessageNames
        /\ "other" \in MessageNames /\ "fail" \in MessageNames
    BY DEF MessageNames
  <2>5. /\ responses.buf \in Seq(Nat) /\ errors.buf \in Seq(ErrorNames)
        /\ got.nodes \in Seq(Nat) /\ counts.nodes \in Nat
    <3>1. responses.buf \in Seq(Nat)
      BY <2>1, ResponsesFields
    <3>2. errors.buf \in Seq(ErrorNames)
      BY <2>1, ErrorsFields
    <3>3. got.nodes \in Seq(Nat) /\ counts.nodes \in 0..MaxNodes
      BY <2>1, HistoryFields
    <3> QED BY <3>1, <3>2, <3>3, CollectorAssumption
  <2>6. CASE CallerContextEnds
    BY <2>6 DEF CallerContextEnds, TypeOK
  <2>7. CASE Shutdown
    BY <2>7 DEF Shutdown, TypeOK
  <2>8. CASE NewRequest
    <3>1. messages' \in Seq(MessageNames)
      BY <2>8, <2>3, <2>4 DEF NewRequest
    <3> QED BY <2>8, <3>1 DEF NewRequest, TypeOK
  <2>9. CASE EmptyResponse
    BY <2>9 DEF EmptyResponse, TypeOK
  <2>10. CASE ReadResponse
    <3>1. responses.buf \in Seq(Nat) /\ responses.buf # <<>> /\ got.nodes \in Seq(Nat)
      BY <2>1, <2>10, ResponsesFields, HistoryFields DEF ReadResponse
    <3>2. /\ Tail(responses.buf) \in Seq(Nat) /\ Head(responses.buf) \in Nat
          /\ Append(got.nodes, Head(responses.buf)) \in Seq(Nat)
      BY <3>1
    <3>4. [responses EXCEPT !.buf = Tail(@)] \in ResponsesType
      BY <2>1, <3>2, ResponsesFields
    <3>5. got' \in GotType
      BY <2>1, <2>10, <3>2, HistoryFields DEF ReadResponse
    <3>3. responses' \in ResponsesType
      BY <2>10, <3>4, ResponsesFields DEF ReadResponse
    <3> QED BY <2>10, <3>3, <3>5 DEF ReadResponse, TypeOK
  <2>11. CASE ReadError
    <3>4. errors.buf \in Seq(ErrorNames) /\ errors.buf # <<>>
      BY <2>1, <2>11, ErrorsFields DEF ReadError
    <3>1. Tail(errors.buf) \in Seq(ErrorNames)
      BY <3>4
    <3>2. [errors EXCEPT !.buf = Tail(@)] \in ErrorsType
      BY <2>1, <3>1, ErrorsFields
    <3>3. errors' \in ErrorsType
      BY <2>11, <3>2, ErrorsFields DEF ReadError
    <3> QED BY <2>11, <3>3 DEF ReadError, TypeOK
  <2>12. CASE ReadCancelled
    <3>1. got' \in GotType
      BY <2>1, <2>12, HistoryFields DEF ReadCancelled
    <3>2. [errors EXCEPT !.at = "collect"] \in ErrorsType
            /\ [errors EXCEPT !.at = "done"] \in ErrorsType
      BY <2>1, ErrorsFields
    <3>3. errors' \in ErrorsType
      BY <2>12, <3>2, ErrorsFields DEF ReadCancelled
    <3> QED BY <2>12, <3>1, <3>3 DEF ReadCancelled, TypeOK
  <2>13. CASE HandleNew
    <3>1. messages' \in Seq(MessageNames)
      BY <2>13, <2>2 DEF HandleNew
    <3>2. request' \in {"queued", "refused"} /\ closed' \in BOOLEAN
      BY <2>13 DEF HandleNew, TypeOK
    <3>3. errBuffer' \in Seq(ErrorNames)
      <4>1. <<"invalid">> \in Seq(ErrorNames)
        BY DEF ErrorNames
      <4> QED BY <2>13, <2>1, <4>1 DEF HandleNew
    <3> QED BY <2>13, <3>1, <3>2, <3>3 DEF HandleNew, TypeOK
  <2>14. CASE Reply
    <3>1. responses' \in ResponsesType /\ errors' \in ErrorsType
      BY <2>1, <2>14, ResponsesFields, ErrorsFields DEF Reply
    <3> QED BY <2>14, <3>1 DEF Reply, TypeOK
  <2>15. ASSUME NEW m, NEW e \in {"nil", "failed"}, HandleQuietly(m, e) PROVE TypeOK'
    <3>1. messages' \in Seq(MessageNames)
      BY <2>15, <2>2 DEF HandleQuietly
    <3>2. /\ terminalError' \in {"nil", "failed"} /\ reqDone' \in BOOLEAN
          /\ manager' \in {"loop", "reply", "report", "stop", "stopped"}
      BY <2>15 DEF HandleQuietly, Cancel, TypeOK
    <3> QED BY <2>15, <3>1, <3>2 DEF HandleQuietly, TypeOK
  <2>16. CASE HandleOther
    <3>1. messages' \in Seq(MessageNames)
      BY <2>16, <2>2 DEF HandleOther
    <3> QED BY <2>16, <3>1 DEF HandleOther, TypeOK
  <2>17. CASE HandleTask
    <3>1. messages' \in Seq(MessageNames)
      BY <2>17, <2>2 DEF HandleTask
    <3>2. /\ request' \in {"none", "queued", "running", "paused", "refused", "ended"}
          /\ visitor' \in {"none", "walking", "sending", "stopped"}
          /\ worker' \in {"none", "working"}
      BY <2>17 DEF HandleTask, TypeOK
    <3> QED BY <2>17, <3>1, <3>2 DEF HandleTask, TypeOK
  <2>18. CASE HandleRelease
    <3>1. messages' \in Seq(MessageNames)
      BY <2>18, <2>2 DEF HandleRelease
    <3>2. /\ request' \in {"none", "queued", "running", "paused", "refused", "ended"}
          /\ manager' \in {"loop", "reply", "report", "stop", "stopped"}
      BY <2>18 DEF HandleRelease, TypeOK
    <3> QED BY <2>18, <3>1, <3>2 DEF HandleRelease, TypeOK
  <2>19. CASE CloseChannels
    BY <2>19 DEF CloseChannels, TypeOK
  <2>20. CASE ManagerStops
    BY <2>20 DEF ManagerStops, TypeOK
  <2>21. ASSUME NEW m \in {"other", "fail"}, OtherMessage(m) PROVE TypeOK'
    <3>1. counts' \in CountsType
      BY <2>1, <2>21, HistoryFields DEF OtherMessage
    <3>2. messages' \in Seq(MessageNames)
      BY <2>1, <2>4, <2>21, MessagesKept DEF OtherMessage
    <3> QED BY <2>21, <3>1, <3>2 DEF OtherMessage, TypeOK
  <2>22. CASE Visit
    <3>1. counts' \in CountsType /\ visitor' \in {"sending", "stopped"}
      BY <2>1, <2>22, HistoryFields DEF Visit
    <3> QED BY <2>22, <3>1 DEF Visit, TypeOK
  <2>23. CASE VisitorCancelled
    BY <2>23 DEF VisitorCancelled, TypeOK
  <2>24. CASE TakeTask
    <3>1. counts' \in CountsType
      BY <2>1, <2>24, HistoryFields DEF TakeTask
    <3>2. messages' \in Seq(MessageNames)
      BY <2>24, <2>3, <2>4 DEF TakeTask
    <3> QED BY <2>24, <3>1, <3>2 DEF TakeTask, TypeOK
  <2>25. CASE OfferError
    <3>1. counts' \in CountsType
      BY <2>1, <2>25, HistoryFields DEF OfferError
    <3> QED BY <2>25, <3>1 DEF OfferError, TypeOK
  <2>26. CASE WorkerCancelled
    BY <2>26 DEF WorkerCancelled, TypeOK
  <2>27. ASSUME NEW m \in {"release", "paused"}, ReleaseTask(m) PROVE TypeOK'
    <3>1. messages' \in Seq(MessageNames)
      BY <2>27, <2>3, <2>4 DEF ReleaseTask
    <3> QED BY <2>27, <3>1 DEF ReleaseTask, TypeOK
  <2>28. CASE ReceiveNode
    <3>1. Append(responses.buf, counts.nodes) \in Seq(Nat)
      BY <2>5
    <3>2. responses' \in ResponsesType
      BY <2>1, <2>28, <3>1, ResponsesFields DEF ReceiveNode
    <3> QED BY <2>28, <3>2 DEF ReceiveNode, TypeOK
  <2>29. CASE ResponsesClosed
    <3>1. [responses EXCEPT !.nodes = FALSE] \in ResponsesType
      BY <2>1, ResponsesFields
    <3>2. responses' \in ResponsesType
      BY <2>29, <3>1, ResponsesFields DEF ResponsesClosed
    <3> QED BY <2>29, <3>2 DEF ResponsesClosed, TypeOK
  <2>30. CASE ResponsesCancelled
    <3>1. responses' \in ResponsesType
      BY <2>1, <2>30, ResponsesFields DEF ResponsesCancelled, CancelRequestAndClose
    <3> QED BY <2>30, <3>1 DEF ResponsesCancelled, TypeOK
  <2>31. CASE SendCancel
    <3>1. [responses EXCEPT !.cancel = FALSE] \in ResponsesType
      BY <2>1, ResponsesFields
    <3>2. responses' \in ResponsesType
      BY <2>31, <3>1, ResponsesFields DEF SendCancel
    <3>3. messages' \in Seq(MessageNames)
      BY <2>1, <2>4, <2>31, MessagesKept DEF SendCancel
    <3> QED BY <2>31, <3>2, <3>3 DEF SendCancel, TypeOK
  <2>32. CASE ResponsesStopped
    <3>1. responses' \in ResponsesType
      BY <2>1, <2>32, ResponsesFields DEF ResponsesStopped
    <3> QED BY <2>32, <3>1 DEF ResponsesStopped, TypeOK
  <2>33. CASE ReceiveError
    <3>1. Offered \in ErrorNames
      BY DEF Offered, TypeOK, ErrorNames
    <3>2. Append(errors.buf, Offered) \in Seq(ErrorNames)
      BY <2>5, <3>1
    <3>3. errors' \in ErrorsType
      BY <2>1, <2>33, <3>2, ErrorsFields DEF ReceiveError
    <3>4. /\ late' \in BOOLEAN
          /\ manager' \in {"loop", "reply", "report", "stop", "stopped"}
          /\ worker' \in {"none", "asking", "working", "sending", "releasing"}
      BY <2>33 DEF ReceiveError, TypeOK
    <3> QED BY <2>33, <3>3, <3>4 DEF ReceiveError, TypeOK
  <2>34. CASE ReceiveBuffered
    <3>1. Head(errBuffer) \in ErrorNames
      BY <2>1, <2>34 DEF ReceiveBuffered
    <3>2. Append(errors.buf, Head(errBuffer)) \in Seq(ErrorNames)
      BY <2>5, <3>1
    <3>3. errors' \in ErrorsType
      BY <2>1, <2>34, <3>2, ErrorsFields DEF ReceiveBuffered
    <3>4. late' \in BOOLEAN
      BY <2>34 DEF ReceiveBuffered, TypeOK
    <3>5. errBuffer' \in Seq(ErrorNames)
      BY <2>34 DEF ReceiveBuffered
    <3> QED BY <2>34, <3>3, <3>4, <3>5 DEF ReceiveBuffered, TypeOK
  <2>35. CASE ErrorsClosed
    <3>1. /\ [errors EXCEPT !.errs = FALSE] \in ErrorsType
          /\ [responses EXCEPT !.errs = FALSE] \in ResponsesType
      BY <2>1, ErrorsFields, ResponsesFields
    <3>2. errors' \in ErrorsType /\ responses' \in ResponsesType
      BY <2>1, <2>35, <3>1, ErrorsFields, ResponsesFields DEF ErrorsClosed
    <3> QED BY <2>35, <3>2 DEF ErrorsClosed, TypeOK
  <2>36. CASE ErrorsCancelled
    <3>1. errors' \in ErrorsType
      BY <2>1, <2>36, ErrorsFields DEF ErrorsCancelled
    <3> QED BY <2>36, <3>1 DEF ErrorsCancelled, TypeOK
  <2>37. CASE ErrorsStopped
    <3>1. errors' \in ErrorsType
      BY <2>1, <2>37, ErrorsFields DEF ErrorsStopped
    <3> QED BY <2>37, <3>1 DEF ErrorsStopped, TypeOK
  <2>38. CASE UNCHANGED vars
    BY <2>38 DEF vars, TypeOK
  <2> QED BY <2>6, <2>7, <2>8, <2>9, <2>10, <2>11, <2>12, <2>13, <2>14, <2>15, <2>16, <2>17,
             <2>18, <2>19, <2>20, <2>21, <2>22, <2>23, <2>24, <2>25, <2>26, <2>27, <2>28,
             <2>29, <2>30, <2>31, <2>32, <2>33, <2>34, <2>35, <2>36, <2>37, <2>38
      DEF Next, Caller, Reader, Manager, Traversal, Worker, CollectResponses, CollectErrors
<1> QED BY <1>1, <1>2, PTL DEF Spec

-----------------------------------------------------------------------------
(* What is delivered *)

\* Whether the loop of a collector goes on, and nothing else, is decided after a step.
LEMMA LoopDecides ==
  ASSUME NEW r \in ResponsesType
  PROVE  /\ NextResponses(r).buf = r.buf /\ NextClosing(r).buf = r.buf
         /\ NextResponses(r).at \in {r.at, "done"} /\ NextClosing(r).at \in {r.at, "done"}
         /\ NextResponses(r).at = "done" /\ r.at # "done" => r.buf = <<>>
  BY DEF ResponsesType, NextResponses, NextClosing, ResponsesLeft

\* The same for the errors: the loop ends with an empty buffer and a closed channel.
LEMMA ErrorLoopDecides ==
  ASSUME NEW e \in ErrorsType
  PROVE  /\ NextErrors(e).buf = e.buf /\ NextErrors(e).errs = e.errs
         /\ NextErrors(e).at \in {e.at, "done"}
         /\ NextErrors(e).at = "done" /\ e.at # "done" => e.buf = <<>> /\ e.errs = FALSE
  BY DEF ErrorsType, NextErrors

\* The next node of the traversal goes behind what is buffered.
LEMMA Push ==
  ASSUME NEW g \in Seq(Nat), NEW b \in Seq(Nat), NEW n \in Nat, n > 0
  PROVE  /\ InOrder(g, b, n - 1) => InOrder(g, Append(b, n), n)
         /\ Everything(g, b, n - 1) => Everything(g, Append(b, n), n)
<1>1. /\ DOMAIN b = 1..Len(b) /\ DOMAIN Append(b, n) = 1..(Len(b) + 1) /\ Len(b) \in Nat
      /\ Len(Append(b, n)) = Len(b) + 1 /\ Len(g) \in Nat
      /\ \A i \in 1..Len(b) : Append(b, n)[i] = b[i] /\ b[i] \in Nat
      /\ Append(b, n)[Len(b) + 1] = n
      /\ DOMAIN g = 1..Len(g) /\ \A i \in 1..Len(g) : g[i] \in Nat
  OBVIOUS
<1> DEFINE c == Append(b, n)
<1>2. /\ DOMAIN c = 1..(Len(b) + 1) /\ Len(c) = Len(b) + 1 /\ c[Len(b) + 1] = n
      /\ \A i \in 1..Len(b) : c[i] = b[i]
  BY <1>1
<1> HIDE DEF c
<1>3. ASSUME InOrder(g, b, n - 1) PROVE InOrder(g, c, n)
  <2>0. \A i \in DOMAIN c : i \in 1..Len(b) \/ (i = Len(b) + 1 /\ c[i] = n)
    BY <1>1, <1>2
  <2>1. \A i \in DOMAIN b : b[i] <= n - 1
    BY <1>3 DEF InOrder
  <2>2. \A i \in DOMAIN g : g[i] <= n - 1
    BY <1>3 DEF InOrder
  <2>3. ASSUME NEW i \in DOMAIN c, NEW j \in DOMAIN c, i < j PROVE c[i] < c[j]
    <3>1. i \in 1..Len(b)
      BY <1>1, <1>2, <2>3
    <3>2. CASE j \in 1..Len(b)
      BY <1>1, <1>2, <1>3, <2>3, <3>1, <3>2 DEF InOrder, Increasing
    <3>3. CASE c[j] = n
      BY <1>1, <1>2, <2>1, <3>1, <3>3
    <3> QED BY <2>0, <3>2, <3>3
  <2>4. ASSUME NEW i \in DOMAIN c PROVE c[i] <= n
    <3>1. CASE i \in 1..Len(b)
      BY <1>1, <1>2, <2>1, <3>1
    <3>2. CASE c[i] = n
      BY <3>2
    <3> QED BY <2>0, <3>1, <3>2
  <2>5. ASSUME NEW i \in DOMAIN g, NEW j \in DOMAIN c PROVE g[i] < c[j]
    <3>1. CASE j \in 1..Len(b)
      BY <1>1, <1>2, <1>3, <3>1 DEF InOrder
    <3>2. CASE c[j] = n
      BY <1>1, <2>2, <3>2
    <3> QED BY <2>0, <3>1, <3>2
  <2>6. ASSUME NEW i \in DOMAIN g PROVE g[i] <= n
    BY <1>1, <2>2
  <2> QED BY <1>3, <2>3, <2>4, <2>5, <2>6 DEF InOrder, Increasing
<1>4. ASSUME Everything(g, b, n - 1) PROVE Everything(g, c, n)
  <2>1. Len(g) + Len(b) = n - 1
    BY <1>4 DEF Everything
  <2>2. ASSUME NEW i \in DOMAIN c PROVE c[i] = Len(g) + i
    <3>1. CASE i \in 1..Len(b)
      BY <1>1, <1>2, <1>4, <3>1 DEF Everything
    <3>2. CASE i = Len(b) + 1
      BY <1>1, <1>2, <2>1, <3>2
    <3> QED BY <1>1, <1>2, <3>1, <3>2
  <2> QED BY <1>1, <1>2, <1>4, <2>1, <2>2 DEF Everything
<1> QED BY <1>3, <1>4 DEF c

\* The first buffered node is read.
LEMMA Move ==
  ASSUME NEW g \in Seq(Nat), NEW b \in Seq(Nat), NEW p \in Nat, b # <<>>
  PROVE  /\ InOrder(g, b, p) => InOrder(Append(g, Head(b)), Tail(b), p)
         /\ Everything(g, b, p) =>
              /\ Everything(Append(g, Head(b)), Tail(b), p)
              /\ Len(Append(g, Head(b))) <= p
<1> DEFINE h == Append(g, Head(b))
           c == Tail(b)
<1>1. /\ Len(b) \in Nat /\ Len(b) > 0 /\ DOMAIN b = 1..Len(b) /\ Len(g) \in Nat
      /\ DOMAIN g = 1..Len(g)
      /\ \A i \in 1..Len(g) : g[i] \in Nat
      /\ \A i \in 1..Len(b) : b[i] \in Nat
  OBVIOUS
<1>2. /\ DOMAIN c = 1..(Len(b) - 1) /\ Len(c) = Len(b) - 1
      /\ \A i \in 1..(Len(b) - 1) : c[i] = b[i + 1]
  BY <1>1
<1>3. /\ DOMAIN h = 1..(Len(g) + 1) /\ Len(h) = Len(g) + 1 /\ h[Len(g) + 1] = b[1]
      /\ \A i \in 1..Len(g) : h[i] = g[i]
  BY <1>1
<1> HIDE DEF h, c
<1>4. ASSUME InOrder(g, b, p) PROVE InOrder(h, c, p)
  <2>1. 1 \in DOMAIN b /\ \A i \in DOMAIN c : i + 1 \in DOMAIN b /\ 1 < i + 1 /\ c[i] = b[i + 1]
    BY <1>1, <1>2
  <2>2. \A i \in DOMAIN h : i \in DOMAIN g \/ (i = Len(g) + 1 /\ h[i] = b[1])
    BY <1>1, <1>3
  <2>3. ASSUME NEW i \in DOMAIN h, NEW j \in DOMAIN h, i < j PROVE h[i] < h[j]
    <3>1. i \in DOMAIN g /\ h[i] = g[i]
      BY <1>1, <1>3, <2>3
    <3>2. CASE j \in DOMAIN g
      BY <1>1, <1>3, <1>4, <2>3, <3>1, <3>2 DEF InOrder, Increasing
    <3>3. CASE h[j] = b[1]
      BY <1>4, <2>1, <3>1, <3>3 DEF InOrder
    <3> QED BY <2>2, <3>2, <3>3
  <2>4. ASSUME NEW i \in DOMAIN c, NEW j \in DOMAIN c, i < j PROVE c[i] < c[j]
    <3>1. i + 1 < j + 1
      BY <1>1, <1>2, <2>4
    <3> QED BY <1>4, <2>1, <3>1 DEF InOrder, Increasing
  <2>5. ASSUME NEW i \in DOMAIN h, NEW j \in DOMAIN c PROVE h[i] < c[j]
    <3>1. CASE i \in DOMAIN g
      BY <1>1, <1>3, <1>4, <2>1, <3>1 DEF InOrder
    <3>2. CASE h[i] = b[1]
      BY <1>4, <2>1, <3>2 DEF InOrder, Increasing
    <3> QED BY <2>2, <3>1, <3>2
  <2>6. \A i \in DOMAIN c : c[i] <= p
    BY <1>4, <2>1 DEF InOrder
  <2>7. \A i \in DOMAIN h : h[i] <= p
    <3>1. ASSUME NEW i \in DOMAIN g PROVE h[i] <= p
      BY <1>1, <1>3, <1>4, <3>1 DEF InOrder
    <3>2. b[1] <= p
      BY <1>4, <2>1 DEF InOrder
    <3> QED BY <2>2, <3>1, <3>2
  <2> QED BY <2>3, <2>4, <2>5, <2>6, <2>7 DEF InOrder, Increasing
<1>5. ASSUME Everything(g, b, p) PROVE Everything(h, c, p) /\ Len(h) <= p
  <2>1. Len(g) + Len(b) = p /\ b[1] = Len(g) + 1
    <3>1. 1 \in DOMAIN b
      BY <1>1
    <3> QED BY <1>5, <3>1 DEF Everything
  <2>2. ASSUME NEW i \in DOMAIN h PROVE h[i] = i
    <3>1. CASE i \in DOMAIN g
      BY <1>1, <1>3, <1>5, <3>1 DEF Everything
    <3>2. CASE i = Len(g) + 1
      BY <1>3, <2>1, <3>2
    <3> QED BY <1>1, <1>3, <3>1, <3>2
  <2>3. ASSUME NEW i \in DOMAIN c PROVE c[i] = Len(h) + i
    <3>1. i \in Nat /\ i + 1 \in DOMAIN b /\ c[i] = b[i + 1]
      BY <1>1, <1>2
    <3>2. b[i + 1] = Len(g) + (i + 1)
      BY <1>5, <3>1 DEF Everything
    <3> QED BY <1>1, <1>3, <3>1, <3>2
  <2>4. Len(h) + Len(c) = p /\ Len(h) <= p
    <3>1. \A x, y \in Nat : y > 0 /\ x + y = p => (x + 1) + (y - 1) = p /\ x + 1 <= p
      OBVIOUS
    <3>2. /\ Len(g) \in Nat /\ Len(b) \in Nat /\ Len(b) > 0
          /\ Len(h) = Len(g) + 1 /\ Len(c) = Len(b) - 1
      BY <1>1, <1>2, <1>3
    <3> QED BY <2>1, <3>1, <3>2
  <2> QED BY <2>2, <2>3, <2>4 DEF Everything
<1> QED BY <1>4, <1>5 DEF h, c

\* Nothing is collected before the call returns: until then no action of a collector
\* can be taken, and the reply starts both.
THEOREM StartedHolds == Spec => []Started
<1> USE DEF contexts, status, senders, collectors, history
<1>1. Init => Started
  BY DEF Init, Started
<1>2. ASSUME TypeOK, Started, [Next]_vars PROVE Started'
  <2> USE <1>2
  <2>1. responses \in ResponsesType /\ errors \in ErrorsType
    BY DEF TypeOK
  <2>2. ASSUME UNCHANGED <<responses, errors>>,
               newCall' \in {"none", "waiting"} => newCall \in {"none", "waiting"}
        PROVE  Started'
    BY <2>2 DEF Started
  <2>3. ASSUME errors'.at = "off" => UNCHANGED errors, newCall' = newCall,
               newCall \in {"none", "waiting"} => UNCHANGED <<responses, errors>>
        PROVE  Started'
    BY <2>3 DEF Started
  <2>4. CASE CallerContextEnds
    BY <2>4, <2>2 DEF CallerContextEnds
  <2>5. CASE Shutdown
    BY <2>5, <2>2 DEF Shutdown
  <2>6. CASE NewRequest
    BY <2>6, <2>2 DEF NewRequest
  <2>7. CASE EmptyResponse
    BY <2>7, <2>2 DEF EmptyResponse
  <2>8. CASE ReadResponse
    <3>1. newCall' = newCall /\ errors' = errors
      BY <2>8 DEF ReadResponse
    <3>2. responses.at \in {"collect", "closing"}
      BY <2>8 DEF ReadResponse, Collecting, Closing
    <3> QED BY <2>3, <3>1, <3>2 DEF Started
  <2>9. CASE ReadError
    <3>1. newCall' = newCall /\ responses' = responses /\ errors.at # "off"
      BY <2>9 DEF ReadError
    <3>2. errors'.at # "off"
      <4>1. errors.buf \in Seq(ErrorNames) /\ errors.buf # <<>>
        BY <2>1, <2>9, ErrorsFields DEF ReadError
      <4>2. Tail(errors.buf) \in Seq(ErrorNames)
        BY <4>1
      <4>3. [errors EXCEPT !.buf = Tail(@)] \in ErrorsType
        BY <2>1, <4>2, ErrorsFields
      <4>4. [errors EXCEPT !.buf = Tail(@)].at = errors.at
        BY <2>1 DEF ErrorsType
      <4> QED BY <2>9, <3>1, <4>3, <4>4, ErrorLoopDecides DEF ReadError
    <3> QED BY <2>3, <3>1, <3>2 DEF Started
  <2>10. CASE ReadCancelled
    <3>1. newCall' = newCall /\ responses' = responses /\ errors.at # "off"
      BY <2>10 DEF ReadCancelled
    <3>2. errors'.at # "off"
      <4>1. /\ [errors EXCEPT !.at = "collect"] \in ErrorsType
            /\ [errors EXCEPT !.at = "collect"].at = "collect"
            /\ [errors EXCEPT !.at = "done"].at = "done"
        BY <2>1 DEF ErrorsType
      <4> QED BY <2>10, <4>1, ErrorLoopDecides DEF ReadCancelled
    <3> QED BY <2>3, <3>1, <3>2 DEF Started
  <2>11. CASE HandleNew
    BY <2>11, <2>2 DEF HandleNew
  <2>12. CASE Reply
    <3>1. newCall' = "returned"
      BY <2>12 DEF Reply
    <3>2. errors'.at = "collect"
      BY <2>1, <2>12 DEF Reply, ErrorsType
    <3> QED BY <3>1, <3>2 DEF Started
  <2>13. ASSUME NEW m, NEW e, HandleQuietly(m, e) PROVE Started'
    BY <2>13, <2>2 DEF HandleQuietly
  <2>14. CASE HandleOther
    BY <2>14, <2>2 DEF HandleOther
  <2>15. CASE HandleTask
    BY <2>15, <2>2 DEF HandleTask
  <2>16. CASE HandleRelease
    BY <2>16, <2>2 DEF HandleRelease
  <2>17. CASE CloseChannels
    BY <2>17, <2>2 DEF CloseChannels
  <2>18. CASE ManagerStops
    BY <2>18, <2>2 DEF ManagerStops
  <2>19. ASSUME NEW m, OtherMessage(m) PROVE Started'
    BY <2>19, <2>2 DEF OtherMessage
  <2>20. CASE Visit
    BY <2>20, <2>2 DEF Visit
  <2>21. CASE VisitorCancelled
    BY <2>21, <2>2 DEF VisitorCancelled
  <2>22. CASE TakeTask
    BY <2>22, <2>2 DEF TakeTask
  <2>23. CASE OfferError
    BY <2>23, <2>2 DEF OfferError
  <2>24. CASE WorkerCancelled
    BY <2>24, <2>2 DEF WorkerCancelled
  <2>25. ASSUME NEW m, ReleaseTask(m) PROVE Started'
    BY <2>25, <2>2 DEF ReleaseTask
  <2>26. CASE ReceiveNode
    <3>1. newCall' = newCall /\ errors' = errors
      BY <2>26 DEF ReceiveNode
    <3>2. responses.at \in {"collect", "closing"}
      BY <2>26 DEF ReceiveNode, Collecting, Closing
    <3> QED BY <2>3, <3>1, <3>2 DEF Started
  <2>27. CASE ResponsesClosed
    <3>1. newCall' = newCall /\ errors' = errors
      BY <2>27 DEF ResponsesClosed
    <3>2. responses.at \in {"collect", "closing"}
      BY <2>27 DEF ResponsesClosed, Collecting, Closing
    <3> QED BY <2>3, <3>1, <3>2 DEF Started
  <2>28. CASE ResponsesCancelled
    <3>1. newCall' = newCall /\ errors' = errors
      BY <2>28 DEF ResponsesCancelled
    <3>2. responses.at \in {"collect", "closing"}
      BY <2>28 DEF ResponsesCancelled, Collecting, Closing
    <3> QED BY <2>3, <3>1, <3>2 DEF Started
  <2>29. CASE SendCancel
    <3>1. newCall' = newCall /\ errors' = errors
      BY <2>29 DEF SendCancel
    <3>2. responses.at \in {"collect", "closing"}
      BY <2>29 DEF SendCancel, Collecting, Closing
    <3> QED BY <2>3, <3>1, <3>2 DEF Started
  <2>30. CASE ResponsesStopped
    <3>1. newCall' = newCall /\ errors' = errors
      BY <2>30 DEF ResponsesStopped
    <3>2. responses.at \in {"collect", "closing"}
      BY <2>30 DEF ResponsesStopped, Collecting, Closing
    <3> QED BY <2>3, <3>1, <3>2 DEF Started
  <2>31. CASE ReceiveError
    <3>1. newCall' = newCall /\ responses' = responses
      BY <2>31 DEF ReceiveError
    <3>2. errors.at = "collect" \/ (errors' = errors /\ responses.at = "closing")
      BY <2>31 DEF ReceiveError, Closing
    <3>3. errors'.at = errors.at
      BY <2>1, <2>31 DEF ReceiveError, ErrorsType
    <3> QED BY <2>3, <3>1, <3>2, <3>3 DEF Started
  <2>32. CASE ReceiveBuffered
    <3>1. newCall' = newCall /\ responses' = responses
      BY <2>32 DEF ReceiveBuffered
    <3>2. errors.at = "collect" \/ (errors' = errors /\ responses.at = "closing")
      BY <2>32 DEF ReceiveBuffered, Closing
    <3>3. errors'.at = errors.at
      BY <2>1, <2>32 DEF ReceiveBuffered, ErrorsType
    <3> QED BY <2>3, <3>1, <3>2, <3>3 DEF Started
  <2>33. CASE ErrorsClosed
    <3>1. newCall' = newCall
      BY <2>33 DEF ErrorsClosed
    <3>2. CASE errors.at = "collect" /\ errors' = AfterClose([errors EXCEPT !.errs = FALSE])
      <4>1. /\ [errors EXCEPT !.errs = FALSE] \in ErrorsType
            /\ [errors EXCEPT !.errs = FALSE].at = "collect"
            /\ [[errors EXCEPT !.errs = FALSE] EXCEPT !.at = "telling"].at = "telling"
        BY <2>1, <3>2 DEF ErrorsType
      <4>2. errors'.at # "off"
        BY <3>2, <4>1, ErrorLoopDecides DEF AfterClose
      <4> QED BY <2>3, <3>1, <3>2, <4>2 DEF Started
    <3>3. CASE responses.at = "closing" /\ errors' = errors
      BY <2>3, <3>1, <3>3 DEF Started
    <3> QED BY <2>33, <3>2, <3>3 DEF ErrorsClosed, Closing
  <2>34. CASE ErrorsCancelled
    <3>1. newCall' = newCall /\ responses' = responses /\ errors.at # "off"
      BY <2>34 DEF ErrorsCancelled
    <3>2. errors'.at # "off"
      BY <2>1, <2>34 DEF ErrorsCancelled, ErrorsType
    <3> QED BY <2>3, <3>1, <3>2 DEF Started
  <2>35. CASE ErrorsStopped
    <3>1. newCall' = newCall /\ responses' = responses /\ errors.at # "off"
      BY <2>35 DEF ErrorsStopped
    <3>2. errors'.at # "off"
      BY <2>1, <2>35 DEF ErrorsStopped, ErrorsType
    <3> QED BY <2>3, <3>1, <3>2 DEF Started
  <2>36. CASE UNCHANGED vars
    BY <2>36, <2>2 DEF vars
  <2> QED BY <2>4, <2>5, <2>6, <2>7, <2>8, <2>9, <2>10, <2>11, <2>12, <2>13, <2>14, <2>15,
             <2>16, <2>17, <2>18, <2>19, <2>20, <2>21, <2>22, <2>23, <2>24, <2>25, <2>26,
             <2>27, <2>28, <2>29, <2>30, <2>31, <2>32, <2>33, <2>34, <2>35, <2>36
      DEF Next, Caller, Reader, Manager, Traversal, Worker, CollectResponses, CollectErrors
<1> QED BY <1>1, <1>2, TypeCorrect, PTL DEF Spec

\* The nodes that were read and those that are buffered, as the traversal offers them.
Nodes == NodesInOrder /\ NodesWithoutGaps /\ StopsForAReason

\* A node that is dropped leaves the rest in order.
LEMMA Later ==
  ASSUME NEW g \in Seq(Nat), NEW b \in Seq(Nat), NEW p \in Nat, NEW q \in Nat, p <= q,
         InOrder(g, b, p)
  PROVE  InOrder(g, b, q)
<1>1. \A i \in DOMAIN g : g[i] \in Nat
  OBVIOUS
<1>2. \A i \in DOMAIN b : b[i] \in Nat
  OBVIOUS
<1> QED BY <1>1, <1>2 DEF InOrder

\* What the traversal offers is collected, and read, in its order and without gaps.
THEOREM NodesHold == Spec => []Nodes
<1> USE DEF contexts, status, senders, collectors, history
<1>1. Init => Nodes
  BY DEF Init, Nodes, NodesInOrder, NodesWithoutGaps, StopsForAReason, InOrder, Everything,
         Increasing, Passed
<1>2. ASSUME TypeOK, TypeOK', Started, Nodes, [Next]_vars PROVE Nodes'
  <2> USE <1>2
  <2>1. /\ responses \in ResponsesType /\ responses' \in ResponsesType
        /\ counts \in CountsType /\ got \in GotType
        /\ errors \in ErrorsType
    BY DEF TypeOK
  <2>2. /\ responses.buf \in Seq(Nat) /\ got.nodes \in Seq(Nat) /\ counts.nodes \in Nat
        /\ Len(got.nodes) \in Nat
    <3>1. responses.buf \in Seq(Nat)
      BY <2>1, ResponsesFields
    <3>2. got.nodes \in Seq(Nat) /\ counts.nodes \in 0..MaxNodes
      BY <2>1, HistoryFields
    <3> QED BY <3>1, <3>2, CollectorAssumption
  <2>3. Passed \in Nat
    BY <2>2 DEF Passed, Nodes, NodesInOrder
  \* Steps that leave the nodes alone.
  <2>4. ASSUME got'.nodes = got.nodes, responses'.buf = responses.buf, Passed' = Passed,
               visitor' = "sending" => counts'.nodes > 0, dropped' = dropped,
               responses'.at \in {"off", "collect"} => responses.at \in {"off", "collect"},
               StopsForAReason'
        PROVE  Nodes'
    BY <2>4 DEF Nodes, NodesInOrder, NodesWithoutGaps
  <2>5. ASSUME ctxDone => ctxDone', rmDone => rmDone', responses'.at = responses.at,
               responses'.buf = responses.buf
        PROVE  StopsForAReason'
    BY <2>5 DEF Nodes, StopsForAReason
  <2>6. ASSUME got'.nodes = got.nodes, responses' = responses, visitor' = visitor,
               counts'.nodes = counts.nodes, dropped' = dropped, ctxDone => ctxDone', rmDone
                 => rmDone'
        PROVE  Nodes'
    <3>1. Passed' = Passed /\ (visitor' = "sending" => counts'.nodes > 0)
      BY <2>6 DEF Passed, Nodes, NodesInOrder
    <3> QED BY <2>4, <2>5, <2>6, <3>1
  \* Steps of the collector that take no node.
  <2>7. ASSUME UNCHANGED <<got, visitor, counts, dropped, ctxDone, rmDone>>,
               responses'.buf = responses.buf, responses.at \in {"collect", "closing"},
               responses'.at \in {responses.at, "closing", "done"},
               responses'.at = "closing" /\ responses.at # "closing" => ctxDone,
               responses'.at = "done" => responses.at = "closing" \/ ctxDone \/ rmDone \/ responses.buf = <<>>
        PROVE  Nodes'
    <3>1. Passed' = Passed /\ (visitor' = "sending" => counts'.nodes > 0)
      BY <2>7 DEF Passed, Nodes, NodesInOrder
    <3>2. StopsForAReason'
      BY <2>7 DEF Nodes, StopsForAReason
    <3> QED BY <2>4, <2>7, <3>1, <3>2
  <2>8. CASE CallerContextEnds
    BY <2>8, <2>6 DEF CallerContextEnds
  <2>9. CASE Shutdown
    BY <2>9, <2>6 DEF Shutdown
  <2>10. CASE NewRequest
    BY <2>10, <2>6 DEF NewRequest
  <2>11. CASE EmptyResponse
    BY <2>11, <2>6 DEF EmptyResponse
  <2>12. CASE ReadResponse
    <3>1. responses.buf # <<>> /\ responses.at = "collect"
      BY <2>12 DEF ReadResponse, Collecting
    <3>2. Tail(responses.buf) \in Seq(Nat)
      BY <2>2, <3>1
    <3>3. /\ [responses EXCEPT !.buf = Tail(@)] \in ResponsesType
          /\ [responses EXCEPT !.buf = Tail(@)].buf = Tail(responses.buf)
          /\ [responses EXCEPT !.buf = Tail(@)].at = "collect"
      BY <2>1, <3>1, <3>2 DEF ResponsesType
    <3>4. /\ responses'.buf = Tail(responses.buf) /\ responses'.at \in {"collect", "done"}
          /\ responses'.at = "done" => responses'.buf = <<>>
      BY <2>12, <3>3, LoopDecides DEF ReadResponse
    <3>5. got'.nodes = Append(got.nodes, Head(responses.buf))
      BY <2>1, <2>12 DEF ReadResponse, GotType
    <3>6. Passed' = Passed /\ (visitor' = "sending" => counts'.nodes > 0) /\ dropped' = dropped
      BY <2>12 DEF ReadResponse, Passed, Nodes, NodesInOrder
    <3>7. InOrder(got.nodes, responses.buf, Passed) => InOrder(got'.nodes, responses'.buf, Passed)
      BY <2>2, <2>3, <3>1, <3>4, <3>5, Move
    <3>8. Everything(got.nodes, responses.buf, Passed) =>
            Everything(got'.nodes, responses'.buf, Passed) /\ Len(got'.nodes) <= Passed
      BY <2>2, <2>3, <3>1, <3>4, <3>5, Move
    <3>9. NodesInOrder'
      BY <3>6, <3>7 DEF Nodes, NodesInOrder
    <3>10. NodesWithoutGaps'
      <4>1. Everything(got'.nodes, responses'.buf, Passed) =>
              \A i \in DOMAIN got'.nodes : got'.nodes[i] = i
        BY DEF Everything
      <4> QED BY <3>1, <3>6, <3>8, <4>1 DEF Nodes, NodesWithoutGaps
    <3>11. StopsForAReason'
      BY <3>4 DEF StopsForAReason
    <3> QED BY <3>9, <3>10, <3>11 DEF Nodes
  <2>13. CASE ReadError
    BY <2>13, <2>6 DEF ReadError
  <2>14. CASE ReadCancelled
    <3>1. got'.nodes = got.nodes
      BY <2>1, <2>14 DEF ReadCancelled, GotType
    <3> QED BY <2>14, <2>6, <3>1 DEF ReadCancelled
  <2>15. CASE HandleNew
    BY <2>15, <2>6 DEF HandleNew
  <2>16. CASE Reply
    <3>1. responses'.buf = responses.buf /\ responses'.at = "collect"
      BY <2>1, <2>16 DEF Reply, ResponsesType
    <3>2. responses.at = "off"
      BY <2>16 DEF Reply, Started
    <3>3. got'.nodes = got.nodes /\ Passed' = Passed /\ dropped' = dropped
          /\ (visitor' = "sending" => counts'.nodes > 0)
      BY <2>16 DEF Reply, Passed, Nodes, NodesInOrder
    <3>4. StopsForAReason'
      BY <3>1 DEF StopsForAReason
    <3> QED BY <2>4, <3>1, <3>2, <3>3, <3>4
  <2>17. ASSUME NEW m, NEW e, HandleQuietly(m, e) PROVE Nodes'
    BY <2>17, <2>6 DEF HandleQuietly
  <2>18. CASE HandleOther
    BY <2>18, <2>6 DEF HandleOther
  <2>19. CASE HandleTask
    <3>1. Passed' = Passed /\ (visitor' = "sending" => counts'.nodes > 0)
      BY <2>19 DEF HandleTask, Passed, Nodes, NodesInOrder
    <3>2. StopsForAReason'
      BY <2>19, <2>5 DEF HandleTask
    <3> QED BY <2>19, <2>4, <3>1, <3>2 DEF HandleTask
  <2>20. CASE HandleRelease
    BY <2>20, <2>6 DEF HandleRelease
  <2>21. CASE CloseChannels
    BY <2>21, <2>6 DEF CloseChannels
  <2>22. CASE ManagerStops
    BY <2>22, <2>6 DEF ManagerStops
  <2>23. ASSUME NEW m, OtherMessage(m) PROVE Nodes'
    <3>1. counts'.nodes = counts.nodes
      BY <2>1, <2>23 DEF OtherMessage, CountsType
    <3> QED BY <2>23, <2>6, <3>1 DEF OtherMessage
  <2>24. CASE Visit
    <3>1. /\ visitor = "walking" /\ got' = got /\ responses' = responses /\ dropped' = dropped
          /\ ctxDone' = ctxDone /\ rmDone' = rmDone
      BY <2>24 DEF Visit
    <3>2. CASE visitor' = "sending" /\ counts' = [counts EXCEPT !.nodes = @ + 1]
      <4>1. counts'.nodes = counts.nodes + 1
        BY <2>1, <3>2 DEF CountsType
      <4>2. Passed' = Passed /\ counts'.nodes > 0
        BY <2>2, <3>1, <3>2, <4>1 DEF Passed
      <4> QED BY <2>4, <2>5, <3>1, <4>2
    <3>3. CASE visitor' = "stopped" /\ counts' = counts
      <4>1. Passed' = Passed
        BY <3>1, <3>3 DEF Passed
      <4> QED BY <2>4, <2>5, <3>1, <3>3, <4>1
    <3> QED BY <2>24, <3>2, <3>3 DEF Visit
  <2>25. CASE VisitorCancelled
    <3>1. /\ visitor = "sending" /\ visitor' = "walking" /\ got' = got /\ responses' = responses
          /\ counts' = counts /\ dropped' = TRUE /\ ctxDone' = ctxDone /\ rmDone' = rmDone
      BY <2>25 DEF VisitorCancelled
    <3>2. Passed' = counts.nodes /\ Passed <= counts.nodes
      BY <2>2, <3>1 DEF Passed
    <3>3. InOrder(got.nodes, responses.buf, counts.nodes)
      BY <2>2, <2>3, <3>2, Later DEF Nodes, NodesInOrder
    <3>4. NodesInOrder'
      BY <3>1, <3>2, <3>3 DEF NodesInOrder
    <3>5. NodesWithoutGaps'
      BY <3>1 DEF NodesWithoutGaps
    <3> QED BY <2>5, <3>1, <3>4, <3>5 DEF Nodes
  <2>26. CASE TakeTask
    <3>1. counts'.nodes = counts.nodes
      BY <2>1, <2>26 DEF TakeTask, CountsType
    <3> QED BY <2>26, <2>6, <3>1 DEF TakeTask
  <2>27. CASE OfferError
    <3>1. counts'.nodes = counts.nodes
      BY <2>1, <2>27 DEF OfferError, CountsType
    <3> QED BY <2>27, <2>6, <3>1 DEF OfferError
  <2>28. CASE WorkerCancelled
    BY <2>28, <2>6 DEF WorkerCancelled
  <2>29. ASSUME NEW m, ReleaseTask(m) PROVE Nodes'
    BY <2>29, <2>6 DEF ReleaseTask
  <2>30. CASE ReceiveNode
    <3>1. /\ visitor = "sending" /\ visitor' = "walking" /\ got' = got /\ dropped' = dropped
          /\ counts' = counts /\ ctxDone' = ctxDone /\ rmDone' = rmDone
      BY <2>30 DEF ReceiveNode
    <3>2. /\ Passed' = counts.nodes /\ Passed = counts.nodes - 1 /\ counts.nodes > 0
          /\ Passed <= counts.nodes
      BY <2>2, <3>1 DEF Passed, Nodes, NodesInOrder
    <3>3. CASE responses.at = "collect" /\ responses' = [responses EXCEPT !.buf = Append(@,
            counts.nodes)]
      <4>1. responses'.buf = Append(responses.buf, counts.nodes) /\ responses'.at = "collect"
        BY <2>1, <3>3 DEF ResponsesType
      <4>2. InOrder(got.nodes, responses'.buf, counts.nodes)
        BY <2>2, <3>2, <4>1, Push DEF Nodes, NodesInOrder
      <4>3. Everything(got.nodes, responses.buf, Passed) =>
              Everything(got.nodes, responses'.buf, counts.nodes)
        BY <2>2, <3>2, <4>1, Push
      <4>4. NodesInOrder'
        BY <3>1, <3>2, <4>2 DEF NodesInOrder
      <4>5. \A l, p, q \in Nat : l <= p /\ p <= q => l <= q
        OBVIOUS
      <4>6. NodesWithoutGaps'
        BY <2>2, <2>3, <3>1, <3>2, <3>3, <4>3, <4>5 DEF Nodes, NodesWithoutGaps
      <4>7. StopsForAReason'
        BY <4>1 DEF StopsForAReason
      <4> QED BY <4>4, <4>6, <4>7 DEF Nodes
    <3>4. CASE responses.at = "closing" /\ responses' = responses
      <4>1. InOrder(got.nodes, responses.buf, counts.nodes)
        BY <2>2, <2>3, <3>2, Later DEF Nodes, NodesInOrder
      <4>2. NodesInOrder'
        BY <3>1, <3>2, <3>4, <4>1 DEF NodesInOrder
      <4>3. \A l, p, q \in Nat : l <= p /\ p <= q => l <= q
        OBVIOUS
      <4>4. NodesWithoutGaps'
        BY <2>2, <2>3, <3>1, <3>2, <3>4, <4>3 DEF Nodes, NodesWithoutGaps
      <4> QED BY <2>5, <3>1, <3>4, <4>2, <4>4 DEF Nodes
    <3> QED BY <2>30, <3>3, <3>4 DEF ReceiveNode, Collecting, Closing
  <2>31. CASE ResponsesClosed
    <3>1. UNCHANGED <<got, visitor, counts, dropped, ctxDone, rmDone>>
      BY <2>31 DEF ResponsesClosed
    <3>2. /\ [responses EXCEPT !.nodes = FALSE] \in ResponsesType
          /\ [responses EXCEPT !.nodes = FALSE].buf = responses.buf
          /\ [responses EXCEPT !.nodes = FALSE].at = responses.at
      BY <2>1 DEF ResponsesType
    <3>3. CASE responses.at = "collect" /\ responses' = NextResponses([responses EXCEPT !.nodes = FALSE])
      <4>1. /\ responses'.buf = responses.buf /\ responses'.at \in {responses.at, "done"}
            /\ responses'.at = "done" => responses.buf = <<>>
        BY <3>2, <3>3, LoopDecides
      <4> QED BY <2>7, <3>1, <3>3, <4>1
    <3>4. CASE responses.at = "closing" /\ responses' = NextClosing([responses EXCEPT !.nodes = FALSE])
      <4>1. responses'.buf = responses.buf /\ responses'.at \in {responses.at, "done"}
        BY <3>2, <3>4, LoopDecides
      <4> QED BY <2>7, <3>1, <3>4, <4>1
    <3> QED BY <2>31, <3>3, <3>4 DEF ResponsesClosed, Collecting, Closing
  <2>32. CASE ResponsesCancelled
    <3>1. /\ UNCHANGED <<got, visitor, counts, dropped, ctxDone, rmDone>> /\ ctxDone
          /\ responses.at = "collect"
      BY <2>32 DEF ResponsesCancelled, Collecting
    <3>2. responses'.buf = responses.buf /\ responses'.at \in {"closing", "done"}
      BY <2>1, <2>32 DEF ResponsesCancelled, CancelRequestAndClose, ResponsesType
    <3> QED BY <2>7, <3>1, <3>2
  <2>33. CASE SendCancel
    <3>1. UNCHANGED <<got, visitor, counts, dropped, ctxDone, rmDone>> /\ responses.at = "closing"
      BY <2>33 DEF SendCancel, Closing
    <3>2. /\ [responses EXCEPT !.cancel = FALSE] \in ResponsesType
          /\ [responses EXCEPT !.cancel = FALSE].buf = responses.buf
          /\ [responses EXCEPT !.cancel = FALSE].at = responses.at
      BY <2>1 DEF ResponsesType
    <3>3. responses'.buf = responses.buf /\ responses'.at \in {responses.at, "done"}
      BY <2>33, <3>2, LoopDecides DEF SendCancel
    <3> QED BY <2>7, <3>1, <3>3
  <2>34. CASE ResponsesStopped
    <3>1. /\ UNCHANGED <<got, visitor, counts, dropped, ctxDone, rmDone>> /\ rmDone
          /\ responses.at \in {"collect", "closing"}
      BY <2>34 DEF ResponsesStopped
    <3>2. responses'.buf = responses.buf /\ responses'.at = "done"
      BY <2>1, <2>34 DEF ResponsesStopped, ResponsesType
    <3> QED BY <2>7, <3>1, <3>2
  <2>35. CASE ReceiveError
    BY <2>35, <2>6 DEF ReceiveError
  <2>36. CASE ReceiveBuffered
    BY <2>36, <2>6 DEF ReceiveBuffered
  <2>37. CASE ErrorsClosed
    <3>1. UNCHANGED <<got, visitor, counts, dropped, ctxDone, rmDone>>
      BY <2>37 DEF ErrorsClosed
    <3>2. CASE responses' = responses
      BY <2>6, <3>1, <3>2
    <3>3. CASE responses.at = "closing" /\ responses' = NextClosing([responses EXCEPT !.errs = FALSE])
      <4>1. /\ [responses EXCEPT !.errs = FALSE] \in ResponsesType
            /\ [responses EXCEPT !.errs = FALSE].buf = responses.buf
            /\ [responses EXCEPT !.errs = FALSE].at = responses.at
        BY <2>1 DEF ResponsesType
      <4>2. responses'.buf = responses.buf /\ responses'.at \in {responses.at, "done"}
        BY <3>3, <4>1, LoopDecides
      <4> QED BY <2>7, <3>1, <3>3, <4>2
    <3> QED BY <2>37, <3>2, <3>3 DEF ErrorsClosed, Closing
  <2>38. CASE ErrorsCancelled
    BY <2>38, <2>6 DEF ErrorsCancelled
  <2>39. CASE ErrorsStopped
    BY <2>39, <2>6 DEF ErrorsStopped
  <2>40. CASE UNCHANGED vars
    BY <2>40, <2>6 DEF vars
  <2> QED BY <2>8, <2>9, <2>10, <2>11, <2>12, <2>13, <2>14, <2>15, <2>16, <2>17, <2>18, <2>19,
             <2>20, <2>21, <2>22, <2>23, <2>24, <2>25, <2>26, <2>27, <2>28, <2>29, <2>30,
             <2>31, <2>32, <2>33, <2>34, <2>35, <2>36, <2>37, <2>38, <2>39, <2>40
      DEF Next, Caller, Reader, Manager, Traversal, Worker, CollectResponses, CollectErrors
<1> QED BY <1>1, <1>2, TypeCorrect, StartedHolds, PTL DEF Spec

\* DeliveredInOrder: what the caller reads is in the order of the traversal, without
\* gaps until a terminated traversal drops a node, and complete when the channel is
\* closed and no context has ended.
THEOREM DeliveredInOrderHolds == Spec => []DeliveredInOrder
<1>1. ASSUME TypeOK, Nodes PROVE DeliveredInOrder
  <2> USE <1>1
  <2> DEFINE all == [i \in 1..MaxNodes |-> i]
  <2>1. counts \in CountsType /\ got \in GotType
    BY DEF TypeOK
  <2>2. MaxNodes \in Nat /\ counts.nodes \in 0..MaxNodes /\ got.nodes \in Seq(Nat)
    BY <2>1, HistoryFields, CollectorAssumption
  <2>3. Passed \in Nat /\ Passed <= MaxNodes
    BY <2>2 DEF Passed, Nodes, NodesInOrder
  <2>4. ASSUME ~dropped PROVE IsPrefix(got.nodes, all)
    <3>1. /\ \A i \in DOMAIN got.nodes : got.nodes[i] = i
          /\ Len(got.nodes) <= Passed
      BY <2>4 DEF Nodes, NodesWithoutGaps
    <3>2. Len(got.nodes) \in Nat /\ DOMAIN got.nodes = 1..Len(got.nodes)
      BY <2>2
    <3>3. \A l, p, m \in Nat : l <= p /\ p <= m => l <= m
      OBVIOUS
    <3>4. Len(got.nodes) <= MaxNodes
      BY <2>2, <2>3, <3>1, <3>2, <3>3
    <3>5. all \in Seq(Nat) /\ Len(all) = MaxNodes
      BY <2>2
    <3>6. SubSeq(got.nodes, 1, Len(got.nodes)) = SubSeq(all, 1, Len(got.nodes))
      <4> DEFINE n == Len(got.nodes)
                 a == SubSeq(got.nodes, 1, n)
                 b == SubSeq(all, 1, n)
      <4>1. a \in Seq(Nat) /\ Len(a) = n /\ \A i \in 1..n : a[i] = got.nodes[i]
        BY <2>2, <3>2
      <4>2. b \in Seq(Nat) /\ Len(b) = n /\ \A i \in 1..n : b[i] = i
        <5>1. \A i \in 1..n : i \in 1..MaxNodes /\ 1 + i - 1 = i
          BY <2>2, <3>2, <3>4
        <5> QED BY <2>2, <3>2, <3>4, <3>5, <5>1
      <4>3. \A i \in 1..n : a[i] = b[i]
        BY <3>1, <3>2, <4>1, <4>2
      <4> HIDE DEF a, b, n
      <4>4. a = b
        BY <4>1, <4>2, <4>3, SeqEqual
      <4> QED BY <4>4 DEF a, b, n
    <3> QED BY <3>4, <3>5, <3>6 DEF IsPrefix
  <2>5. \A i, j \in DOMAIN got.nodes : i < j => got.nodes[i] < got.nodes[j]
    BY DEF Nodes, NodesInOrder, InOrder, Increasing
  <2> QED BY <2>4, <2>5 DEF DeliveredInOrder, Nodes, StopsForAReason
<1> QED BY <1>1, TypeCorrect, NodesHold, PTL

-----------------------------------------------------------------------------
(* What is told of errors *)

\* What is known of the messages of a set S when m is put behind them.
PutFacts(ms, m, S) ==
  /\ Single(ms, S) /\ (m \notin S \/ Without(ms, S)) => Single(Append(ms, m), S)
  /\ Without(ms, S) /\ m \notin S => Without(Append(ms, m), S)

\* Putting a message last.
LEMMA PutMessage ==
  ASSUME NEW ms \in Seq(MessageNames), NEW m \in MessageNames, NEW S
  PROVE  PutFacts(ms, m, S)
<1> DEFINE c == Append(ms, m)
<1>1. /\ Len(ms) \in Nat /\ DOMAIN ms = 1..Len(ms)
      /\ DOMAIN c = 1..(Len(ms) + 1) /\ c[Len(ms) + 1] = m
      /\ \A i \in 1..Len(ms) : c[i] = ms[i]
  OBVIOUS
<1> HIDE DEF c
<1>2. \A i \in DOMAIN c : (i \in DOMAIN ms /\ c[i] = ms[i]) \/ (i = Len(ms) + 1 /\ c[i] = m)
  BY <1>1
<1>3. Single(ms, S) /\ (m \notin S \/ Without(ms, S)) => Single(c, S)
  BY <1>2 DEF Single, Without
<1>4. Without(ms, S) /\ m \notin S => Without(c, S)
  BY <1>2 DEF Without
<1> QED BY <1>3, <1>4 DEF c, PutFacts

\* What is known of the messages of a set S when the first is taken.
TakeFacts(ms, S) ==
  /\ Single(ms, S) => Single(Tail(ms), S)
  /\ Single(ms, S) /\ Head(ms) \in S => Without(Tail(ms), S)
  /\ Without(ms, S) => Without(Tail(ms), S)
  /\ Head(ms) \in S => ~Without(ms, S)

\* Taking the first message.
LEMMA TakeMessage ==
  ASSUME NEW ms \in Seq(MessageNames), ms # <<>>, NEW S
  PROVE  TakeFacts(ms, S)
<1> DEFINE c == Tail(ms)
           h == Head(ms)
<1>1. /\ Len(ms) \in Nat /\ DOMAIN ms = 1..Len(ms) /\ 1 \in DOMAIN ms /\ h = ms[1]
      /\ DOMAIN c = 1..(Len(ms) - 1)
      /\ \A i \in 1..(Len(ms) - 1) : c[i] = ms[i + 1]
  OBVIOUS
<1> HIDE DEF c, h
<1>2. \A i \in DOMAIN c : i \in Nat /\ i + 1 \in DOMAIN ms /\ i + 1 # 1 /\ c[i] = ms[i + 1]
  BY <1>1
<1>3. \A i, j \in Nat : i + 1 = j + 1 => i = j
  OBVIOUS
<1>4. Single(ms, S) => Single(c, S)
  BY <1>2, <1>3 DEF Single
<1>5. Single(ms, S) /\ h \in S => Without(c, S)
  BY <1>1, <1>2 DEF Single, Without
<1>6. Without(ms, S) => Without(c, S)
  BY <1>2 DEF Without
<1>7. h \in S => ~Without(ms, S)
  BY <1>1 DEF Without
<1> QED BY <1>4, <1>5, <1>6, <1>7 DEF c, h, TakeFacts

\* A worker's messages are about its task or its release.
LEMMA WorkersAre ==
  ASSUME NEW ms
  PROVE  /\ Without(ms, TaskMessages) /\ Without(ms, ReleaseMessages)
              => Without(ms, WorkerMessages)
         /\ Without(ms, WorkerMessages)
              => Without(ms, TaskMessages) /\ Without(ms, ReleaseMessages)
  BY DEF Without, WorkerMessages

\* Until the manager is shut down a request is terminated at most once, never while a
\* worker has it, and its channels are closed only then.
THEOREM TerminatedOnceHolds == Spec => []TerminatedOnce
<1> USE DEF contexts, status, senders, collectors, history
<1>1. Init => TerminatedOnce
  BY DEF Init, TerminatedOnce, MessagesMatch, Single, Without
<1>2. ASSUME TypeOK, TerminatedOnce, [Next]_vars PROVE TerminatedOnce'
  <2> USE <1>2
  <2>1. messages \in Seq(MessageNames)
    BY DEF TypeOK
  \* Steps that leave the request alone.
  <2>2. ASSUME UNCHANGED <<request, newCall, worker, manager, closed>>, rmDone => rmDone',
               ~rmDone /\ MessagesMatch => MessagesMatch'
        PROVE  TerminatedOnce'
    BY <2>2 DEF TerminatedOnce
  <2>3. ASSUME UNCHANGED <<request, newCall, worker, messages>>,
               ~rmDone /\ MessagesMatch
        PROVE  MessagesMatch'
    BY <2>3 DEF MessagesMatch
  <2>4. ASSUME NEW m \in MessageNames \ (CallMessages \union WorkerMessages), MessagesMatch,
               UNCHANGED <<request, newCall, worker>>, messages' = Append(messages, m)
        PROVE  MessagesMatch'
    <3>1. /\ PutFacts(messages, m, CallMessages) /\ PutFacts(messages, m, WorkerMessages)
          /\ PutFacts(messages, m, TaskMessages) /\ PutFacts(messages, m, ReleaseMessages)
      BY <2>1, PutMessage
    <3>2. m \notin TaskMessages /\ m \notin ReleaseMessages
      BY DEF WorkerMessages
    <3> QED BY <2>4, <3>1, <3>2 DEF PutFacts, MessagesMatch
  <2>5. /\ {"close", "other", "fail"} \subseteq MessageNames \ (CallMessages \union WorkerMessages)
        /\ "new" \in CallMessages /\ "new" \notin WorkerMessages /\ "new" \notin TaskMessages
        /\ "new" \notin ReleaseMessages /\ "task" \notin CallMessages /\ "task" \in WorkerMessages
        /\ "task" \in TaskMessages /\ "task" \notin ReleaseMessages
        /\ \A m \in {"release", "paused"} : /\ m \notin CallMessages /\ m \in WorkerMessages
                                            /\ m \notin TaskMessages /\ m \in ReleaseMessages
    BY DEF MessageNames, CallMessages, WorkerMessages, TaskMessages, ReleaseMessages
  <2>6. {"new", "task", "release", "paused"} \subseteq MessageNames
    BY DEF MessageNames
  \* The first message is taken.
  <2>7. ASSUME NEW m, Head1(m), ~rmDone
        PROVE  /\ manager = "loop" /\ MessagesMatch
               /\ Single(messages', CallMessages) /\ Single(messages', WorkerMessages)
               /\ Without(messages, CallMessages) => Without(messages', CallMessages)
               /\ Without(messages, TaskMessages) => Without(messages', TaskMessages)
               /\ Without(messages, ReleaseMessages) => Without(messages', ReleaseMessages)
               /\ m \in CallMessages => /\ Without(messages', CallMessages)
                                        /\ ~Without(messages, CallMessages)
               /\ m \in WorkerMessages => Without(messages', WorkerMessages)
               /\ m \in TaskMessages => ~Without(messages, TaskMessages)
               /\ m \in ReleaseMessages => ~Without(messages, ReleaseMessages)
    <3>1. messages # <<>> /\ messages' = Tail(messages) /\ m = Head(messages) /\ manager = "loop"
      BY <2>7 DEF Head1
    <3>2. /\ TakeFacts(messages, CallMessages) /\ TakeFacts(messages, WorkerMessages)
          /\ TakeFacts(messages, TaskMessages) /\ TakeFacts(messages, ReleaseMessages)
      BY <2>1, <3>1, TakeMessage
    <3>3. MessagesMatch
      BY <2>7 DEF TerminatedOnce
    <3> QED BY <3>1, <3>2, <3>3 DEF TakeFacts, MessagesMatch
  \* A message is put, or the manager is shut down.
  <2>8. ASSUME NEW m \in MessageNames, Send(m, FALSE), ~rmDone
        PROVE  /\ PutFacts(messages, m, CallMessages) /\ PutFacts(messages, m, WorkerMessages)
               /\ PutFacts(messages, m, TaskMessages) /\ PutFacts(messages, m, ReleaseMessages)
               /\ messages' = Append(messages, m)
    BY <2>1, <2>8, PutMessage DEF Send
  <2>9. ~rmDone => MessagesMatch
    BY DEF TerminatedOnce
  <2>10. CASE CallerContextEnds
    BY <2>10, <2>2, <2>3 DEF CallerContextEnds
  <2>11. CASE Shutdown
    BY <2>11 DEF Shutdown, TerminatedOnce
  <2>12. CASE NewRequest
    <3>1. /\ newCall = "none" /\ newCall' = "waiting" /\ rmDone' = rmDone
          /\ UNCHANGED <<request, worker, manager, closed>>
      BY <2>12 DEF NewRequest
    <3>2. ASSUME ~rmDone PROVE MessagesMatch'
      <4>1. MessagesMatch /\ request = "none" /\ Without(messages, CallMessages)
        BY <2>9, <3>1, <3>2 DEF MessagesMatch
      <4>2. CASE messages' = Append(messages, "new")
        <5>1. /\ PutFacts(messages, "new", CallMessages)
                   /\ PutFacts(messages, "new", WorkerMessages)
              /\ PutFacts(messages, "new", TaskMessages)
                   /\ PutFacts(messages, "new", ReleaseMessages)
          BY <2>1, <2>6, PutMessage
        <5> QED BY <2>5, <3>1, <4>1, <4>2, <5>1 DEF PutFacts, MessagesMatch
      <4>3. CASE messages' = messages
        BY <3>1, <4>1, <4>3 DEF MessagesMatch
      <4> QED BY <2>12, <4>2, <4>3 DEF NewRequest, Send
    <3> QED BY <3>1, <3>2 DEF TerminatedOnce
  <2>13. CASE EmptyResponse
    BY <2>13 DEF EmptyResponse, TerminatedOnce
  <2>14. CASE ReadResponse
    BY <2>14, <2>2, <2>3 DEF ReadResponse
  <2>15. CASE ReadError
    BY <2>15, <2>2, <2>3 DEF ReadError
  <2>16. CASE ReadCancelled
    BY <2>16, <2>2, <2>3 DEF ReadCancelled
  <2>17. CASE HandleNew
    <3> SUFFICES ASSUME ~rmDone PROVE TerminatedOnce'
      BY <2>17 DEF HandleNew, TerminatedOnce
    <3>1. /\ Without(messages', CallMessages) /\ MessagesMatch /\ request = "none"
               /\ newCall # "none"
          /\ Single(messages', CallMessages) /\ Single(messages', WorkerMessages)
          /\ Without(messages, TaskMessages) => Without(messages', TaskMessages)
          /\ Without(messages, ReleaseMessages) => Without(messages', ReleaseMessages)
      BY <2>17, <2>5, <2>7 DEF HandleNew, MessagesMatch
    <3>2. /\ UNCHANGED <<newCall, worker>> /\ manager' = "reply"
          /\ \/ request' = "queued" /\ closed' = closed
             \/ request' = "refused" /\ closed' = TRUE
      BY <2>17 DEF HandleNew
    <3>3. MessagesMatch'
      BY <3>1, <3>2 DEF MessagesMatch
    <3>4. worker \notin {"working", "sending", "releasing"} /\ ~closed
      BY <3>1 DEF TerminatedOnce
    <3> QED BY <3>2, <3>3, <3>4 DEF TerminatedOnce
  <2>18. CASE Reply
    <3> SUFFICES ASSUME ~rmDone PROVE TerminatedOnce'
      BY <2>18 DEF Reply, TerminatedOnce
    <3>1. /\ manager = "reply" /\ newCall = "waiting" /\ manager' = "loop" /\ newCall' = "returned"
          /\ UNCHANGED <<messages, request, worker, closed>>
      BY <2>18 DEF Reply
    <3>2. MessagesMatch'
      BY <2>9, <3>1 DEF MessagesMatch
    <3> QED BY <3>1, <3>2 DEF TerminatedOnce
  <2>19. ASSUME NEW m, NEW e, HandleQuietly(m, e) PROVE TerminatedOnce'
    <3> SUFFICES ASSUME ~rmDone PROVE TerminatedOnce'
      BY <2>19 DEF HandleQuietly, TerminatedOnce
    <3>1. /\ UNCHANGED <<newCall, request, worker, closed>> /\ manager = "loop" /\ Head1(m)
          /\ \/ manager' = "loop"
             \/ manager' \in {"stop", "report"} /\ request # "running" /\ InProgress
      BY <2>19 DEF HandleQuietly, Cancel, Head1
    <3>2. MessagesMatch'
      BY <2>7, <2>9, <3>1 DEF MessagesMatch
    <3> QED BY <3>1, <3>2 DEF TerminatedOnce, InProgress
  <2>20. CASE HandleOther
    <3> SUFFICES ASSUME ~rmDone PROVE TerminatedOnce'
      BY <2>20 DEF HandleOther, TerminatedOnce
    <3>1. UNCHANGED <<newCall, request, worker, closed, manager, rmDone>> /\ Head1("other")
      BY <2>20 DEF HandleOther
    <3>2. MessagesMatch'
      BY <2>7, <2>9, <3>1 DEF MessagesMatch
    <3> QED BY <2>2, <3>1, <3>2
  <2>21. CASE HandleTask
    <3> SUFFICES ASSUME ~rmDone PROVE TerminatedOnce'
      BY <2>21 DEF HandleTask, TerminatedOnce
    <3>1. /\ Head1("task") /\ UNCHANGED <<newCall, closed, manager>>
          /\ \/ InProgress /\ request' = "running" /\ worker' = "working"
             \/ ~InProgress /\ request' = request /\ worker' = "none"
      BY <2>21 DEF HandleTask
    <3>2. /\ Without(messages', WorkerMessages) /\ MessagesMatch /\ manager = "loop"
          /\ Single(messages', CallMessages) /\ Single(messages', WorkerMessages)
          /\ Without(messages, CallMessages) => Without(messages', CallMessages)
      BY <2>5, <2>7, <3>1
    <3>3. Without(messages', TaskMessages) /\ Without(messages', ReleaseMessages)
      BY <3>2, WorkersAre
    <3>4. MessagesMatch'
      BY <3>1, <3>2, <3>3 DEF MessagesMatch, InProgress
    <3> QED BY <3>1, <3>2, <3>4 DEF TerminatedOnce, InProgress
  <2>22. CASE HandleRelease
    <3> SUFFICES ASSUME ~rmDone PROVE TerminatedOnce'
      BY <2>22 DEF HandleRelease, TerminatedOnce
    <3>1. /\ UNCHANGED <<newCall, closed>> /\ worker' = "none"
          /\ \/ Head1("paused") /\ request' = "paused" /\ manager' = manager
             \/ /\ Head1("release") /\ request' = request /\ manager' \in {"stop", "report"}
      BY <2>22 DEF HandleRelease
    <3>2. PICK m \in {"release", "paused"} : Head1(m)
      BY <3>1
    <3>3. /\ Without(messages', WorkerMessages) /\ MessagesMatch /\ manager = "loop"
          /\ Single(messages', CallMessages) /\ Single(messages', WorkerMessages)
          /\ Without(messages, CallMessages) => Without(messages', CallMessages)
          /\ worker = "releasing"
      BY <2>5, <2>7, <3>2 DEF MessagesMatch
    <3>4. Without(messages', TaskMessages) /\ Without(messages', ReleaseMessages)
      BY <3>3, WorkersAre
    <3>5. request = "running"
      BY <3>3 DEF TerminatedOnce
    <3>6. MessagesMatch'
      BY <3>1, <3>3, <3>4, <3>5 DEF MessagesMatch
    <3> QED BY <3>1, <3>3, <3>5, <3>6 DEF TerminatedOnce
  <2>23. CASE CloseChannels
    <3> SUFFICES ASSUME ~rmDone PROVE TerminatedOnce'
      BY <2>23 DEF CloseChannels, TerminatedOnce
    <3>1. /\ manager = "stop" /\ manager' = "loop" /\ request' = "ended" /\ closed' = TRUE
          /\ UNCHANGED <<newCall, messages, worker>>
      BY <2>23 DEF CloseChannels
    <3>2. /\ request \in {"queued", "running", "paused"}
          /\ worker \notin {"working", "sending", "releasing"}
      BY <3>1 DEF TerminatedOnce
    <3>3. MessagesMatch'
      BY <2>9, <3>1, <3>2 DEF MessagesMatch
    <3> QED BY <3>1, <3>2, <3>3 DEF TerminatedOnce
  <2>24. CASE ManagerStops
    BY <2>24 DEF ManagerStops, TerminatedOnce
  <2>25. ASSUME NEW m \in {"other", "fail"}, OtherMessage(m) PROVE TerminatedOnce'
    <3>1. UNCHANGED <<request, newCall, worker, manager, closed, rmDone>>
            /\ messages' = Append(messages, m)
      BY <2>25 DEF OtherMessage
    <3> QED BY <2>25, <2>2, <2>4, <2>5, <3>1
  <2>26. CASE Visit
    BY <2>26, <2>2, <2>3 DEF Visit
  <2>27. CASE VisitorCancelled
    BY <2>27, <2>2, <2>3 DEF VisitorCancelled
  <2>28. CASE TakeTask
    <3> SUFFICES ASSUME ~rmDone PROVE TerminatedOnce'
      BY <2>28 DEF TakeTask, TerminatedOnce
    <3>1. /\ worker = "none" /\ worker' = "asking" /\ Send("task", FALSE)
          /\ UNCHANGED <<newCall, request, manager, closed>>
      BY <2>28 DEF TakeTask
    <3>2. /\ MessagesMatch /\ Without(messages, TaskMessages) /\ Without(messages, ReleaseMessages)
          /\ Without(messages, WorkerMessages)
      BY <2>9, <3>1, WorkersAre DEF MessagesMatch
    <3>3. MessagesMatch'
      BY <2>5, <2>6, <2>8, <3>1, <3>2 DEF PutFacts, MessagesMatch
    <3> QED BY <3>1, <3>3 DEF TerminatedOnce
  <2>29. CASE OfferError
    <3> SUFFICES ASSUME ~rmDone PROVE TerminatedOnce'
      BY <2>29 DEF OfferError, TerminatedOnce
    <3>1. /\ worker = "working" /\ worker' = "sending"
          /\ UNCHANGED <<newCall, request, manager, closed, messages>>
      BY <2>29 DEF OfferError
    <3>2. MessagesMatch'
      BY <2>9, <3>1 DEF MessagesMatch
    <3> QED BY <3>1, <3>2 DEF TerminatedOnce
  <2>30. CASE WorkerCancelled
    <3> SUFFICES ASSUME ~rmDone PROVE TerminatedOnce'
      BY <2>30 DEF WorkerCancelled, TerminatedOnce
    <3>1. /\ worker = "sending" /\ worker' = "working"
          /\ UNCHANGED <<newCall, request, manager, closed, messages>>
      BY <2>30 DEF WorkerCancelled
    <3>2. MessagesMatch'
      BY <2>9, <3>1 DEF MessagesMatch
    <3> QED BY <3>1, <3>2 DEF TerminatedOnce
  <2>31. ASSUME NEW m \in {"release", "paused"}, ReleaseTask(m) PROVE TerminatedOnce'
    <3> SUFFICES ASSUME ~rmDone PROVE TerminatedOnce'
      BY <2>31 DEF ReleaseTask, TerminatedOnce
    <3>1. /\ worker = "working" /\ worker' = "releasing" /\ Send(m, FALSE)
          /\ UNCHANGED <<newCall, request, manager, closed>>
      BY <2>31 DEF ReleaseTask
    <3>2. /\ MessagesMatch /\ Without(messages, TaskMessages) /\ Without(messages, ReleaseMessages)
          /\ Without(messages, WorkerMessages)
      BY <2>9, <3>1, WorkersAre DEF MessagesMatch
    <3>3. MessagesMatch'
      BY <2>31, <2>5, <2>6, <2>8, <3>1, <3>2 DEF PutFacts, MessagesMatch
    <3> QED BY <3>1, <3>3 DEF TerminatedOnce
  <2>32. CASE ReceiveNode
    BY <2>32, <2>2, <2>3 DEF ReceiveNode
  <2>33. CASE ResponsesClosed
    BY <2>33, <2>2, <2>3 DEF ResponsesClosed
  <2>34. CASE ResponsesCancelled
    BY <2>34, <2>2, <2>3 DEF ResponsesCancelled
  <2>35. CASE SendCancel
    <3>1. /\ UNCHANGED <<request, newCall, worker, manager, closed, rmDone>>
          /\ messages' = Append(messages, "close")
      BY <2>35 DEF SendCancel
    <3> QED BY <2>2, <2>4, <2>5, <3>1
  <2>36. CASE ResponsesStopped
    BY <2>36, <2>2, <2>3 DEF ResponsesStopped
  <2>37. CASE ReceiveError
    <3> SUFFICES ASSUME ~rmDone PROVE TerminatedOnce'
      BY <2>37 DEF ReceiveError, TerminatedOnce
    <3>1. /\ UNCHANGED <<newCall, request, closed, messages>>
          /\ \/ worker = "sending" /\ worker' = "working" /\ manager' = manager
             \/ manager = "report" /\ manager' = "stop" /\ worker' = worker
      BY <2>37 DEF ReceiveError
    <3>2. MessagesMatch'
      BY <2>9, <3>1 DEF MessagesMatch
    <3> QED BY <3>1, <3>2 DEF TerminatedOnce
  <2>38. CASE ReceiveBuffered
    BY <2>38, <2>2, <2>3 DEF ReceiveBuffered
  <2>39. CASE ErrorsClosed
    BY <2>39, <2>2, <2>3 DEF ErrorsClosed
  <2>40. CASE ErrorsCancelled
    BY <2>40, <2>2, <2>3 DEF ErrorsCancelled
  <2>41. CASE ErrorsStopped
    BY <2>41, <2>2, <2>3 DEF ErrorsStopped
  <2>42. CASE UNCHANGED vars
    BY <2>42, <2>2, <2>3 DEF vars
  <2> QED BY <2>10, <2>11, <2>12, <2>13, <2>14, <2>15, <2>16, <2>17, <2>18, <2>19, <2>20,
             <2>21, <2>22, <2>23, <2>24, <2>25, <2>26, <2>27, <2>28, <2>29, <2>30, <2>31,
             <2>32, <2>33, <2>34, <2>35, <2>36, <2>37, <2>38, <2>39, <2>40, <2>41, <2>42
      DEF Next, Caller, Reader, Manager, Traversal, Worker, CollectResponses, CollectErrors
<1> QED BY <1>1, <1>2, TypeCorrect, PTL DEF Spec

\* The goroutine for errors leaves its channel only when it is closed and empty, and
\* a caller whose context ended before that is told.
THEOREM ErrorsInvHolds == Spec => []ErrorsInv
<1> USE DEF contexts, status, senders, collectors, history
<1>1. Init => ErrorsInv
  BY DEF Init, ErrorsInv
<1>2. ASSUME TypeOK, Started, Nodes, TerminatedOnce, ErrorsInv, [Next]_vars PROVE ErrorsInv'
  <2> USE <1>2
  <2>1. errors \in ErrorsType /\ got \in GotType /\ late \in BOOLEAN
    BY DEF TypeOK
  <2>2. errors.errs \in BOOLEAN /\ got.cancelled \in BOOLEAN /\ errors.buf \in Seq(ErrorNames)
    BY <2>1 DEF ErrorsType, GotType
  \* Steps that leave the errors alone.
  <2>3. ASSUME UNCHANGED <<errors, closed, errBuffer, late>>, got'.cancelled = got.cancelled,
               rmDone => rmDone', ctxDone => ctxDone'
        PROVE  ErrorsInv'
    BY <2>3 DEF ErrorsInv
  \* The channel is still to be read while the request is not over.
  <2>4. ASSUME ~rmDone, request \notin {"refused", "ended"} PROVE errors.errs = TRUE
    BY <2>2, <2>4 DEF ErrorsInv, TerminatedOnce
  \* Steps of a goroutine that goes on reading.
  <2>5. ASSUME errors'.errs = TRUE, errors'.at # "done", late' => ctxDone' PROVE ErrorsInv'
    BY <2>5 DEF ErrorsInv
  <2>6. CASE CallerContextEnds
    BY <2>6, <2>3 DEF CallerContextEnds
  <2>7. CASE Shutdown
    BY <2>7, <2>3 DEF Shutdown
  <2>8. CASE NewRequest
    BY <2>8, <2>3 DEF NewRequest
  <2>9. CASE EmptyResponse
    BY <2>9, <2>3 DEF EmptyResponse
  <2>10. CASE ReadResponse
    <3>1. got'.cancelled = got.cancelled
      BY <2>1, <2>10 DEF ReadResponse, GotType
    <3> QED BY <2>10, <2>3, <3>1 DEF ReadResponse
  <2>11. CASE ReadError
    <3>1. /\ errors.at = "collect" /\ errors.buf # <<>>
          /\ errors' = NextErrors([errors EXCEPT !.buf = Tail(@)])
          /\ UNCHANGED <<closed, errBuffer, late, got, rmDone, ctxDone>>
      BY <2>11 DEF ReadError
    <3>2. Tail(errors.buf) \in Seq(ErrorNames)
      BY <2>2, <3>1
    <3>3. /\ [errors EXCEPT !.buf = Tail(@)] \in ErrorsType
          /\ [errors EXCEPT !.buf = Tail(@)].at = "collect"
          /\ [errors EXCEPT !.buf = Tail(@)].errs = errors.errs
      BY <2>1, <3>1, <3>2 DEF ErrorsType
    <3>4. /\ errors'.errs = errors.errs /\ errors'.at \in {"collect", "done"}
          /\ errors'.at = "done" => errors'.buf = <<>> /\ errors'.errs = FALSE
      BY <3>1, <3>3, ErrorLoopDecides
    <3> QED BY <3>1, <3>4 DEF ErrorsInv
  <2>12. CASE ReadCancelled
    <3>1. /\ UNCHANGED <<closed, errBuffer, late, rmDone, ctxDone>>
          /\ \/ errors' = [errors EXCEPT !.at = "done"]
             \/ errors' = NextErrors([errors EXCEPT !.at = "collect"])
      BY <2>12 DEF ReadCancelled
    <3>2. got'.cancelled = TRUE
      BY <2>1, <2>12 DEF ReadCancelled, GotType
    <3>3. /\ [errors EXCEPT !.at = "collect"] \in ErrorsType
          /\ [errors EXCEPT !.at = "collect"].errs = errors.errs
          /\ [errors EXCEPT !.at = "done"].errs = errors.errs
      BY <2>1 DEF ErrorsType
    <3>4. errors'.errs = errors.errs
      BY <3>1, <3>3, ErrorLoopDecides
    <3> QED BY <3>1, <3>2, <3>4 DEF ErrorsInv
  <2>13. CASE HandleNew
    <3>1. UNCHANGED <<errors, late, got, rmDone, ctxDone>> /\ messages # <<>>
            /\ Head(messages) = "new"
      BY <2>13 DEF HandleNew, Head1
    <3>2. CASE rmDone
      BY <3>1, <3>2 DEF ErrorsInv
    <3>3. CASE ~rmDone
      <4>1. messages \in Seq(MessageNames) /\ "new" \in CallMessages
        BY DEF TypeOK, CallMessages
      <4>2. TakeFacts(messages, CallMessages)
        BY <3>1, <4>1, TakeMessage
      <4>3. request = "none"
        BY <3>1, <3>3, <4>1, <4>2 DEF TakeFacts, TerminatedOnce, MessagesMatch
      <4>4. errors.errs = TRUE
        BY <2>4, <3>3, <4>3
      <4> QED BY <3>1, <3>3, <4>4 DEF ErrorsInv
    <3> QED BY <3>2, <3>3
  <2>14. CASE Reply
    <3>1. newCall = "waiting" /\ UNCHANGED <<late, ctxDone>>
      BY <2>14 DEF Reply
    <3>2. errors'.at = "collect" /\ errors'.errs = errors.errs
      BY <2>1, <2>14 DEF Reply, ErrorsType
    <3>3. errors.errs = TRUE
      BY <3>1 DEF Started
    <3> QED BY <2>5, <3>1, <3>2, <3>3 DEF ErrorsInv
  <2>15. ASSUME NEW m, NEW e, HandleQuietly(m, e) PROVE ErrorsInv'
    BY <2>15, <2>3 DEF HandleQuietly
  <2>16. CASE HandleOther
    BY <2>16, <2>3 DEF HandleOther
  <2>17. CASE HandleTask
    BY <2>17, <2>3 DEF HandleTask
  <2>18. CASE HandleRelease
    BY <2>18, <2>3 DEF HandleRelease
  <2>19. CASE CloseChannels
    <3>1. /\ ~rmDone /\ manager = "stop" /\ late' = (late \/ ctxDone)
          /\ UNCHANGED <<errors, errBuffer, got, rmDone, ctxDone>>
      BY <2>19 DEF CloseChannels
    <3>2. request \notin {"refused", "ended"}
      BY <3>1 DEF TerminatedOnce
    <3>3. errors.errs = TRUE
      BY <2>4, <3>1, <3>2
    <3> QED BY <3>1, <3>3 DEF ErrorsInv
  <2>20. CASE ManagerStops
    BY <2>20, <2>3 DEF ManagerStops
  <2>21. ASSUME NEW m, OtherMessage(m) PROVE ErrorsInv'
    BY <2>21, <2>3 DEF OtherMessage
  <2>22. CASE Visit
    BY <2>22, <2>3 DEF Visit
  <2>23. CASE VisitorCancelled
    BY <2>23, <2>3 DEF VisitorCancelled
  <2>24. CASE TakeTask
    BY <2>24, <2>3 DEF TakeTask
  <2>25. CASE OfferError
    BY <2>25, <2>3 DEF OfferError
  <2>26. CASE WorkerCancelled
    BY <2>26, <2>3 DEF WorkerCancelled
  <2>27. ASSUME NEW m, ReleaseTask(m) PROVE ErrorsInv'
    BY <2>27, <2>3 DEF ReleaseTask
  <2>28. CASE ReceiveNode
    BY <2>28, <2>3 DEF ReceiveNode
  <2>29. CASE ResponsesClosed
    BY <2>29, <2>3 DEF ResponsesClosed
  <2>30. CASE ResponsesCancelled
    BY <2>30, <2>3 DEF ResponsesCancelled
  <2>31. CASE SendCancel
    BY <2>31, <2>3 DEF SendCancel
  <2>32. CASE ResponsesStopped
    BY <2>32, <2>3 DEF ResponsesStopped
  <2>33. CASE ReceiveError
    <3>1. /\ UNCHANGED <<closed, errBuffer, got, rmDone, ctxDone>>
          /\ worker = "sending" \/ manager = "report"
          /\ \/ /\ errors.at = "collect" /\ errors.errs /\ late' = late
                /\ errors' = [errors EXCEPT !.buf = Append(@, Offered)]
             \/ responses.at = "closing" /\ late' = TRUE /\ errors' = errors
      BY <2>33 DEF ReceiveError, Closing
    <3>2. CASE /\ errors.at = "collect" /\ errors.errs /\ late' = late
               /\ errors' = [errors EXCEPT !.buf = Append(@, Offered)]
      <4>1. errors'.at = "collect" /\ errors'.errs = TRUE
        BY <2>1, <2>2, <3>2 DEF ErrorsType
      <4> QED BY <2>5, <3>1, <3>2, <4>1 DEF ErrorsInv
    <3>3. CASE responses.at = "closing" /\ late' = TRUE /\ errors' = errors
      <4>1. ctxDone
        BY <3>3 DEF Nodes, StopsForAReason
      <4>2. CASE rmDone
        BY <3>1, <3>3, <4>1, <4>2 DEF ErrorsInv
      <4>3. CASE ~rmDone
        <5>1. errors.errs = TRUE
          BY <2>4, <3>1, <4>3 DEF TerminatedOnce
        <5> QED BY <3>1, <3>3, <4>1, <5>1 DEF ErrorsInv
      <4> QED BY <4>2, <4>3
    <3> QED BY <3>1, <3>2, <3>3
  <2>34. CASE ReceiveBuffered
    <3>1. /\ UNCHANGED <<closed, got, rmDone, ctxDone>>
          /\ errBuffer # <<>> /\ errBuffer' = <<>>
          /\ \/ /\ errors.at = "collect" /\ late' = late
                /\ errors' = [errors EXCEPT !.buf = Append(@, Head(errBuffer))]
             \/ responses.at = "closing" /\ late' = TRUE /\ errors' = errors
      BY <2>34 DEF ReceiveBuffered, Closing
    <3>2. late' => ctxDone
      BY <3>1 DEF ErrorsInv, Nodes, StopsForAReason
    <3>3. /\ errors'.errs = errors.errs /\ errors'.at = errors.at
          /\ errors.at # "collect" => errors' = errors
      BY <2>1, <3>1 DEF ErrorsType
    <3>4. CASE rmDone
      BY <3>1, <3>2, <3>4 DEF ErrorsInv
    <3>5. CASE ~rmDone
      <4>1. errors.errs = TRUE
        BY <2>2, <3>1, <3>5 DEF ErrorsInv
      <4> QED BY <3>1, <3>2, <3>3, <3>5, <4>1 DEF ErrorsInv
    <3> QED BY <3>4, <3>5
  <2>35. CASE ErrorsClosed
    <3>1. /\ UNCHANGED <<closed, errBuffer, late, got, rmDone, ctxDone>> /\ closed
               /\ errBuffer = <<>>
          /\ \/ errors.at = "collect" /\ errors' = AfterClose([errors EXCEPT !.errs = FALSE])
             \/ errors' = errors
      BY <2>35 DEF ErrorsClosed
    <3>2. CASE errors.at = "collect" /\ errors' = AfterClose([errors EXCEPT !.errs = FALSE])
      <4>0. /\ [errors EXCEPT !.errs = FALSE] \in ErrorsType
            /\ [errors EXCEPT !.errs = FALSE].at = "collect"
            /\ [errors EXCEPT !.errs = FALSE].errs = FALSE
        BY <2>1, <3>2 DEF ErrorsType
      <4>1. PICK e \in ErrorsType : /\ e = [errors EXCEPT !.errs = FALSE] /\ e.at = "collect"
                                    /\ e.errs = FALSE
        BY <4>0
      <4>2. CASE ctxDone
        <5>1. errors'.at = "telling" /\ errors'.errs = FALSE
          BY <3>2, <4>1, <4>2 DEF AfterClose, ErrorsType
        <5> QED BY <3>1, <5>1 DEF ErrorsInv
      <4>3. CASE ~ctxDone
        <5>1. errors' = NextErrors(e)
          BY <3>2, <4>1, <4>3 DEF AfterClose
        <5>2. /\ errors'.errs = FALSE /\ errors'.at \in {"collect", "done"}
              /\ errors'.at = "done" => errors'.buf = <<>>
          BY <4>1, <5>1, ErrorLoopDecides
        <5> QED BY <3>1, <4>3, <5>2 DEF ErrorsInv
      <4> QED BY <4>2, <4>3
    <3>3. CASE errors' = errors
      BY <2>3, <3>1, <3>3
    <3> QED BY <3>1, <3>2, <3>3
  <2>36. CASE ErrorsCancelled
    <3>1. UNCHANGED <<closed, errBuffer, late, got, rmDone, ctxDone>>
      BY <2>36 DEF ErrorsCancelled
    <3>2. errors'.at = "cancelled" /\ errors'.errs = errors.errs
      BY <2>1, <2>36 DEF ErrorsCancelled, ErrorsType
    <3> QED BY <3>1, <3>2 DEF ErrorsInv
  <2>37. CASE ErrorsStopped
    BY <2>37 DEF ErrorsStopped, ErrorsInv
  <2>38. CASE UNCHANGED vars
    BY <2>38, <2>3 DEF vars
  <2> QED BY <2>6, <2>7, <2>8, <2>9, <2>10, <2>11, <2>12, <2>13, <2>14, <2>15, <2>16, <2>17,
             <2>18, <2>19, <2>20, <2>21, <2>22, <2>23, <2>24, <2>25, <2>26, <2>27, <2>28,
             <2>29, <2>30, <2>31, <2>32, <2>33, <2>34, <2>35, <2>36, <2>37, <2>38
      DEF Next, Caller, Reader, Manager, Traversal, Worker, CollectResponses, CollectErrors
<1> QED BY <1>1, <1>2, TypeCorrect, StartedHolds, NodesHold, TerminatedOnceHolds, PTL DEF Spec

\* ErrorsAreTold: when the error channel is closed the caller has read every error, or
\* knows that its context ended.
THEOREM ErrorsAreToldHolds == Spec => []ErrorsAreTold
<1>1. ErrorsInv => ErrorsAreTold
  BY DEF ErrorsInv, ErrorsAreTold
<1> QED BY <1>1, ErrorsInvHolds, PTL

=============================================================================
