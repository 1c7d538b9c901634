-------------------------------- MODULE Resume --------------------------------
(***************************************************************************)
(* A request that is paused at the requestor and resumed, seen by both     *)
(* sides: the request manager's executor sends a Cancel when it pauses and *)
(* asks again, under the same request ID, when it is resumed; the response *)
(* manager keys its responses, its tasks and its events by that ID, while  *)
(* the worker and the subscriber of the earlier response are still at      *)
(* work.  Modules RequestManager, Network and ResponseManager have the     *)
(* parts in detail; here there is one request ID, nothing is lost, every   *)
(* hook validates and nobody pauses the response.                          *)
(*                                                                         *)
(* Response i answers the i-th time the request was sent.  MaxPauses       *)
(* bounds how often the request is paused, MaxBlocks the blocks of a       *)
(* response.                                                               *)
(***************************************************************************)
EXTENDS Integers, Sequences

CONSTANTS MaxPauses, MaxBlocks

Responses == 1..(MaxPauses + 1)

VARIABLES
  requestor,  \* the request: "asking" next, "waiting" for an answer, "paused", or "over"
  asked,      \* how often it has been sent
  unsent,     \* what the builder of the requestor's message queue holds under the ID
  wire,       \* the messages on their way
  current,    \* inProgressResponses under the ID; 0 if there is none
  state,      \* the state of each response
  errSignal,  \* the responses whose ErrSignal holds the cancellation
  pending,    \* the task queue holds a task for the ID
  starting,   \* how many workers have taken a task and not started it
  worker,     \* the worker on each response: "idle", "traverse", "cancelled" or "complete"
  left,       \* the blocks each response has not sent
  finals      \* the responses whose final status is in the message queue

requesting == <<requestor, asked>>
responses  == <<current, state, errSignal, pending>>
executing  == <<starting, worker, left>>
vars == <<requesting, unsent, wire, responses, executing, finals>>

Init ==
  /\ requestor = "asking"
  /\ asked = 0
  /\ unsent = <<>>
  /\ wire = <<>>
  /\ current = 0
  /\ state = [i \in Responses |-> "new"]
  /\ errSignal = {}
  /\ pending = FALSE
  /\ starting = 0
  /\ worker = [i \in Responses |-> "idle"]
  /\ left = [i \in Responses |-> MaxBlocks]
  /\ finals = {}

-----------------------------------------------------------------------------
(* The requestor *)

\* Builder.AddRequest: a request replaces an unsent one with the same ID.
AddRequest(request) == unsent' = <<request>>

\* startRemoteRequest, for the first task and for each one after a pause.
StartRemoteRequest ==
  /\ requestor = "asking"
  /\ requestor' = "waiting"
  /\ asked' = asked + 1
  /\ AddRequest([type |-> "New", response |-> asked + 1])
  /\ UNCHANGED <<wire, responses, executing, finals>>

\* ExecuteTask when its traversal returns ErrPaused.
Pause ==
  /\ requestor = "waiting"
  /\ asked <= MaxPauses
  /\ requestor' = "paused"
  /\ AddRequest([type |-> "Cancel"])
  /\ UNCHANGED <<asked, wire, responses, executing, finals>>

\* unpause, and the next task up to the first block that is missing.
Unpause ==
  /\ requestor = "paused"
  /\ requestor' = "asking"
  /\ UNCHANGED <<asked, unsent, wire, responses, executing, finals>>

\* sendMessage takes what the builder holds.
SendMessage ==
  /\ unsent # <<>>
  /\ wire' = wire \o unsent
  /\ unsent' = <<>>
  /\ UNCHANGED <<requesting, responses, executing, finals>>

-----------------------------------------------------------------------------
(* The response manager *)

Working == starting > 0 \/ \E i \in Responses : worker[i] # "idle"

\* PushTask; the peer task queue drops a task with a topic that is active already.
PushTask == pending' = (pending \/ ~Working)

\* terminateRequest: whatever response is under the ID is forgotten.
TerminateRequest ==
  /\ current' = 0
  /\ state' = IF current = 0 THEN state ELSE [state EXCEPT ![current] = "terminated"]

\* newRequest replaces what is in progress under the ID.
NewRequest(i) ==
  /\ current' = i
  /\ state' = [state EXCEPT ![i] = "Queued"]
  /\ PushTask
  /\ UNCHANGED errSignal

CurrentState == IF current = 0 THEN "none" ELSE state[current]

\* abortRequest for a Cancel message.
AbortRequest ==
  /\ pending' = (pending /\ current = 0)
  /\ \/ /\ CurrentState \in {"none", "CompletingSend"}
        /\ UNCHANGED <<current, state, errSignal>>
     \/ /\ CurrentState = "Running"
        /\ errSignal' = errSignal \union {current}
        /\ UNCHANGED <<current, state>>
     \/ /\ CurrentState = "Queued"
        /\ TerminateRequest
        /\ UNCHANGED errSignal

\* processRequests
ProcessRequests ==
  /\ wire # <<>>
  /\ wire' = Tail(wire)
  /\ LET request == Head(wire)
     IN  IF request.type = "New" THEN NewRequest(request.response) ELSE AbortRequest
  /\ UNCHANGED <<requesting, unsent, executing, finals>>

-----------------------------------------------------------------------------
(* The workers *)

\* PopTasks
PopTask ==
  /\ pending
  /\ pending' = FALSE
  /\ starting' = starting + 1
  /\ UNCHANGED <<requesting, unsent, wire, current, state, errSignal, worker, left, finals>>

\* startTask: the worker is given the response that is under the ID by now.
StartTask ==
  /\ starting > 0
  /\ starting' = starting - 1
  /\ IF CurrentState \notin {"none", "CompletingSend"}
       THEN /\ state' = [state EXCEPT ![current] = "Running"]
            /\ worker' = [worker EXCEPT ![current] = "traverse"]
       ELSE UNCHANGED <<state, worker>>
  /\ UNCHANGED <<requesting, unsent, wire, current, errSignal, pending, left, finals>>

\* One turn of runTraversal: a signal is taken before the block is sent, and only
\* then; a traversal that is complete queues the final status.
Traverse(i) ==
  /\ worker[i] = "traverse"
  /\ \/ /\ left[i] > 0
        /\ i \in errSignal
        /\ worker' = [worker EXCEPT ![i] = "cancelled"]
        /\ errSignal' = errSignal \ {i}
        /\ UNCHANGED <<left, finals>>
     \/ /\ left[i] > 0
        /\ i \notin errSignal
        /\ left' = [left EXCEPT ![i] = @ - 1]
        /\ UNCHANGED <<worker, errSignal, finals>>
     \/ /\ left[i] = 0
        /\ worker' = [worker EXCEPT ![i] = "complete"]
        /\ finals' = finals \union {i}
        /\ UNCHANGED <<left, errSignal>>
  /\ UNCHANGED <<requesting, unsent, wire, current, state, pending, starting>>

\* finishTask looks the response up by the ID of the task.
FinishTask(i) ==
  /\ worker[i] \in {"cancelled", "complete"}
  /\ worker' = [worker EXCEPT ![i] = "idle"]
  /\ \/ /\ worker[i] = "cancelled"
        /\ TerminateRequest
     \/ /\ worker[i] = "complete"
        /\ state' = IF current = 0 THEN state ELSE [state EXCEPT ![current] = "CompletingSend"]
        /\ UNCHANGED current
  /\ UNCHANGED <<requesting, unsent, wire, errSignal, pending, starting, left, finals>>

\* The final status of a response is sent, its subscriber calls TerminateRequest
\* with the ID, and a request that waits for blocks goes on without the peer: its
\* loader is taken offline.
FinalSent(i) ==
  /\ i \in finals
  /\ finals' = finals \ {i}
  /\ requestor' = IF requestor = "waiting" THEN "over" ELSE requestor
  /\ TerminateRequest
  /\ UNCHANGED <<asked, unsent, wire, errSignal, pending, executing>>

-----------------------------------------------------------------------------
Requestor == StartRemoteRequest \/ Unpause \/ SendMessage

Worker(i) == Traverse(i) \/ FinishTask(i)

Next ==
  \/ Requestor
  \/ Pause
  \/ ProcessRequests
  \/ PopTask
  \/ StartTask
  \/ \E i \in Responses : Worker(i) \/ FinalSent(i)

\* The requestor is resumed and everything runs on; only a pause need not happen.
Fairness ==
  /\ WF_vars(StartRemoteRequest) /\ WF_vars(Unpause) /\ WF_vars(SendMessage)
  /\ WF_vars(ProcessRequests)
  /\ WF_vars(PopTask)
  /\ WF_vars(StartTask)
  /\ \A i \in Responses : WF_vars(Worker(i)) /\ WF_vars(FinalSent(i))

Spec == Init /\ [][Next]_vars /\ Fairness

-----------------------------------------------------------------------------
(* Properties *)

\* A request that was resumed gets the rest of its blocks
\* (impl/graphsync_test.go, TestPauseResumeRequest: "blockChain.VerifyRemainder(ctx,
\* progressChan, stopPoint)"): a request does not wait for blocks for ever, some
\* response to it is sent to its end unless it is paused again.
ResumedIsServed == requestor = "waiting" ~> requestor \in {"over", "paused"}

=============================================================================
