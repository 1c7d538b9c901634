------------------------------ MODULE Lifecycle ------------------------------
(***************************************************************************)
(* What a manager promises about the requests it keeps (graphsync.go,      *)
(* RequestState): a request is accepted once, is worked on only after it   *)
(* waited for a worker, comes back from a pause only through the queue,    *)
(* never leaves its end, and is reported at most once, when it is over.    *)
(* The response manager and the request manager implement it; neither the  *)
(* task queues, the workers, the signals, the hooks nor the message queue  *)
(* are visible here.                                                       *)
(*                                                                         *)
(* A phase stands for a state of the managers: "waiting" is Queued,        *)
(* "running" Running, "paused" Paused, "completing" CompletingSend; "new"  *)
(* is an ID the manager has not seen and "over" one it has forgotten.      *)
(***************************************************************************)
CONSTANTS
  Requests,
  Verdicts   \* what may be reported of a request that is over

VARIABLES
  phase,     \* the state of each request
  reports,   \* what has been reported of each request
  halted     \* the manager has been shut down

vars == <<phase, reports, halted>>

Init ==
  /\ phase = [r \in Requests |-> "new"]
  /\ reports = [r \in Requests |-> <<>>]
  /\ halted = FALSE

\* A request goes to one of the phases given; it may be reported as it ends.
Enter(r, phases) ==
  /\ ~halted
  /\ \E p \in phases :
       /\ phase' = [phase EXCEPT ![r] = p]
       /\ \/ UNCHANGED reports
          \/ /\ p = "over"
             /\ reports[r] = <<>>
             /\ \E v \in Verdicts : reports' = [reports EXCEPT ![r] = <<v>>]
  /\ UNCHANGED halted

\* A new request is queued, left paused, refused with a status or refused at once.
Accept(r) == phase[r] = "new" /\ Enter(r, {"waiting", "paused", "completing", "over"})

\* A worker takes a request that waits.
Start(r) == phase[r] = "waiting" /\ Enter(r, {"running"})

\* A worker gives a request back, or it ends while the worker runs.
Leave(r) == phase[r] = "running" /\ Enter(r, {"paused", "completing", "over"})

\* A paused request waits for a worker again.
Resume(r) == phase[r] = "paused" /\ Enter(r, {"waiting"})

\* A request that no worker runs is ended.
End(r) == phase[r] \in {"waiting", "paused"} /\ Enter(r, {"completing", "over"})

\* The last message of a request is on its way, or lost.
Finish(r) == phase[r] = "completing" /\ Enter(r, {"over"})

\* A request that is over is reported, once.
Judge(r) ==
  /\ phase[r] = "over"
  /\ reports[r] = <<>>
  /\ \E v \in Verdicts : reports' = [reports EXCEPT ![r] = <<v>>]
  /\ UNCHANGED <<phase, halted>>

Halt ==
  /\ halted' = TRUE
  /\ UNCHANGED <<phase, reports>>

Next ==
  \/ \E r \in Requests :
       Accept(r) \/ Start(r) \/ Leave(r) \/ Resume(r) \/ End(r) \/ Finish(r) \/ Judge(r)
  \/ Halt

\* A request that waits or runs does not do so for ever.
Progress ==
  \A r \in Requests :
    phase[r] \in {"waiting", "running"}
      ~> phase[r] \in {"paused", "completing", "over"} \/ halted

Spec == Init /\ [][Next]_vars /\ Progress

=============================================================================
