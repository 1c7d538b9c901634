------------------------------ MODULE Allocator ------------------------------
(***************************************************************************)
(* The memory allocator of allocator/allocator.go: it backpressures the    *)
(* responder by granting block memory to peers under a global and a        *)
(* per-peer limit, and by parking the allocations that do not fit.         *)
(*                                                                         *)
(* Every exported method runs under allocLk.  The methods that release     *)
(* memory end in the loop processPendingAllocations; the model keeps       *)
(* allocLk "held" between the iterations of that loop, so no other method  *)
(* can run until the loop has returned.                                    *)
(*                                                                         *)
(* The priority queue go-ipfs-pq is external.  It holds exactly the        *)
(* statuses in peerStatuses, and Peek returns some status that no other    *)
(* precedes in the comparator's order (ties are broken by the heap's       *)
(* layout, here nondeterministically).                                     *)
(*                                                                         *)
(* Each call of AllocateBlockMemory has a ticket, the number of the call;  *)
(* response[t] is what its channel has delivered.  MaxCalls bounds the     *)
(* number of calls.                                                        *)
(***************************************************************************)
EXTENDS Integers, Sequences

CONSTANTS Peers,       \* the peers memory is allocated for
          Amounts,     \* the sizes callers allocate and release
          MaxTotal,    \* maxAllowedAllocatedTotal
          MaxPerPeer,  \* maxAllowedAllocatedPerPeer
          MaxCalls     \* bound on the calls of AllocateBlockMemory

ASSUME LimitsAssumption ==
  /\ Amounts \subseteq Nat
  /\ MaxTotal \in Nat
  /\ MaxPerPeer \in Nat
  /\ MaxCalls \in Nat

VARIABLES
  allocLk,                 \* "free", or "held" inside processPendingAllocations
  totalAllocatedAllPeers,
  nextAllocIndex,
  peerStatuses,            \* the peers that have a status
  totalAllocated,          \* the status' totalAllocated (0 without a status)
  pendingAllocations,      \* the status' pendingAllocations (<<>> without one)
  caller,                  \* the peer of each call of AllocateBlockMemory so far
  response                 \* what each call's channel has delivered

vars == <<allocLk, totalAllocatedAllPeers, nextAllocIndex, peerStatuses,
          totalAllocated, pendingAllocations, caller, response>>

Tickets == 1..MaxCalls

\* A pendingAllocation; the ticket stands for its response channel.
PendingAllocation == [amount : Amounts, allocIndex : Nat, ticket : Tickets]

Init ==
  /\ allocLk = "free"
  /\ totalAllocatedAllPeers = 0
  /\ nextAllocIndex = 0
  /\ peerStatuses = {}
  /\ totalAllocated = [p \in Peers |-> 0]
  /\ pendingAllocations = [p \in Peers |-> <<>>]
  /\ caller = <<>>
  /\ response = [t \in Tickets |-> "none"]

-----------------------------------------------------------------------------
(* The comparator of the priority queue. *)

HasPending(p) == pendingAllocations[p] # <<>>

FitsPeer(p, amount) == totalAllocated[p] + amount <= MaxPerPeer

FitsTotal(amount) == totalAllocatedAllPeers + amount <= MaxTotal

HeadFitsPeer(p) == FitsPeer(p, Head(pendingAllocations[p]).amount)

\* Mutant: the comparator without its per-peer clause, so that the oldest head
\* comes first even when its peer is at its limit.
PrecedesIgnoringPeerLimit(p, q) ==
  /\ HasPending(p)
  /\ HasPending(q) => Head(pendingAllocations[p]).allocIndex
                        < Head(pendingAllocations[q]).allocIndex

Precedes(p, q) ==
  \/ /\ ~HasPending(p)
     /\ ~HasPending(q)
     /\ totalAllocated[p] < totalAllocated[q]
  \/ /\ HasPending(p)
     /\ ~HasPending(q)
  \/ /\ HasPending(p)
     /\ HasPending(q)
     /\ HeadFitsPeer(p)
     /\ HeadFitsPeer(q) => Head(pendingAllocations[p]).allocIndex
                             < Head(pendingAllocations[q]).allocIndex

\* p has the status that peerStatusQueue.Peek() returns.
Peek(p) == p \in peerStatuses /\ \A q \in peerStatuses : ~Precedes(q, p)

-----------------------------------------------------------------------------
Respond(tickets, answer) ==
  response' = [t \in Tickets |-> IF t \in tickets THEN answer ELSE response[t]]

\* Mutants: a newcomer may overtake the peer's own queue; the check of a limit
\* is off by one.
GrantNowOvertaking(p, amount) == FitsTotal(amount) /\ FitsPeer(p, amount)
GrantNowOffByOne(p, amount) ==
  totalAllocatedAllPeers + amount <= MaxTotal + 1 /\ ~HasPending(p)

\* The memory is granted at once only when it fits both limits and no earlier
\* allocation of the peer is waiting.
GrantNow(p, amount) ==
  FitsTotal(amount) /\ FitsPeer(p, amount) /\ ~HasPending(p)

AllocateBlockMemory(p, amount) ==
  /\ allocLk = "free"
  /\ Len(caller) < MaxCalls
  /\ caller' = Append(caller, p)
  /\ peerStatuses' = peerStatuses \union {p}
  /\ \/ /\ GrantNow(p, amount)
        /\ totalAllocatedAllPeers' = totalAllocatedAllPeers + amount
        /\ totalAllocated' = [totalAllocated EXCEPT ![p] = @ + amount]
        /\ Respond({Len(caller) + 1}, "granted")
        /\ UNCHANGED <<nextAllocIndex, pendingAllocations>>
     \/ /\ ~GrantNow(p, amount)
        /\ pendingAllocations' =
             [pendingAllocations EXCEPT ![p] =
                Append(@, [amount |-> amount, allocIndex |-> nextAllocIndex,
                           ticket |-> Len(caller) + 1])]
        /\ nextAllocIndex' = nextAllocIndex + 1
        /\ Respond({Len(caller) + 1}, "waiting")
        /\ UNCHANGED <<totalAllocatedAllPeers, totalAllocated>>
  /\ UNCHANGED allocLk

\* What a release takes from the peer: never more than the peer holds.
Released(p, amount) ==
  IF totalAllocated[p] >= amount THEN amount ELSE totalAllocated[p]

\* What the release leaves the peer with.
Remaining(p, amount) ==
  IF totalAllocated[p] >= amount THEN totalAllocated[p] - amount ELSE 0

\* The saturating subtraction from totalAllocatedAllPeers.
TotalMinus(amount) ==
  IF totalAllocatedAllPeers >= amount THEN totalAllocatedAllPeers - amount ELSE 0

\* A release for a peer without a status returns an error and changes nothing.
ReleaseBlockMemory(p, amount) ==
  /\ allocLk = "free"
  /\ p \in peerStatuses
  /\ totalAllocated' = [totalAllocated EXCEPT ![p] = Remaining(p, amount)]
  /\ totalAllocatedAllPeers' = TotalMinus(Released(p, amount))
  /\ allocLk' = "held"
  /\ UNCHANGED <<nextAllocIndex, peerStatuses, pendingAllocations, caller, response>>

\* The callers that wait in the peer's queue.
WaitingTickets(p) ==
  {pendingAllocations[p][i].ticket : i \in DOMAIN pendingAllocations[p]}

\* The peer is forgotten: its waiting callers get an error, its memory returns
\* to the pool.
ReleasePeerMemory(p) ==
  /\ allocLk = "free"
  /\ p \in peerStatuses
  /\ peerStatuses' = peerStatuses \ {p}
  /\ Respond(WaitingTickets(p), "error")
  /\ totalAllocatedAllPeers' = TotalMinus(totalAllocated[p])
  /\ totalAllocated' = [totalAllocated EXCEPT ![p] = 0]
  /\ pendingAllocations' = [pendingAllocations EXCEPT ![p] = <<>>]
  /\ allocLk' = "held"
  /\ UNCHANGED <<nextAllocIndex, caller>>

-----------------------------------------------------------------------------
(* One iteration of the loop of processPendingAllocations.                *)

HeadGrantable(p) ==
  LET head == Head(pendingAllocations[p])
  IN  HasPending(p) /\ FitsTotal(head.amount) /\ FitsPeer(p, head.amount)

\* processNextPendingAllocationForPeer grants the head of the peer's queue.
ProcessNextPendingAllocationForPeer(p) ==
  /\ allocLk = "held"
  /\ Peek(p)
  /\ HeadGrantable(p)
  /\ LET head == Head(pendingAllocations[p])
     IN  /\ totalAllocatedAllPeers' = totalAllocatedAllPeers + head.amount
         /\ totalAllocated' = [totalAllocated EXCEPT ![p] = @ + head.amount]
         /\ Respond({head.ticket}, "granted")
  /\ pendingAllocations' = [pendingAllocations EXCEPT ![p] = Tail(@)]
  /\ UNCHANGED <<allocLk, nextAllocIndex, peerStatuses, caller>>

\* The status waits for nothing and holds nothing.
IsIdle(p) == ~HasPending(p) /\ totalAllocated[p] = 0

\* The first status is idle: it is deleted.
ForgetIdlePeer(p) ==
  /\ allocLk = "held"
  /\ Peek(p)
  /\ IsIdle(p)
  /\ peerStatuses' = peerStatuses \ {p}
  /\ UNCHANGED <<allocLk, totalAllocatedAllPeers, nextAllocIndex, totalAllocated,
                 pendingAllocations, caller, response>>

\* Mutant: the loop handles at most one status after a release.
StopsAtOnce(p) == TRUE

\* Why the loop ends at the status p: its head does not fit, or nothing is pending.
StopsAt(p) == IF HasPending(p) THEN ~HeadGrantable(p) ELSE totalAllocated[p] > 0

ProcessPendingAllocationsReturns ==
  /\ allocLk = "held"
  /\ \/ peerStatuses = {}
     \/ \E p \in peerStatuses : Peek(p) /\ StopsAt(p)
  /\ allocLk' = "free"
  /\ UNCHANGED <<totalAllocatedAllPeers, nextAllocIndex, peerStatuses,
                 totalAllocated, pendingAllocations, caller, response>>

ProcessPendingAllocations ==
  \/ \E p \in Peers : ProcessNextPendingAllocationForPeer(p)
  \/ \E p \in Peers : ForgetIdlePeer(p)
  \/ ProcessPendingAllocationsReturns

-----------------------------------------------------------------------------
Next ==
  \/ \E p \in Peers, amount \in Amounts : AllocateBlockMemory(p, amount)
  \/ \E p \in Peers, amount \in Amounts : ReleaseBlockMemory(p, amount)
  \/ \E p \in Peers : ReleasePeerMemory(p)
  \/ ProcessPendingAllocations

\* The loop runs on the goroutine that holds the lock.  A peer that holds memory
\* has blocks in its message queue, which releases them when a message has been
\* sent or has failed; the release is strongly fair because Go's mutex hands the
\* lock over to a starving waiter.
Fairness ==
  /\ WF_vars(ProcessPendingAllocations)
  /\ \A p \in Peers :
       SF_vars(/\ totalAllocated[p] > 0
               /\ \E amount \in Amounts : amount > 0 /\ ReleaseBlockMemory(p, amount))

Spec == Init /\ [][Next]_vars

FairSpec == Spec /\ Fairness

-----------------------------------------------------------------------------
(* Properties *)

\* The fields of the allocator and of the statuses have their types: in
\* particular no counter is taken below zero (they are unsigned in the code).
TypeOK ==
  /\ allocLk \in {"free", "held"}
  /\ totalAllocatedAllPeers \in Nat
  /\ nextAllocIndex \in Nat
  /\ peerStatuses \in SUBSET Peers
  /\ totalAllocated \in [Peers -> Nat]
  /\ pendingAllocations \in [Peers -> Seq(PendingAllocation)]
  /\ caller \in Seq(Peers)
  /\ Len(caller) <= MaxCalls
  /\ response \in [Tickets -> {"none", "waiting", "granted", "error"}]

\* Neither limit is ever exceeded, whatever the callers allocate and release and
\* in whatever order: line 63 and processNextPendingAllocationForPeer.
MemoryBounded ==
  /\ totalAllocatedAllPeers <= MaxTotal
  /\ \A p \in Peers : totalAllocated[p] <= MaxPerPeer

\* A peer whose status was deleted holds no memory and nobody waits on it: the
\* status a later call makes for it starts from nothing, as it should.
ForgottenPeersHoldNothing ==
  \A p \in Peers \ peerStatuses : totalAllocated[p] = 0 /\ ~HasPending(p)

\* The allocations of one peer are granted in the order they were asked for: a
\* granted call has no earlier call of the same peer still waiting.
GrantedInOrder ==
  \A t, u \in DOMAIN caller :
    t < u /\ caller[t] = caller[u] /\ response[u] = "granted"
      => response[t] # "waiting"

\* A caller is blocked on its channel exactly when its peer's queue still holds
\* that channel, once: no waiter is dropped, and none is answered twice.
WaitersAreQueued ==
  \A t \in Tickets :
    /\ response[t] = "waiting" <=>
         \E p \in Peers : \E i \in DOMAIN pendingAllocations[p] :
           pendingAllocations[p][i].ticket = t
    /\ \A p \in Peers : \A i, j \in DOMAIN pendingAllocations[p] :
         /\ pendingAllocations[p][i].ticket = pendingAllocations[p][j].ticket => i = j
         /\ caller[pendingAllocations[p][i].ticket] = p

\* The head of q's queue keeps p's waiting: it is as old, its peer could take it,
\* and it does not fit the global limit.
HoldsBack(q, p) ==
  /\ HasPending(q)
  /\ HeadFitsPeer(q)
  /\ Head(pendingAllocations[q]).allocIndex <= Head(pendingAllocations[p]).allocIndex
  /\ ~FitsTotal(Head(pendingAllocations[q]).amount)

\* No lost wakeup: when no method runs, the oldest head among the peers that are
\* below their own limit does not fit the global limit (otherwise the last
\* release should have granted it).
NoGrantableHeadLeft ==
  allocLk = "free" =>
    \A p \in peerStatuses :
      HasPending(p) /\ HeadFitsPeer(p) => \E q \in peerStatuses : HoldsBack(q, p)

\* No caller and no memory is forgotten: a status is deleted only when it holds
\* nothing, a blocked caller is in its peer's queue, and no release leaves a waiter
\* that it has made room for.
NobodyIsForgotten ==
  ForgottenPeersHoldNothing /\ WaitersAreQueued /\ NoGrantableHeadLeft

\* Nothing in the queue of its peer up to the call t exceeds the per-peer limit.
Answerable(t) ==
  \E p \in Peers : \E i \in DOMAIN pendingAllocations[p] :
    /\ pendingAllocations[p][i].ticket = t
    /\ \A j \in 1..i : pendingAllocations[p][j].amount <= MaxPerPeer

\* A call that its peer's limit allows is eventually answered: it does not starve
\* behind other peers, not even behind a peer whose head can never be granted (the
\* comparator sorts that one last, lines 227-232).
AnswerableIsAnswered ==
  \A t \in Tickets : Answerable(t) ~> response[t] \in {"granted", "error"}

=============================================================================
