----------------------- MODULE AllocatorTraverserProofs -----------------------
(***************************************************************************)
(* Proofs about two components that share no state and are each built      *)
(* around one lock: the allocator with its allocLk, and the traverser with *)
(* its stateMu.                                                            *)
(*                                                                         *)
(* The allocator, for every set of peers, every set of amounts, both       *)
(* limits and any number of calls.  The traverser, for a traversal of any  *)
(* length: the hand-over of the mutex, and what follows from it for the    *)
(* links that are answered, the blocks that are counted and the channel    *)
(* that is closed.                                                         *)
(***************************************************************************)
EXTENDS Allocator, Traverser, SequenceTheorems, TLAPS

-----------------------------------------------------------------------------
(* The allocator: facts about the elements of a queue *)

\* A queue's head is its first element and the head's removal moves every other
\* element one place forward.
LEMMA QueueHeadTail ==
  ASSUME NEW S, NEW q \in Seq(S), q # <<>>
  PROVE  /\ Head(q) \in S
         /\ Head(q) = q[1]
         /\ Len(q) \in Nat \ {0}
         /\ 1 \in DOMAIN q
         /\ Tail(q) \in Seq(S)
         /\ DOMAIN Tail(q) = 1..(Len(q) - 1)
         /\ \A i \in DOMAIN Tail(q) : i + 1 \in DOMAIN q /\ Tail(q)[i] = q[i + 1]
<1>1. /\ Head(q) \in S /\ Tail(q) \in Seq(S) /\ Len(q) \in Nat \ {0}
      /\ Len(Tail(q)) = Len(q) - 1
      /\ \A i \in 1..Len(Tail(q)) : Tail(q)[i] = q[i + 1]
  BY HeadTailProperties, EmptySeq
<1>2. DOMAIN q = 1..Len(q) /\ DOMAIN Tail(q) = 1..Len(Tail(q))
  BY <1>1, LenProperties
<1> QED BY <1>1, <1>2

\* Appending keeps every element where it is and puts the new one last.
LEMMA QueueAppend ==
  ASSUME NEW S, NEW q \in Seq(S), NEW e \in S
  PROVE  /\ Append(q, e) \in Seq(S)
         /\ Append(q, e) # <<>>
         /\ Len(q) \in Nat
         /\ DOMAIN q = 1..Len(q)
         /\ DOMAIN Append(q, e) = 1..(Len(q) + 1)
         /\ Len(Append(q, e)) = Len(q) + 1
         /\ Append(q, e)[Len(q) + 1] = e
         /\ \A i \in DOMAIN q : Append(q, e)[i] = q[i]
<1>1. /\ Append(q, e) \in Seq(S) /\ Append(q, e) # <<>>
      /\ Len(Append(q, e)) = Len(q) + 1
      /\ Append(q, e)[Len(q) + 1] = e
      /\ \A i \in 1..Len(q) : Append(q, e)[i] = q[i]
  BY AppendProperties
<1>2. /\ DOMAIN q = 1..Len(q)
      /\ Len(q) \in Nat
      /\ DOMAIN Append(q, e) = 1..Len(Append(q, e))
  BY <1>1, LenProperties
<1> QED BY <1>1, <1>2

\* The head of a peer's queue is a pendingAllocation.
LEMMA HeadFields ==
  ASSUME TypeOK, NEW p \in Peers, HasPending(p)
  PROVE  /\ Head(pendingAllocations[p]) = pendingAllocations[p][1]
         /\ 1 \in DOMAIN pendingAllocations[p]
         /\ Head(pendingAllocations[p]).amount \in Nat
         /\ Head(pendingAllocations[p]).allocIndex \in Nat
         /\ Head(pendingAllocations[p]).ticket \in Tickets
<1>1. pendingAllocations[p] \in Seq(PendingAllocation) /\ pendingAllocations[p] # <<>>
  BY DEF TypeOK, HasPending
<1>2. /\ Head(pendingAllocations[p]) \in PendingAllocation
      /\ Head(pendingAllocations[p]) = pendingAllocations[p][1]
      /\ 1 \in DOMAIN pendingAllocations[p]
  BY <1>1, QueueHeadTail
<1> QED BY <1>2, LimitsAssumption DEF PendingAllocation

-----------------------------------------------------------------------------
(* Type correctness *)

\* The actions of the specification keep the type invariant; this also says what
\* each call's ticket and each granted head are.
LEMMA TypeStep ==
  ASSUME TypeOK, [Next]_vars
  PROVE  TypeOK'
<1> USE LimitsAssumption DEF TypeOK, Tickets
<1>1. ASSUME NEW p \in Peers, NEW amount \in Amounts, AllocateBlockMemory(p, amount)
      PROVE  TypeOK'
  <2> DEFINE new == [amount |-> amount, allocIndex |-> nextAllocIndex,
                     ticket |-> Len(caller) + 1]
  <2>1. caller' \in Seq(Peers) /\ Len(caller') <= MaxCalls
    BY <1>1, AppendProperties, LenProperties DEF AllocateBlockMemory
  <2>2. Len(caller) + 1 \in Tickets
    BY <1>1, LenProperties DEF AllocateBlockMemory
  <2>3. new \in PendingAllocation
    BY <2>2 DEF PendingAllocation
  <2>4. Append(pendingAllocations[p], new) \in Seq(PendingAllocation)
    BY <2>3, AppendProperties
  <2>5. response' \in [Tickets -> {"none", "waiting", "granted", "error"}]
    BY <1>1 DEF AllocateBlockMemory, Respond
  <2>6. pendingAllocations' \in [Peers -> Seq(PendingAllocation)]
    BY <1>1, <2>4 DEF AllocateBlockMemory
  <2>7. amount \in Nat
    OBVIOUS
  <2>8. totalAllocated[p] + amount \in Nat
    BY <2>7
  <2>9. totalAllocated' \in [Peers -> Nat]
    BY <1>1, <2>8 DEF AllocateBlockMemory
  <2>10. totalAllocatedAllPeers' \in Nat /\ nextAllocIndex' \in Nat
    BY <1>1, <2>7 DEF AllocateBlockMemory
  <2> QED BY <1>1, <2>1, <2>5, <2>6, <2>9, <2>10 DEF AllocateBlockMemory
<1>2. ASSUME NEW p \in Peers, NEW amount \in Amounts, ReleaseBlockMemory(p, amount)
      PROVE  TypeOK'
  <2>1. amount \in Nat /\ Remaining(p, amount) \in Nat /\ Released(p, amount) \in Nat
    BY DEF Remaining, Released
  <2>2. TotalMinus(Released(p, amount)) \in Nat
    BY <2>1 DEF TotalMinus
  <2> QED BY <1>2, <2>1, <2>2 DEF ReleaseBlockMemory
<1>3. ASSUME NEW p \in Peers, ReleasePeerMemory(p)
      PROVE  TypeOK'
  <2>1. TotalMinus(totalAllocated[p]) \in Nat
    BY DEF TotalMinus
  <2>2. response' \in [Tickets -> {"none", "waiting", "granted", "error"}]
    BY <1>3 DEF ReleasePeerMemory, Respond
  <2>3. <<>> \in Seq(PendingAllocation)
    BY EmptySeq
  <2> QED BY <1>3, <2>1, <2>2, <2>3 DEF ReleasePeerMemory
<1>4. ASSUME NEW p \in Peers, ProcessNextPendingAllocationForPeer(p)
      PROVE  TypeOK'
  <2>1. pendingAllocations[p] # <<>>
    BY <1>4 DEF ProcessNextPendingAllocationForPeer, HeadGrantable, HasPending
  <2>2. /\ Head(pendingAllocations[p]) \in PendingAllocation
        /\ Tail(pendingAllocations[p]) \in Seq(PendingAllocation)
    BY <2>1, QueueHeadTail
  <2>3. Head(pendingAllocations[p]).amount \in Nat
    BY <2>2 DEF PendingAllocation
  <2>4. response' \in [Tickets -> {"none", "waiting", "granted", "error"}]
    BY <1>4 DEF ProcessNextPendingAllocationForPeer, Respond
  <2>5. totalAllocated' \in [Peers -> Nat] /\ totalAllocatedAllPeers' \in Nat
    <3>1. PICK n \in Nat : n = Head(pendingAllocations[p]).amount
      BY <2>3
    <3>2. /\ totalAllocated' = [totalAllocated EXCEPT ![p] = @ + n]
          /\ totalAllocatedAllPeers' = totalAllocatedAllPeers + n
      BY <1>4, <3>1 DEF ProcessNextPendingAllocationForPeer
    <3> QED BY <3>2
  <2> QED BY <1>4, <2>2, <2>4, <2>5 DEF ProcessNextPendingAllocationForPeer
<1>5. ASSUME NEW p \in Peers, ForgetIdlePeer(p)
      PROVE  TypeOK'
  BY <1>5 DEF ForgetIdlePeer
<1>6. ASSUME ProcessPendingAllocationsReturns
      PROVE  TypeOK'
  BY <1>6 DEF ProcessPendingAllocationsReturns
<1>7. ASSUME UNCHANGED vars
      PROVE  TypeOK'
  BY <1>7 DEF vars
<1> QED BY <1>1, <1>2, <1>3, <1>4, <1>5, <1>6, <1>7 DEF Next, ProcessPendingAllocations

\* The allocator's state always has its type: in particular no counter of the
\* code's uint64 arithmetic wraps around below zero.
THEOREM TypeCorrect == Spec => []TypeOK
<1>1. Init => TypeOK
  BY LimitsAssumption, EmptySeq DEF Init, TypeOK, Tickets
<1>2. TypeOK /\ [Next]_vars => TypeOK'
  BY TypeStep
<1> QED BY <1>1, <1>2, PTL DEF Spec

-----------------------------------------------------------------------------
(* Neither limit is ever exceeded *)

\* Every action keeps both limits: memory is only added behind the check of both.
LEMMA BoundStep ==
  ASSUME TypeOK, MemoryBounded, [Next]_vars
  PROVE  MemoryBounded'
<1> USE LimitsAssumption DEF TypeOK, MemoryBounded
<1>1. ASSUME NEW p \in Peers, NEW amount \in Amounts, AllocateBlockMemory(p, amount)
      PROVE  MemoryBounded'
  <2>1. amount \in Nat
    OBVIOUS
  <2>2. CASE GrantNow(p, amount)
    BY <1>1, <2>1, <2>2 DEF AllocateBlockMemory, GrantNow, FitsTotal, FitsPeer
  <2>3. CASE ~GrantNow(p, amount)
    BY <1>1, <2>3 DEF AllocateBlockMemory
  <2> QED BY <2>2, <2>3
<1>2. ASSUME NEW p \in Peers, NEW amount \in Amounts, ReleaseBlockMemory(p, amount)
      PROVE  MemoryBounded'
  <2>1. /\ amount \in Nat
        /\ Remaining(p, amount) <= totalAllocated[p]
        /\ Released(p, amount) \in Nat
    BY DEF Remaining, Released
  <2>2. TotalMinus(Released(p, amount)) <= totalAllocatedAllPeers
    BY <2>1 DEF TotalMinus
  <2>3. Remaining(p, amount) \in Nat /\ TotalMinus(Released(p, amount)) \in Nat
    BY <2>1 DEF Remaining, TotalMinus
  <2> QED BY <1>2, <2>1, <2>2, <2>3 DEF ReleaseBlockMemory
<1>3. ASSUME NEW p \in Peers, ReleasePeerMemory(p)
      PROVE  MemoryBounded'
  <2>1. /\ TotalMinus(totalAllocated[p]) <= totalAllocatedAllPeers
        /\ TotalMinus(totalAllocated[p]) \in Nat
    BY DEF TotalMinus
  <2> QED BY <1>3, <2>1 DEF ReleasePeerMemory
<1>4. ASSUME NEW p \in Peers, ProcessNextPendingAllocationForPeer(p)
      PROVE  MemoryBounded'
  <2>1. /\ HasPending(p)
        /\ FitsTotal(Head(pendingAllocations[p]).amount)
        /\ FitsPeer(p, Head(pendingAllocations[p]).amount)
    BY <1>4 DEF ProcessNextPendingAllocationForPeer, HeadGrantable
  <2>2. Head(pendingAllocations[p]).amount \in Nat
    BY <2>1, HeadFields
  <2> QED BY <1>4, <2>1, <2>2 DEF ProcessNextPendingAllocationForPeer, FitsTotal, FitsPeer
<1>5. ASSUME NEW p \in Peers, ForgetIdlePeer(p)
      PROVE  MemoryBounded'
  BY <1>5 DEF ForgetIdlePeer
<1>6. ASSUME ProcessPendingAllocationsReturns
      PROVE  MemoryBounded'
  BY <1>6 DEF ProcessPendingAllocationsReturns
<1>7. ASSUME UNCHANGED vars
      PROVE  MemoryBounded'
  BY <1>7 DEF vars
<1> QED BY <1>1, <1>2, <1>3, <1>4, <1>5, <1>6, <1>7 DEF Next, ProcessPendingAllocations

\* The memory granted to all peers and to each peer stays within
\* maxAllowedAllocatedTotal and maxAllowedAllocatedPerPeer.
THEOREM LimitsHold == Spec => []MemoryBounded
<1>1. Init => MemoryBounded
  BY LimitsAssumption DEF Init, MemoryBounded
<1>2. TypeOK /\ MemoryBounded /\ [Next]_vars => MemoryBounded'
  BY BoundStep
<1> QED BY <1>1, <1>2, TypeCorrect, PTL DEF Spec

-----------------------------------------------------------------------------
(* A forgotten peer holds nothing *)

\* Every action leaves the peers without a status with nothing: a status is only
\* deleted when it is idle, or after its memory and queue were given up.
LEMMA ForgottenStep ==
  ASSUME TypeOK, ForgottenPeersHoldNothing, [Next]_vars
  PROVE  ForgottenPeersHoldNothing'
<1> USE DEF TypeOK, ForgottenPeersHoldNothing, HasPending
<1>1. ASSUME NEW p \in Peers, NEW amount \in Amounts, AllocateBlockMemory(p, amount)
      PROVE  ForgottenPeersHoldNothing'
  BY <1>1 DEF AllocateBlockMemory
<1>2. ASSUME NEW p \in Peers, NEW amount \in Amounts, ReleaseBlockMemory(p, amount)
      PROVE  ForgottenPeersHoldNothing'
  BY <1>2 DEF ReleaseBlockMemory
<1>3. ASSUME NEW p \in Peers, ReleasePeerMemory(p)
      PROVE  ForgottenPeersHoldNothing'
  BY <1>3 DEF ReleasePeerMemory
<1>4. ASSUME NEW p \in Peers, ProcessNextPendingAllocationForPeer(p)
      PROVE  ForgottenPeersHoldNothing'
  BY <1>4 DEF ProcessNextPendingAllocationForPeer, Peek
<1>5. ASSUME NEW p \in Peers, ForgetIdlePeer(p)
      PROVE  ForgottenPeersHoldNothing'
  BY <1>5 DEF ForgetIdlePeer, IsIdle
<1>6. ASSUME ProcessPendingAllocationsReturns
      PROVE  ForgottenPeersHoldNothing'
  BY <1>6 DEF ProcessPendingAllocationsReturns
<1>7. ASSUME UNCHANGED vars
      PROVE  ForgottenPeersHoldNothing'
  BY <1>7 DEF vars
<1> QED BY <1>1, <1>2, <1>3, <1>4, <1>5, <1>6, <1>7 DEF Next, ProcessPendingAllocations

\* A peer whose status was deleted holds no memory and has no waiting callers.
THEOREM ForgottenHoldNothing == Spec => []ForgottenPeersHoldNothing
<1>1. Init => ForgottenPeersHoldNothing
  BY DEF Init, ForgottenPeersHoldNothing, HasPending
<1>2. TypeOK /\ ForgottenPeersHoldNothing /\ [Next]_vars => ForgottenPeersHoldNothing'
  BY ForgottenStep
<1> QED BY <1>1, <1>2, TypeCorrect, PTL DEF Spec

-----------------------------------------------------------------------------
(* No lost wakeup *)

\* The loop of processPendingAllocations only stops where the oldest head that
\* its peer could take does not fit the global limit: the comparator puts such a
\* head before every other status.
LEMMA StopsWithoutGrantable ==
  ASSUME TypeOK, ProcessPendingAllocationsReturns
  PROVE  NoGrantableHeadLeft'
<1> USE DEF TypeOK
<1>1. UNCHANGED <<totalAllocatedAllPeers, peerStatuses, totalAllocated, pendingAllocations>>
  BY DEF ProcessPendingAllocationsReturns
<1>2. SUFFICES ASSUME NEW p \in peerStatuses, HasPending(p), HeadFitsPeer(p)
               PROVE  \E q \in peerStatuses : HoldsBack(q, p)
  BY <1>1 DEF NoGrantableHeadLeft, HoldsBack, HasPending, HeadFitsPeer, FitsPeer, FitsTotal
<1>3. PICK q \in peerStatuses : Peek(q) /\ StopsAt(q)
  BY <1>2 DEF ProcessPendingAllocationsReturns
<1>4. ~Precedes(p, q)
  BY <1>3 DEF Peek
<1>5. HasPending(q)
  BY <1>2, <1>4 DEF Precedes
<1>6. HeadFitsPeer(q)
  BY <1>2, <1>4, <1>5 DEF Precedes
<1>7. /\ Head(pendingAllocations[p]).allocIndex \in Nat
      /\ Head(pendingAllocations[q]).allocIndex \in Nat
  BY <1>2, <1>5, HeadFields
<1>8. Head(pendingAllocations[q]).allocIndex <= Head(pendingAllocations[p]).allocIndex
  BY <1>2, <1>4, <1>5, <1>6, <1>7 DEF Precedes
<1>9. ~FitsTotal(Head(pendingAllocations[q]).amount)
  BY <1>3, <1>5, <1>6 DEF StopsAt, HeadGrantable, HeadFitsPeer
<1> QED BY <1>5, <1>6, <1>8, <1>9 DEF HoldsBack

\* A new allocation leaves it so: what is granted only makes less fit, and what is
\* queued as a new head did not fit.
LEMMA AllocateWithoutGrantable ==
  ASSUME TypeOK, ForgottenPeersHoldNothing, NoGrantableHeadLeft,
         NEW p \in Peers, NEW amount \in Amounts, AllocateBlockMemory(p, amount)
  PROVE  NoGrantableHeadLeft'
<1> USE LimitsAssumption DEF TypeOK
<1> DEFINE new == [amount |-> amount, allocIndex |-> nextAllocIndex,
                   ticket |-> Len(caller) + 1]
<1>1. allocLk = "free" /\ amount \in Nat /\ peerStatuses' = peerStatuses \union {p}
  BY DEF AllocateBlockMemory
<1>2. ASSUME NEW q \in Peers, HasPending(q)
      PROVE  /\ Head(pendingAllocations[q]).amount \in Nat
             /\ Head(pendingAllocations[q]).allocIndex \in Nat
  BY <1>2, HeadFields
<1>3. CASE GrantNow(p, amount)
  <2>1. /\ totalAllocatedAllPeers' = totalAllocatedAllPeers + amount
        /\ totalAllocated' = [totalAllocated EXCEPT ![p] = @ + amount]
        /\ pendingAllocations' = pendingAllocations
        /\ ~HasPending(p)
    BY <1>3 DEF AllocateBlockMemory, GrantNow
  <2>2. SUFFICES ASSUME NEW q \in peerStatuses', HasPending(q)', HeadFitsPeer(q)'
                 PROVE  \E w \in peerStatuses' : HoldsBack(w, q)'
    BY DEF NoGrantableHeadLeft
  <2>3. q # p /\ q \in peerStatuses /\ HasPending(q) /\ HeadFitsPeer(q)
    BY <1>1, <2>1, <2>2 DEF HasPending, HeadFitsPeer, FitsPeer
  <2>4. PICK w \in peerStatuses : HoldsBack(w, q)
    BY <1>1, <2>3 DEF NoGrantableHeadLeft
  <2>5. w \in peerStatuses' /\ HasPending(w)' /\ HeadFitsPeer(w)'
    BY <1>1, <2>1, <2>4 DEF HoldsBack, HasPending, HeadFitsPeer, FitsPeer
  <2>6. ~FitsTotal(Head(pendingAllocations[w]).amount)'
    <3>1. w \in Peers /\ HasPending(w) /\ ~FitsTotal(Head(pendingAllocations[w]).amount)
      BY <2>4 DEF HoldsBack
    <3>2. Head(pendingAllocations[w]).amount \in Nat
      BY <1>2, <3>1
    <3>3. ~(totalAllocatedAllPeers + Head(pendingAllocations[w]).amount <= MaxTotal)
      BY <3>1 DEF FitsTotal
    <3>4. totalAllocatedAllPeers' >= totalAllocatedAllPeers /\ totalAllocatedAllPeers' \in Nat
      BY <1>1, <2>1
    <3>5. ~(totalAllocatedAllPeers' + Head(pendingAllocations[w]).amount <= MaxTotal)
      <4>1. PICK n \in Nat : n = Head(pendingAllocations[w]).amount
        BY <3>2
      <4>2. \A x, y \in Nat : y >= x /\ ~(x + n <= MaxTotal) => ~(y + n <= MaxTotal)
        BY LimitsAssumption
      <4>3. totalAllocatedAllPeers \in Nat
        BY DEF TypeOK
      <4> QED BY <3>3, <3>4, <4>1, <4>2, <4>3
    <3> QED BY <2>1, <3>5 DEF FitsTotal
  <2> QED BY <2>1, <2>4, <2>5, <2>6 DEF HoldsBack
<1>4. CASE ~GrantNow(p, amount)
  <2>1. /\ UNCHANGED <<totalAllocatedAllPeers, totalAllocated>>
        /\ pendingAllocations' = [pendingAllocations EXCEPT ![p] = Append(@, new)]
    BY <1>4 DEF AllocateBlockMemory
  <2>2. Len(caller) + 1 \in Tickets
    BY LenProperties DEF AllocateBlockMemory, Tickets
  <2>3. new \in PendingAllocation
    BY <2>2 DEF PendingAllocation
  <2>4. Append(pendingAllocations[p], new) # <<>>
    <3> HIDE DEF new
    <3> QED BY <2>3, QueueAppend
  <2>5. ASSUME NEW q \in Peers, HasPending(q)
        PROVE  HasPending(q)' /\ Head(pendingAllocations'[q]) = Head(pendingAllocations[q])
    <3>1. CASE q # p
      BY <2>1, <2>5, <3>1 DEF HasPending
    <3>2. CASE q = p
      <4>1. 1 \in DOMAIN pendingAllocations[p] /\ Head(pendingAllocations[p]) = pendingAllocations[p][1]
        BY <2>5, <3>2, QueueHeadTail DEF HasPending
      <4>2. /\ Append(pendingAllocations[p], new) \in Seq(PendingAllocation)
            /\ Append(pendingAllocations[p], new)[1] = pendingAllocations[p][1]
        BY <2>3, <4>1, QueueAppend
      <4>3. Head(Append(pendingAllocations[p], new)) = Append(pendingAllocations[p], new)[1]
        BY <2>4, <4>2, QueueHeadTail
      <4>4. pendingAllocations'[p] = Append(pendingAllocations[p], new)
        BY <2>1
      <4> QED BY <2>4, <3>2, <4>1, <4>2, <4>3, <4>4 DEF HasPending
    <3> QED BY <3>1, <3>2
  <2>6. ASSUME ~HasPending(p)
        PROVE  HasPending(p)' /\ Head(pendingAllocations'[p]) = new
    <3>1. pendingAllocations'[p] = Append(pendingAllocations[p], new)
      BY <2>1
    <3>2. /\ Append(pendingAllocations[p], new) \in Seq(PendingAllocation)
          /\ Append(pendingAllocations[p], new)[Len(pendingAllocations[p]) + 1] = new
      BY <2>3, QueueAppend
    <3>3. Len(pendingAllocations[p]) = 0
      BY <2>6, EmptySeq DEF HasPending
    <3>4. Head(Append(pendingAllocations[p], new)) = Append(pendingAllocations[p], new)[1]
      BY <2>4, <3>2, QueueHeadTail
    <3> HIDE DEF new
    <3> QED BY <2>4, <3>1, <3>2, <3>3, <3>4 DEF HasPending
  <2>7. SUFFICES ASSUME NEW q \in peerStatuses', HasPending(q)', HeadFitsPeer(q)'
                 PROVE  \E w \in peerStatuses' : HoldsBack(w, q)'
    BY DEF NoGrantableHeadLeft
  <2>8. CASE HasPending(q)
    <3>1. q \in peerStatuses /\ HeadFitsPeer(q)
      BY <1>1, <2>1, <2>5, <2>7, <2>8 DEF ForgottenPeersHoldNothing, HeadFitsPeer, FitsPeer
    <3>2. PICK w \in peerStatuses : HoldsBack(w, q)
      BY <1>1, <2>8, <3>1 DEF NoGrantableHeadLeft
    <3>3. /\ w \in peerStatuses'
          /\ HasPending(w)'
          /\ Head(pendingAllocations'[w]) = Head(pendingAllocations[w])
          /\ Head(pendingAllocations'[q]) = Head(pendingAllocations[q])
      BY <1>1, <2>5, <2>8, <3>2 DEF HoldsBack
    <3>4. HeadFitsPeer(w)' /\ ~FitsTotal(Head(pendingAllocations[w]).amount)'
      BY <2>1, <3>2, <3>3 DEF HoldsBack, HeadFitsPeer, FitsPeer, FitsTotal
    <3> QED BY <3>2, <3>3, <3>4 DEF HoldsBack
  <2>9. CASE ~HasPending(q)
    <3>1. q = p
      BY <1>1, <2>1, <2>7, <2>9 DEF HasPending
    <3>2. Head(pendingAllocations'[q]).amount = amount
          /\ Head(pendingAllocations'[q]).allocIndex \in Nat
      BY <2>6, <2>9, <3>1
    <3>3. FitsPeer(p, amount)
      BY <2>1, <2>7, <3>1, <3>2 DEF HeadFitsPeer, FitsPeer
    <3>4. ~FitsTotal(amount)
      BY <1>4, <2>9, <3>1, <3>3 DEF GrantNow
    <3>5. ~FitsTotal(Head(pendingAllocations[q]).amount)'
      BY <2>1, <3>2, <3>4 DEF FitsTotal
    <3>6. HoldsBack(q, q)'
      BY <2>7, <3>2, <3>5 DEF HoldsBack
    <3> WITNESS q \in peerStatuses'
    <3> QED BY <3>6
  <2> QED BY <1>1, <2>7, <2>8, <2>9
<1> QED BY <1>3, <1>4

\* Whenever the lock is free, no head is left waiting that a release should have
\* granted: the oldest head its peer could take does not fit the global limit.
THEOREM NoLostWakeup == Spec => []NoGrantableHeadLeft
<1>1. Init => NoGrantableHeadLeft
  BY DEF Init, NoGrantableHeadLeft
<1>2. ASSUME TypeOK, ForgottenPeersHoldNothing, NoGrantableHeadLeft, [Next]_vars
      PROVE  NoGrantableHeadLeft'
  <2>1. ASSUME NEW p \in Peers, NEW amount \in Amounts, AllocateBlockMemory(p, amount)
        PROVE  NoGrantableHeadLeft'
    BY <1>2, <2>1, AllocateWithoutGrantable
  <2>2. ASSUME NEW p \in Peers, NEW amount \in Amounts, ReleaseBlockMemory(p, amount)
        PROVE  NoGrantableHeadLeft'
    BY <2>2 DEF ReleaseBlockMemory, NoGrantableHeadLeft
  <2>3. ASSUME NEW p \in Peers, ReleasePeerMemory(p)
        PROVE  NoGrantableHeadLeft'
    BY <2>3 DEF ReleasePeerMemory, NoGrantableHeadLeft
  <2>4. ASSUME NEW p \in Peers, ProcessNextPendingAllocationForPeer(p)
        PROVE  NoGrantableHeadLeft'
    BY <2>4 DEF ProcessNextPendingAllocationForPeer, NoGrantableHeadLeft
  <2>5. ASSUME NEW p \in Peers, ForgetIdlePeer(p)
        PROVE  NoGrantableHeadLeft'
    BY <2>5 DEF ForgetIdlePeer, NoGrantableHeadLeft
  <2>6. ASSUME ProcessPendingAllocationsReturns
        PROVE  NoGrantableHeadLeft'
    BY <1>2, <2>6, StopsWithoutGrantable
  <2>7. ASSUME UNCHANGED vars
        PROVE  NoGrantableHeadLeft'
    BY <1>2, <2>7 DEF vars, NoGrantableHeadLeft, HoldsBack, HasPending, HeadFitsPeer,
                      FitsPeer, FitsTotal
  <2> QED BY <1>2, <2>1, <2>2, <2>3, <2>4, <2>5, <2>6, <2>7
          DEF Next, ProcessPendingAllocations
<1> QED BY <1>1, <1>2, TypeCorrect, ForgottenHoldNothing, PTL DEF Spec

-----------------------------------------------------------------------------
(* The queues hold exactly the waiting callers, in the order of their calls *)

\* Every entry of a queue belongs to a waiting call of that peer ...
EntriesWait ==
  \A p \in Peers : \A i \in DOMAIN pendingAllocations[p] :
    /\ pendingAllocations[p][i].ticket \in DOMAIN caller
    /\ caller[pendingAllocations[p][i].ticket] = p
    /\ response[pendingAllocations[p][i].ticket] = "waiting"

\* ... and every waiting call has an entry in its peer's queue.
WaitersHaveEntries ==
  \A t \in Tickets :
    response[t] = "waiting" =>
      /\ t \in DOMAIN caller
      /\ \E i \in DOMAIN pendingAllocations[caller[t]] :
           pendingAllocations[caller[t]][i].ticket = t

\* A queue is in the order of the calls ...
QueuesSorted ==
  \A p \in Peers : \A i, j \in DOMAIN pendingAllocations[p] :
    i < j => pendingAllocations[p][i].ticket < pendingAllocations[p][j].ticket

\* ... and what is in it was called after everything that was granted.
GrantedBeforeQueue ==
  \A p \in Peers : \A i \in DOMAIN pendingAllocations[p] : \A u \in DOMAIN caller :
    caller[u] = p /\ response[u] = "granted" => u < pendingAllocations[p][i].ticket

QueueInv == EntriesWait /\ WaitersHaveEntries /\ QueuesSorted /\ GrantedBeforeQueue

\* The positions and tickets of a queue are numbers, and calls are numbered from 1.
LEMMA QueueEntry ==
  ASSUME TypeOK
  PROVE  /\ Len(caller) \in Nat
         /\ DOMAIN caller = 1..Len(caller)
         /\ DOMAIN caller \subseteq Tickets
         /\ Tickets \subseteq Nat
         /\ \A p \in Peers : \A i \in DOMAIN pendingAllocations[p] :
              i \in Nat \ {0} /\ pendingAllocations[p][i].ticket \in Tickets
<1>1. /\ Len(caller) \in Nat
      /\ DOMAIN caller = 1..Len(caller)
      /\ DOMAIN caller \subseteq Tickets
      /\ Tickets \subseteq Nat
  BY LenProperties, LimitsAssumption DEF TypeOK, Tickets
<1>2. ASSUME NEW p \in Peers, NEW i \in DOMAIN pendingAllocations[p]
      PROVE  i \in Nat \ {0} /\ pendingAllocations[p][i].ticket \in Tickets
  <2>1. pendingAllocations[p] \in Seq(PendingAllocation)
    BY DEF TypeOK
  <2>2. i \in 1..Len(pendingAllocations[p]) /\ Len(pendingAllocations[p]) \in Nat
    BY <2>1, LenProperties
  <2>3. pendingAllocations[p][i] \in PendingAllocation
    BY <2>1, <2>2, ElementOfSeq
  <2> QED BY <2>2, <2>3 DEF PendingAllocation
<1> QED BY <1>1, <1>2

\* A call that is granted at once or joins the end of its peer's queue.
LEMMA QueueAllocate ==
  ASSUME TypeOK, QueueInv, NEW p \in Peers, NEW amount \in Amounts,
         AllocateBlockMemory(p, amount)
  PROVE  QueueInv'
<1> DEFINE n   == Len(caller) + 1
           new == [amount |-> amount, allocIndex |-> nextAllocIndex, ticket |-> n]
<1>1. /\ Len(caller) \in Nat
      /\ DOMAIN caller = 1..Len(caller)
      /\ DOMAIN caller \subseteq Tickets
      /\ Tickets \subseteq Nat
      /\ \A q \in Peers : \A i \in DOMAIN pendingAllocations[q] :
           i \in Nat \ {0} /\ pendingAllocations[q][i].ticket \in Tickets
  BY QueueEntry
<1>2. n \in Tickets
  BY <1>1, LimitsAssumption DEF AllocateBlockMemory, TypeOK, Tickets
<1>3. /\ DOMAIN caller' = 1..n
      /\ caller'[n] = p
      /\ \A t \in DOMAIN caller : caller'[t] = caller[t]
  BY QueueAppend DEF AllocateBlockMemory, TypeOK
<1>4. n \notin DOMAIN caller /\ \A t \in DOMAIN caller : t < n /\ t \in DOMAIN caller'
  BY <1>1, <1>3
<1>5. CASE GrantNow(p, amount)
  <2>1. /\ pendingAllocations' = pendingAllocations
        /\ pendingAllocations[p] = <<>>
        /\ response' = [t \in Tickets |-> IF t \in {n} THEN "granted" ELSE response[t]]
    BY <1>5 DEF AllocateBlockMemory, GrantNow, HasPending, Respond
  <2>2. DOMAIN pendingAllocations[p] = {}
    BY <2>1
  <2> HIDE DEF n
  <2>3. EntriesWait'
    BY <1>1, <1>3, <1>4, <2>1 DEF QueueInv, EntriesWait
  <2>4. WaitersHaveEntries'
    BY <1>1, <1>3, <1>4, <2>1 DEF QueueInv, WaitersHaveEntries
  <2>5. QueuesSorted'
    BY <2>1 DEF QueueInv, QueuesSorted
  <2>6. GrantedBeforeQueue'
    <3>1. SUFFICES ASSUME NEW q \in Peers, NEW i \in DOMAIN pendingAllocations[q],
                          NEW u \in DOMAIN caller', caller'[u] = q, response'[u] = "granted"
                   PROVE  u < pendingAllocations[q][i].ticket
      BY <2>1 DEF GrantedBeforeQueue
    <3>2. u # n
      BY <1>3, <2>2, <3>1
    <3>3. u \in DOMAIN caller
      BY <1>1, <1>3, <3>1, <3>2 DEF n
    <3>4. caller[u] = q /\ response[u] = "granted"
      BY <1>1, <1>3, <2>1, <3>1, <3>2, <3>3
    <3> QED BY <3>3, <3>4 DEF QueueInv, GrantedBeforeQueue
  <2> QED BY <2>3, <2>4, <2>5, <2>6 DEF QueueInv
<1>6. CASE ~GrantNow(p, amount)
  <2>1. /\ pendingAllocations' = [pendingAllocations EXCEPT ![p] = Append(@, new)]
        /\ response' = [t \in Tickets |-> IF t \in {n} THEN "waiting" ELSE response[t]]
    BY <1>6 DEF AllocateBlockMemory, Respond
  <2>2. new \in PendingAllocation /\ new.ticket = n
    BY <1>2 DEF PendingAllocation, TypeOK
  <2> DEFINE len == Len(pendingAllocations[p])
  <2> HIDE DEF new
  <2>3. /\ len \in Nat
        /\ DOMAIN pendingAllocations[p] = 1..len
        /\ DOMAIN pendingAllocations'[p] = 1..(len + 1)
        /\ pendingAllocations'[p][len + 1] = new
        /\ \A i \in 1..len : pendingAllocations'[p][i] = pendingAllocations[p][i]
    BY <2>1, <2>2, QueueAppend DEF TypeOK
  <2>4. \A q \in Peers : q # p => pendingAllocations'[q] = pendingAllocations[q]
    BY <2>1 DEF TypeOK
  <2> HIDE DEF len, n
  <2>5. EntriesWait'
    <3>1. SUFFICES ASSUME NEW q \in Peers, NEW i \in DOMAIN pendingAllocations'[q]
                   PROVE  /\ pendingAllocations'[q][i].ticket \in DOMAIN caller'
                          /\ caller'[pendingAllocations'[q][i].ticket] = q
                          /\ response'[pendingAllocations'[q][i].ticket] = "waiting"
      BY DEF EntriesWait
    <3>2. CASE q = p /\ i = len + 1
      <4>1. pendingAllocations'[q][i].ticket = n
        BY <2>2, <2>3, <3>2
      <4> QED BY <1>1, <1>2, <1>3, <2>1, <3>2, <4>1 DEF n
    <3>3. CASE ~(q = p /\ i = len + 1)
      <4>1. i \in DOMAIN pendingAllocations[q]
            /\ pendingAllocations'[q][i] = pendingAllocations[q][i]
        BY <2>3, <2>4, <3>3
      <4> QED BY <1>1, <1>3, <1>4, <2>1, <4>1 DEF QueueInv, EntriesWait
    <3> QED BY <3>2, <3>3
  <2>6. WaitersHaveEntries'
    <3>1. SUFFICES ASSUME NEW t \in Tickets, response'[t] = "waiting"
                   PROVE  /\ t \in DOMAIN caller'
                          /\ \E i \in DOMAIN pendingAllocations'[caller'[t]] :
                               pendingAllocations'[caller'[t]][i].ticket = t
      BY DEF WaitersHaveEntries
    <3>2. CASE t = n
      <4>1. t \in DOMAIN caller' /\ caller'[t] = p
        BY <1>1, <1>3, <3>2 DEF n
      <4>2. len + 1 \in DOMAIN pendingAllocations'[p]
            /\ pendingAllocations'[p][len + 1].ticket = t
        BY <2>2, <2>3, <3>2
      <4> QED BY <4>1, <4>2
    <3>3. CASE t # n
      <4>1. response[t] = "waiting"
        BY <2>1, <3>1, <3>3
      <4>2. t \in DOMAIN caller
        BY <4>1 DEF QueueInv, WaitersHaveEntries
      <4>3. PICK i \in DOMAIN pendingAllocations[caller[t]] :
              pendingAllocations[caller[t]][i].ticket = t
        BY <4>1 DEF QueueInv, WaitersHaveEntries
      <4>4. caller[t] \in Peers /\ caller'[t] = caller[t] /\ t \in DOMAIN caller'
        BY <1>1, <1>3, <1>4, <4>2, ElementOfSeq DEF TypeOK
      <4>5. i \in DOMAIN pendingAllocations'[caller[t]]
            /\ pendingAllocations'[caller[t]][i] = pendingAllocations[caller[t]][i]
        BY <2>3, <2>4, <4>3, <4>4
      <4> QED BY <4>3, <4>4, <4>5
    <3> QED BY <3>2, <3>3
  <2>7. QueuesSorted'
    <3>1. SUFFICES ASSUME NEW q \in Peers, NEW i \in DOMAIN pendingAllocations'[q],
                          NEW j \in DOMAIN pendingAllocations'[q], i < j
                   PROVE  pendingAllocations'[q][i].ticket < pendingAllocations'[q][j].ticket
      BY DEF QueuesSorted
    <3>2. CASE q = p /\ j = len + 1
      <4>1. i \in DOMAIN pendingAllocations[p]
            /\ pendingAllocations'[q][i] = pendingAllocations[p][i]
        BY <2>3, <3>1, <3>2
      <4>2. pendingAllocations[p][i].ticket < n
        BY <1>4, <4>1 DEF QueueInv, EntriesWait
      <4> QED BY <2>2, <2>3, <3>2, <4>1, <4>2
    <3>3. CASE ~(q = p /\ j = len + 1)
      <4>1. /\ i \in DOMAIN pendingAllocations[q]
            /\ j \in DOMAIN pendingAllocations[q]
            /\ pendingAllocations'[q][i] = pendingAllocations[q][i]
            /\ pendingAllocations'[q][j] = pendingAllocations[q][j]
        BY <2>3, <2>4, <3>1, <3>3
      <4> QED BY <3>1, <4>1 DEF QueueInv, QueuesSorted
    <3> QED BY <3>2, <3>3
  <2>8. GrantedBeforeQueue'
    <3>1. SUFFICES ASSUME NEW q \in Peers, NEW i \in DOMAIN pendingAllocations'[q],
                          NEW u \in DOMAIN caller', caller'[u] = q, response'[u] = "granted"
                   PROVE  u < pendingAllocations'[q][i].ticket
      BY DEF GrantedBeforeQueue
    <3>2. u # n
      BY <1>2, <2>1, <3>1
    <3>3. u \in DOMAIN caller /\ u < n
      BY <1>1, <1>3, <3>1, <3>2 DEF n
    <3>4. caller[u] = q /\ response[u] = "granted"
      BY <1>1, <1>3, <2>1, <3>1, <3>2, <3>3
    <3>5. CASE q = p /\ i = len + 1
      BY <2>2, <2>3, <3>3, <3>5
    <3>6. CASE ~(q = p /\ i = len + 1)
      <4>1. i \in DOMAIN pendingAllocations[q]
            /\ pendingAllocations'[q][i] = pendingAllocations[q][i]
        BY <2>3, <2>4, <3>6
      <4> QED BY <3>3, <3>4, <4>1 DEF QueueInv, GrantedBeforeQueue
    <3> QED BY <3>5, <3>6
  <2> QED BY <2>5, <2>6, <2>7, <2>8 DEF QueueInv
<1> QED BY <1>5, <1>6

\* A forgotten peer's waiting callers get their error and its queue is dropped.
LEMMA QueueReleasePeer ==
  ASSUME TypeOK, QueueInv, NEW p \in Peers, ReleasePeerMemory(p)
  PROVE  QueueInv'
<1>1. /\ DOMAIN caller \subseteq Tickets
      /\ \A q \in Peers : \A i \in DOMAIN pendingAllocations[q] :
           i \in Nat \ {0} /\ pendingAllocations[q][i].ticket \in Tickets
  BY QueueEntry
<1>2. /\ caller' = caller
      /\ pendingAllocations' = [pendingAllocations EXCEPT ![p] = <<>>]
      /\ response' = [t \in Tickets |->
                        IF t \in WaitingTickets(p) THEN "error" ELSE response[t]]
  BY DEF ReleasePeerMemory, Respond
<1>3. /\ DOMAIN pendingAllocations'[p] = {}
      /\ \A q \in Peers : q # p => pendingAllocations'[q] = pendingAllocations[q]
  BY <1>2 DEF TypeOK
<1>4. \A t \in WaitingTickets(p) : t \in DOMAIN caller /\ caller[t] = p
  BY DEF WaitingTickets, QueueInv, EntriesWait
<1>5. EntriesWait'
  BY <1>1, <1>2, <1>3, <1>4 DEF QueueInv, EntriesWait
<1>6. WaitersHaveEntries'
  <2>1. SUFFICES ASSUME NEW t \in Tickets, response'[t] = "waiting"
                 PROVE  /\ t \in DOMAIN caller
                        /\ \E i \in DOMAIN pendingAllocations'[caller[t]] :
                             pendingAllocations'[caller[t]][i].ticket = t
    BY <1>2 DEF WaitersHaveEntries
  <2>2. response[t] = "waiting" /\ t \notin WaitingTickets(p)
    BY <1>2, <2>1
  <2>3. t \in DOMAIN caller
    BY <2>2 DEF QueueInv, WaitersHaveEntries
  <2>4. PICK i \in DOMAIN pendingAllocations[caller[t]] :
          pendingAllocations[caller[t]][i].ticket = t
    BY <2>2 DEF QueueInv, WaitersHaveEntries
  <2>5. caller[t] # p
    BY <2>2, <2>4 DEF WaitingTickets
  <2>6. caller[t] \in Peers
    BY <2>3, QueueEntry, ElementOfSeq DEF TypeOK
  <2> QED BY <1>3, <2>3, <2>4, <2>5, <2>6
<1>7. QueuesSorted'
  BY <1>3 DEF QueueInv, QueuesSorted
<1>8. GrantedBeforeQueue'
  <2>1. SUFFICES ASSUME NEW q \in Peers, NEW i \in DOMAIN pendingAllocations'[q],
                        NEW u \in DOMAIN caller, caller[u] = q, response'[u] = "granted"
                 PROVE  u < pendingAllocations'[q][i].ticket
    BY <1>2 DEF GrantedBeforeQueue
  <2>2. q # p /\ pendingAllocations'[q] = pendingAllocations[q]
    BY <1>3, <2>1
  <2>3. response[u] = "granted"
    BY <1>1, <1>2, <2>1
  <2> QED BY <2>1, <2>2, <2>3 DEF QueueInv, GrantedBeforeQueue
<1> QED BY <1>5, <1>6, <1>7, <1>8 DEF QueueInv

\* The head of a queue is granted and leaves it.
LEMMA QueueGrantHead ==
  ASSUME TypeOK, QueueInv, NEW p \in Peers, ProcessNextPendingAllocationForPeer(p)
  PROVE  QueueInv'
<1> DEFINE h == Head(pendingAllocations[p]).ticket
<1>1. /\ DOMAIN caller \subseteq Tickets
      /\ Tickets \subseteq Nat
      /\ \A q \in Peers : \A i \in DOMAIN pendingAllocations[q] :
           i \in Nat \ {0} /\ pendingAllocations[q][i].ticket \in Tickets
  BY QueueEntry
<1>2. HasPending(p)
  BY DEF ProcessNextPendingAllocationForPeer, HeadGrantable
<1>3. h = pendingAllocations[p][1].ticket /\ 1 \in DOMAIN pendingAllocations[p]
  BY <1>2, HeadFields
<1>4. /\ caller' = caller
      /\ pendingAllocations' = [pendingAllocations EXCEPT ![p] = Tail(@)]
      /\ response' = [t \in Tickets |-> IF t \in {h} THEN "granted" ELSE response[t]]
  BY DEF ProcessNextPendingAllocationForPeer, Respond
<1>5. /\ pendingAllocations'[p] = Tail(pendingAllocations[p])
      /\ \A q \in Peers : q # p => pendingAllocations'[q] = pendingAllocations[q]
  BY <1>4 DEF TypeOK
<1>6. /\ Len(pendingAllocations[p]) \in Nat
      /\ DOMAIN pendingAllocations[p] = 1..Len(pendingAllocations[p])
      /\ DOMAIN pendingAllocations'[p] = 1..(Len(pendingAllocations[p]) - 1)
      /\ \A i \in DOMAIN pendingAllocations'[p] :
           /\ i + 1 \in DOMAIN pendingAllocations[p]
           /\ pendingAllocations'[p][i] = pendingAllocations[p][i + 1]
  BY <1>2, <1>5, QueueHeadTail, LenProperties DEF HasPending, TypeOK
<1>7. h \in DOMAIN caller /\ caller[h] = p /\ h \in Tickets
  BY <1>1, <1>3 DEF QueueInv, EntriesWait
<1>8. \A i \in DOMAIN pendingAllocations[p] : i # 1 => h < pendingAllocations[p][i].ticket
  BY <1>1, <1>3 DEF QueueInv, QueuesSorted
<1> HIDE DEF h
<1>9. EntriesWait'
  <2>1. SUFFICES ASSUME NEW q \in Peers, NEW i \in DOMAIN pendingAllocations'[q]
                 PROVE  /\ pendingAllocations'[q][i].ticket \in DOMAIN caller
                        /\ caller[pendingAllocations'[q][i].ticket] = q
                        /\ response'[pendingAllocations'[q][i].ticket] = "waiting"
    BY <1>4 DEF EntriesWait
  <2>2. PICK k \in DOMAIN pendingAllocations[q] :
          /\ pendingAllocations'[q][i] = pendingAllocations[q][k]
          /\ q = p => k # 1
    <3>1. CASE q = p
      <4>1. i + 1 \in DOMAIN pendingAllocations[q] /\ i + 1 # 1
            /\ pendingAllocations'[q][i] = pendingAllocations[q][i + 1]
        BY <1>6, <2>1, <3>1
      <4> QED BY <4>1
    <3>2. CASE q # p
      BY <1>5, <2>1, <3>2
    <3> QED BY <3>1, <3>2
  <2>3. /\ pendingAllocations[q][k].ticket \in DOMAIN caller
        /\ caller[pendingAllocations[q][k].ticket] = q
        /\ response[pendingAllocations[q][k].ticket] = "waiting"
    BY DEF QueueInv, EntriesWait
  <2>4. pendingAllocations[q][k].ticket # h
    <3>1. CASE q = p
      <4>1. h < pendingAllocations[q][k].ticket
        BY <1>8, <2>2, <3>1
      <4>2. h \in Nat /\ pendingAllocations[q][k].ticket \in Nat
        BY <1>1, <1>7
      <4> QED BY <4>1, <4>2
    <3>2. CASE q # p
      BY <1>7, <2>3, <3>2
    <3> QED BY <3>1, <3>2
  <2> QED BY <1>1, <1>4, <2>2, <2>3, <2>4
<1>10. WaitersHaveEntries'
  <2>1. SUFFICES ASSUME NEW t \in Tickets, response'[t] = "waiting"
                 PROVE  /\ t \in DOMAIN caller
                        /\ \E i \in DOMAIN pendingAllocations'[caller[t]] :
                             pendingAllocations'[caller[t]][i].ticket = t
    BY <1>4 DEF WaitersHaveEntries
  <2>2. response[t] = "waiting" /\ t # h
    BY <1>4, <2>1
  <2>3. t \in DOMAIN caller
    BY <2>2 DEF QueueInv, WaitersHaveEntries
  <2>4. PICK i \in DOMAIN pendingAllocations[caller[t]] :
          pendingAllocations[caller[t]][i].ticket = t
    BY <2>2 DEF QueueInv, WaitersHaveEntries
  <2>5. caller[t] \in Peers
    BY <2>3, QueueEntry, ElementOfSeq DEF TypeOK
  <2>6. CASE caller[t] = p
    <3>1. i # 1 /\ i \in Nat \ {0}
      BY <1>1, <1>3, <2>2, <2>4, <2>6
    <3>2. i - 1 \in DOMAIN pendingAllocations'[p]
      BY <1>6, <2>4, <2>6, <3>1
    <3>3. pendingAllocations'[p][i - 1] = pendingAllocations[p][i]
      BY <1>6, <3>1, <3>2
    <3> QED BY <2>3, <2>4, <2>6, <3>2, <3>3
  <2>7. CASE caller[t] # p
    BY <1>5, <2>3, <2>4, <2>5, <2>7
  <2> QED BY <2>6, <2>7
<1>11. QueuesSorted'
  <2>1. SUFFICES ASSUME NEW q \in Peers, NEW i \in DOMAIN pendingAllocations'[q],
                        NEW j \in DOMAIN pendingAllocations'[q], i < j
                 PROVE  pendingAllocations'[q][i].ticket < pendingAllocations'[q][j].ticket
    BY DEF QueuesSorted
  <2>2. CASE q = p
    <3>1. /\ i + 1 \in DOMAIN pendingAllocations[p]
          /\ j + 1 \in DOMAIN pendingAllocations[p]
          /\ pendingAllocations'[p][i] = pendingAllocations[p][i + 1]
          /\ pendingAllocations'[p][j] = pendingAllocations[p][j + 1]
      BY <1>6, <2>1, <2>2
    <3>2. i \in Nat /\ j \in Nat
      BY <1>6, <2>1, <2>2
    <3>3. i + 1 < j + 1
      BY <2>1, <3>2
    <3> QED BY <2>2, <3>1, <3>3 DEF QueueInv, QueuesSorted
  <2>3. CASE q # p
    BY <1>5, <2>1, <2>3 DEF QueueInv, QueuesSorted
  <2> QED BY <2>2, <2>3
<1>12. GrantedBeforeQueue'
  <2>1. SUFFICES ASSUME NEW q \in Peers, NEW i \in DOMAIN pendingAllocations'[q],
                        NEW u \in DOMAIN caller, caller[u] = q, response'[u] = "granted"
                 PROVE  u < pendingAllocations'[q][i].ticket
    BY <1>4 DEF GrantedBeforeQueue
  <2>2. u = h \/ response[u] = "granted"
    BY <1>1, <1>4, <2>1
  <2>3. CASE q = p
    <3>1. i + 1 \in DOMAIN pendingAllocations[p] /\ i + 1 # 1
          /\ pendingAllocations'[p][i] = pendingAllocations[p][i + 1]
      BY <1>6, <2>1, <2>3
    <3>2. h < pendingAllocations[p][i + 1].ticket
      BY <1>8, <3>1
    <3> QED BY <2>1, <2>2, <2>3, <3>1, <3>2 DEF QueueInv, GrantedBeforeQueue
  <2>4. CASE q # p
    <3>1. u # h /\ pendingAllocations'[q] = pendingAllocations[q]
      BY <1>5, <1>7, <2>1, <2>4
    <3> QED BY <2>1, <2>2, <3>1 DEF QueueInv, GrantedBeforeQueue
  <2> QED BY <2>3, <2>4
<1> QED BY <1>9, <1>10, <1>11, <1>12 DEF QueueInv

\* The strengthening holds of every behaviour of the allocator.
LEMMA QueueInvariant == Spec => []QueueInv
<1> USE DEF EntriesWait, WaitersHaveEntries, QueuesSorted, GrantedBeforeQueue
<1>1. Init => QueueInv
  BY DEF Init, QueueInv
<1>2. ASSUME TypeOK, QueueInv, [Next]_vars
      PROVE  QueueInv'
  <2>1. ASSUME NEW p \in Peers, NEW amount \in Amounts, AllocateBlockMemory(p, amount)
        PROVE  QueueInv'
    BY <1>2, <2>1, QueueAllocate
  <2>2. ASSUME NEW p \in Peers, NEW amount \in Amounts, ReleaseBlockMemory(p, amount)
        PROVE  QueueInv'
    BY <1>2, <2>2 DEF ReleaseBlockMemory, QueueInv
  <2>3. ASSUME NEW p \in Peers, ReleasePeerMemory(p)
        PROVE  QueueInv'
    BY <1>2, <2>3, QueueReleasePeer
  <2>4. ASSUME NEW p \in Peers, ProcessNextPendingAllocationForPeer(p)
        PROVE  QueueInv'
    BY <1>2, <2>4, QueueGrantHead
  <2>5. ASSUME NEW p \in Peers, ForgetIdlePeer(p)
        PROVE  QueueInv'
    BY <1>2, <2>5 DEF ForgetIdlePeer, QueueInv
  <2>6. ASSUME ProcessPendingAllocationsReturns
        PROVE  QueueInv'
    BY <1>2, <2>6 DEF ProcessPendingAllocationsReturns, QueueInv
  <2>7. ASSUME UNCHANGED vars
        PROVE  QueueInv'
    BY <1>2, <2>7 DEF vars, QueueInv
  <2> QED BY <1>2, <2>1, <2>2, <2>3, <2>4, <2>5, <2>6, <2>7
          DEF Next, ProcessPendingAllocations
<1> QED BY <1>1, <1>2, TypeCorrect, PTL DEF Spec

\* The allocations of one peer are granted in the order in which they were asked
\* for: no call overtakes a waiting call of the same peer.
THEOREM InOrder == Spec => []GrantedInOrder
<1>1. TypeOK /\ QueueInv => GrantedInOrder
  <2> SUFFICES ASSUME TypeOK, QueueInv,
                      NEW t \in DOMAIN caller, NEW u \in DOMAIN caller,
                      t < u, caller[t] = caller[u], response[u] = "granted",
                      response[t] = "waiting"
               PROVE  FALSE
    BY DEF GrantedInOrder
  <2>1. t \in Tickets /\ t \in Nat /\ u \in Nat /\ caller[t] \in Peers
    BY QueueEntry, ElementOfSeq DEF TypeOK
  <2>2. PICK i \in DOMAIN pendingAllocations[caller[t]] :
          pendingAllocations[caller[t]][i].ticket = t
    BY <2>1 DEF QueueInv, WaitersHaveEntries
  <2>3. u < t
    BY <2>1, <2>2 DEF QueueInv, GrantedBeforeQueue
  <2> QED BY <2>1, <2>3
<1> QED BY <1>1, TypeCorrect, QueueInvariant, PTL

\* A caller is blocked exactly while its peer's queue holds its channel, once.
THEOREM WaitersQueued == Spec => []WaitersAreQueued
<1>1. TypeOK /\ QueueInv => WaitersAreQueued
  <2> SUFFICES ASSUME TypeOK, QueueInv
               PROVE  WaitersAreQueued
    OBVIOUS
  <2>1. \A t \in DOMAIN caller : caller[t] \in Peers
    BY QueueEntry, ElementOfSeq DEF TypeOK
  <2>2. ASSUME NEW t \in Tickets
        PROVE  response[t] = "waiting" <=>
                 \E p \in Peers : \E i \in DOMAIN pendingAllocations[p] :
                   pendingAllocations[p][i].ticket = t
    BY <2>1 DEF QueueInv, EntriesWait, WaitersHaveEntries
  <2>3. ASSUME NEW p \in Peers, NEW i \in DOMAIN pendingAllocations[p],
               NEW j \in DOMAIN pendingAllocations[p]
        PROVE  /\ pendingAllocations[p][i].ticket = pendingAllocations[p][j].ticket => i = j
               /\ caller[pendingAllocations[p][i].ticket] = p
    <3>1. /\ i \in Nat /\ j \in Nat
          /\ pendingAllocations[p][i].ticket \in Nat
          /\ pendingAllocations[p][j].ticket \in Nat
      BY QueueEntry
    <3>2. i < j => pendingAllocations[p][i].ticket < pendingAllocations[p][j].ticket
      BY DEF QueueInv, QueuesSorted
    <3>3. j < i => pendingAllocations[p][j].ticket < pendingAllocations[p][i].ticket
      BY DEF QueueInv, QueuesSorted
    <3>4. pendingAllocations[p][i].ticket = pendingAllocations[p][j].ticket => i = j
      BY <3>1, <3>2, <3>3
    <3>5. caller[pendingAllocations[p][i].ticket] = p
      BY DEF QueueInv, EntriesWait
    <3> QED BY <3>4, <3>5
  <2> QED BY <2>2, <2>3 DEF WaitersAreQueued
<1> QED BY <1>1, TypeCorrect, QueueInvariant, PTL

\* The three together, as the run checks them: no status, caller or grantable waiter
\* of the allocator is forgotten.
THEOREM NoneForgotten == Spec => []NobodyIsForgotten
BY ForgottenHoldNothing, WaitersQueued, NoLostWakeup, PTL DEF NobodyIsForgotten

-----------------------------------------------------------------------------
(* The traverser *)

\* While the user looks at the current link or answers it, the walk stands still.
WalkStandsStill ==
  user \in {"current", "answer", "sending"} => walker \notin {"walk", "visit"}

\* The link that was read is the current one, also when the walk is cancelled.
LinkIsCurrent ==
  user \in {"answer", "sending"} => link = currentLink

\* Each block that was given is one the walk asked for, and was counted unless
\* the user is about to.
BlocksAreCounted ==
  /\ taken <= currentLink
  /\ walker \in {"waiting", "relock"} => taken < currentLink
  /\ taken = IF user = "count" THEN blocksCount + 1 ELSE blocksCount

\* writeDone and close(t.stopped) are the last things the walker does.
DoneIsLast ==
  isDone <=> walker \in {"stopping", "stopped"}

\* The inductive invariant.
TraverserInv ==
  /\ TraverserTypeOK
  /\ MutexHandedOver
  /\ WalkStandsStill
  /\ LinkIsCurrent
  /\ BlocksAreCounted
  /\ DoneIsLast
  /\ ClosedAfterStopped

\* The state in which Start leaves the traverser satisfies the invariant.
LEMMA InitTraverserInv == TraverserInit => TraverserInv
<1> SUFFICES ASSUME TraverserInit PROVE TraverserInv
  OBVIOUS
<1> USE DEF TraverserInit
<1>1. TraverserTypeOK
  <2>1. 0 \in 0..MaxLinks
    BY MaxLinksAssumption
  <2> QED
    BY <2>1 DEF TraverserTypeOK, WalkerPlaces, UserPlaces, NoErr
<1>2. MutexHandedOver /\ WalkStandsStill /\ LinkIsCurrent
  BY DEF MutexHandedOver, WalkerHolds, UserHolds, WalkStandsStill, LinkIsCurrent
<1>3. BlocksAreCounted
  BY DEF BlocksAreCounted
<1>4. DoneIsLast /\ ClosedAfterStopped
  BY DEF DoneIsLast, ClosedAfterStopped
<1> QED
  BY <1>1, <1>2, <1>3, <1>4 DEF TraverserInv

\* Steps of the goroutine of the traversal preserve the invariant.
LEMMA WalkerStep == TraverserInv /\ Walker => TraverserInv'
<1> SUFFICES ASSUME TraverserInv, Walker PROVE TraverserInv'
  OBVIOUS
<1> USE MaxLinksAssumption
<1> USE DEF TraverserInv, TraverserTypeOK, MutexHandedOver, WalkerHolds, UserHolds, WalkStandsStill,
            LinkIsCurrent, BlocksAreCounted, DoneIsLast, ClosedAfterStopped, WalkerPlaces,
            UserPlaces, NoErr, context, result
<1>1. CASE AskForBlock
  <2> USE <1>1 DEF AskForBlock, MoreLinks
  <2>1. currentLink' \in 0..MaxLinks /\ taken' < currentLink'
    BY SMT
  <2>2. TraverserTypeOK'
    BY <2>1, Zenon
  <2>3. MutexHandedOver' /\ WalkStandsStill' /\ LinkIsCurrent'
    BY Zenon
  <2>4. BlocksAreCounted'
    BY <2>1, SMT
  <2>5. DoneIsLast' /\ ClosedAfterStopped'
    BY Zenon
  <2> QED
    BY <2>2, <2>3, <2>4, <2>5
<1>2. CASE WalkEnds
  BY <1>2 DEF WalkEnds
<1>3. CASE SeeCancel
  BY <1>3 DEF SeeCancel
<1>4. CASE LockAfterCancel
  BY <1>4 DEF LockAfterCancel, Relock
<1>5. CASE Visit
  BY <1>5 DEF Visit
<1>6. CASE WriteDone
  <2> USE <1>6 DEF WriteDone
  <2>1. TraverserTypeOK'
    BY Zenon
  <2>2. MutexHandedOver' /\ WalkStandsStill' /\ LinkIsCurrent'
    BY Zenon
  <2>3. BlocksAreCounted'
    BY Zenon
  <2>4. DoneIsLast' /\ ClosedAfterStopped'
    BY Zenon
  <2> QED
    BY <2>1, <2>2, <2>3, <2>4
<1>7. CASE CloseStopped
  BY <1>7 DEF CloseStopped
<1> QED
  BY <1>1, <1>2, <1>3, <1>4, <1>5, <1>6, <1>7 DEF Walker

\* Steps of the executor preserve the invariant.
LEMMA ExecutorStep == TraverserInv /\ Executor => TraverserInv'
<1> SUFFICES ASSUME TraverserInv, Executor PROVE TraverserInv'
  OBVIOUS
<1> USE MaxLinksAssumption
<1> USE DEF TraverserInv, TraverserTypeOK, MutexHandedOver, WalkerHolds, UserHolds, WalkStandsStill,
            LinkIsCurrent, BlocksAreCounted, DoneIsLast, ClosedAfterStopped, WalkerPlaces,
            UserPlaces, NoErr, context, result
<1>1. CASE IsComplete
  BY <1>1 DEF IsComplete
<1>2. CASE CurrentRequest
  BY <1>2 DEF CurrentRequest
<1>3. CASE LockForAnswer
  <2> USE <1>3 DEF LockForAnswer, AfterFailure
  <2>1. TraverserTypeOK'
    BY Zenon
  <2>2. MutexHandedOver' /\ WalkStandsStill' /\ LinkIsCurrent'
    <3>1. ~WalkerHolds /\ UNCHANGED walker
      BY Zenon
    <3>2. CASE isDone
      BY <3>1, <3>2, SMT
    <3>3. CASE ~isDone
      BY <3>1, <3>3, SMT
    <3> QED
      BY <3>2, <3>3
  <2>3. BlocksAreCounted'
    BY SMT
  <2>4. DoneIsLast' /\ ClosedAfterStopped'
    BY Zenon
  <2> QED
    BY <2>1, <2>2, <2>3, <2>4
<1>4. CASE AnswerCancelled
  BY <1>4 DEF AnswerCancelled, AfterFailure
<1>5. CASE Answer
  BY <1>5 DEF Answer, Given, KeepLocked
<1>6. CASE CountBlock
  BY <1>6 DEF CountBlock
<1> QED
  BY <1>1, <1>2, <1>3, <1>4, <1>5, <1>6 DEF Executor

\* Pausing, resuming, cancelling and terminating preserve the invariant.
LEMMA OtherStep == TraverserInv /\ (Pause \/ Resume \/ CancelParent \/ Manager) => TraverserInv'
<1> SUFFICES ASSUME TraverserInv, Pause \/ Resume \/ CancelParent \/ Manager PROVE TraverserInv'
  OBVIOUS
<1> USE MaxLinksAssumption
<1> USE DEF TraverserInv, TraverserTypeOK, MutexHandedOver, WalkerHolds, UserHolds, WalkStandsStill,
            LinkIsCurrent, BlocksAreCounted, DoneIsLast, ClosedAfterStopped, WalkerPlaces,
            UserPlaces, NoErr, context, result
<1>1. CASE Pause
  BY <1>1 DEF Pause
<1>2. CASE Resume
  BY <1>2 DEF Resume
<1>3. CASE CancelParent
  BY <1>3 DEF CancelParent
<1>4. CASE Shutdown
  BY <1>4 DEF Shutdown
<1>5. CASE CloseChannels
  BY <1>5 DEF CloseChannels, ShutdownReturns
<1> QED
  BY <1>1, <1>2, <1>3, <1>4, <1>5 DEF Manager

\* The invariant holds in every reachable state.
THEOREM TraverserInvariance == TraverserSpec => []TraverserInv
<1>1. TraverserInv /\ UNCHANGED traverserVars => TraverserInv'
  BY DEF TraverserInv, TraverserTypeOK, MutexHandedOver, WalkerHolds, UserHolds, WalkStandsStill,
         LinkIsCurrent, BlocksAreCounted, DoneIsLast, ClosedAfterStopped, traverserVars
<1>2. TraverserInv /\ [TraverserNext]_traverserVars => TraverserInv'
  BY <1>1, WalkerStep, ExecutorStep, OtherStep DEF TraverserNext
<1> QED
  BY InitTraverserInv, <1>2, PTL DEF TraverserSpec

\* Of traverser.go: the state has its type, for a traversal of any length.
THEOREM TraverserTypeCorrect == TraverserSpec => []TraverserTypeOK
  BY TraverserInvariance, PTL DEF TraverserInv

\* The mutex stateMu is locked exactly while one of the two goroutines has it:
\* neither Advance, Error, loader nor writeDone unlocks a mutex that is not locked.
THEOREM HandOver == TraverserSpec => []MutexHandedOver
  BY TraverserInvariance, PTL DEF TraverserInv

\* What Advance or Error gives to the walk is for the link it waits for.
THEOREM AnswersMatch == TraverserSpec => []AnswerIsForCurrentLink
<1>1. TraverserInv => AnswerIsForCurrentLink
  BY DEF TraverserInv, LinkIsCurrent, AnswerIsForCurrentLink
<1> QED
  BY <1>1, TraverserInvariance, PTL

\* NBlocksTraversed is the number of blocks the walk was given.
THEOREM CountExact == TraverserSpec => []CountIsExact
<1>1. TraverserInv => CountIsExact
  BY DEF TraverserInv, BlocksAreCounted, CountIsExact
<1> QED
  BY <1>1, TraverserInvariance, PTL

\* terminateRequest never closes a channel on which the visitor may still send.
THEOREM NoSendOnClosed == TraverserSpec => []ClosedAfterStopped
  BY TraverserInvariance, PTL DEF TraverserInv
=============================================================================
