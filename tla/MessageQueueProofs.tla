------------------------- MODULE MessageQueueProofs -------------------------
(***************************************************************************)
(* Proofs about the message queue of a peer, for any responses, operations *)
(* and blocks and any bounds: what reaches the peer of a response is a     *)
(* prefix of what was built for it, and the memory the allocator has       *)
(* granted covers the blocks that wait in the queue.                       *)
(*                                                                         *)
(* A sum of sizes is the number of pairs of a block and one of its bytes   *)
(* (Units), so that what adding an operation does to it follows from the   *)
(* cardinalities of finite sets.                                           *)
(***************************************************************************)
EXTENDS MessageQueue, SequenceTheorems, FiniteSetTheorems, WellFoundedInduction, TLAPS

-----------------------------------------------------------------------------
(* The inductive invariant *)

Results == {"none", "dropped", "built", "sending", "sent", "error", "scrubbed"}

OperationType == [link : Blocks \union {NoBlock}, sendBlock : BOOLEAN, extension : Nat,
                  adds : BOOLEAN]

CallerType == [at : {"idle", "waiting", "build", "signal"}, op : OperationType]

\* The operations that a message has of each response are numbered, and a response
\* with an operation has its stream there.
IsBuilder(b) ==
  /\ b.items \in [Callers -> SUBSET Nat]
  /\ b.streams \in SUBSET Requests
  /\ \A r \in Requests : b.items[r] \subseteq OpNums
  /\ \A r \in Requests : b.items[r] # {} => r \in b.streams

Places == {"select", "extract", "initialize", "send", "recover", "error", "scrub", "release",
           "fail", "stopped"}

\* The variables this proof is about have their types.
Shape ==
  /\ \E S : builders \in Seq(S)
  /\ \A i \in DOMAIN builders : IsBuilder(builders[i])
  /\ IsBuilder(message)
  /\ pc \in Places
  /\ closed \in SUBSET Requests
  /\ caller \in [Callers -> CallerType]
  /\ calls \in [Callers -> Nat]
  /\ \A r \in Requests : calls[r] \in 0..MaxOps[r]
  /\ outcome \in [Callers -> [OpNums -> Results]]

\* The streams of a message that failed are closed before the queue is scrubbed.
ClosedFirst == pc \in {"scrub", "release", "fail"} => message.streams \subseteq closed

\* An operation is built when it is in a queued message, and being sent when it is in
\* the message that was taken off the queue; later messages have later operations.
PlacedOnce(r) ==
  /\ \A n \in OpNums :
       outcome[r][n] = "built" <=> \E i \in DOMAIN builders : n \in builders[i].items[r]
  /\ \A n \in OpNums : outcome[r][n] = "sending" <=> n \in message.items[r]
  /\ \A i, j \in DOMAIN builders : i < j =>
       \A m \in builders[i].items[r], n \in builders[j].items[r] : m < n

\* A response stream is in the middle of an operation.
Busy(r) == caller[r].at \in {"waiting", "build"}

\* Operations are numbered in the order in which they are decided.
Numbered(r) ==
  /\ \A n \in OpNums : outcome[r][n] = "none" <=> n > calls[r] \/ (n = calls[r] /\ Busy(r))
  /\ Busy(r) => calls[r] > 0

\* A response that lost an operation has a closed stream, and nothing of it is left in
\* the queue once the queue was scrubbed; between messages none is being sent.
FailedIsClosed(r) ==
  /\ \A n \in OpNums : outcome[r][n] \in {"error", "scrubbed"} => r \in closed
  /\ pc \in {"release", "fail"} /\ r \in message.streams =>
       \A n \in OpNums : outcome[r][n] # "built"
  /\ pc \in {"select", "extract", "stopped"} => message.items[r] = {}

\* Nothing that is sent, being sent or queued has a gap before it.
NoGaps(r) ==
  \A m, n \in OpNums : m < n =>
    /\ outcome[r][n] = "sent"    => outcome[r][m] \in {"sent", "dropped"}
    /\ outcome[r][n] = "sending" => outcome[r][m] \in {"sent", "dropped", "sending"}
    /\ outcome[r][n] = "built"   => outcome[r][m] \in {"sent", "dropped", "sending", "built"}

\* What holds of each response.
Streamed(r) == PlacedOnce(r) /\ Numbered(r) /\ FailedIsClosed(r) /\ NoGaps(r)

IInv == Shape /\ ClosedFirst /\ \A r \in Requests : Streamed(r)

-----------------------------------------------------------------------------
(* The callers *)

\* The operations that are ever built.
LEMMA OperationTypes ==
  /\ NoOp \in OperationType /\ [NoOp EXCEPT !.adds = TRUE] \in OperationType
  /\ \A r \in Requests : Operations[r] \subseteq OperationType
<1>1. NoOp \in OperationType /\ [NoOp EXCEPT !.adds = TRUE] \in OperationType
  <2>1. NoOp \in OperationType
    BY DEF NoOp, OperationType
  <2>2. \A o \in OperationType : [o EXCEPT !.adds = TRUE] \in OperationType
    BY DEF OperationType
  <2> QED BY <2>1, <2>2
<1>2. \A r \in Requests : Operations[r] \subseteq OperationType
  <2>1. Operations \in [Requests -> SUBSET OperationType]
    BY QueueAssumption, Zenon DEF OperationType
  <2> QED BY <2>1
<1> QED BY <1>1, <1>2

\* The numbers of the operations.
LEMMA Numbers ==
  /\ \A n \in OpNums : n \in Nat /\ n > 0
  /\ \A r \in Requests : MaxOps[r] \in Nat /\ 1..MaxOps[r] \subseteq OpNums
  /\ Requests \subseteq Callers /\ Requestor \in Callers /\ Requestor \notin Requests
<1>1. MaxRequests \in Nat /\ \A r \in Requests : MaxOps[r] \in Nat
  BY QueueAssumption
<1>2. \A n \in OpNums : n \in Nat /\ n > 0
  BY <1>1 DEF OpNums
<1>3. \A r \in Requests : 1..MaxOps[r] \subseteq OpNums
  BY DEF OpNums
<1> QED BY <1>1, <1>2, <1>3, QueueAssumption DEF Callers

\* Only the caller that moves is changed.
LEMMA Moves ==
  ASSUME caller \in [Callers -> CallerType], NEW c \in Callers,
         NEW a \in {"idle", "waiting", "build", "signal"}, NEW o \in OperationType, Goto(c, a, o)
  PROVE  /\ caller' \in [Callers -> CallerType]
         /\ caller'[c].at = a
         /\ \A d \in Callers \ {c} : caller'[d] = caller[d]
<1>1. [at |-> a, op |-> o] \in CallerType
  BY DEF CallerType
<1> DEFINE place == [at |-> a, op |-> o]
<1>4. place \in CallerType /\ place.at = a /\ caller' = [caller EXCEPT ![c] = place]
  BY <1>1 DEF Goto
<1> HIDE DEF place
<1>2. caller' \in [Callers -> CallerType] /\ caller'[c].at = a
  BY <1>4
<1>3. \A d \in Callers \ {c} : caller'[d] = caller[d]
  BY DEF Goto
<1> QED BY <1>2, <1>3

\* A release lets callers go on, and ends or begins no operation.
LEMMA Releases ==
  ASSUME caller \in [Callers -> CallerType],
         ReleasePeerMemory \/ \E amount : ReleaseBlockMemory(amount)
  PROVE  /\ caller' \in [Callers -> CallerType]
         /\ \A c \in Callers : Busy(c)' <=> Busy(c)
<1>1. /\ DOMAIN caller' = Callers
      /\ caller' = [c \in Callers |-> caller'[c]]
      /\ \A c \in Callers :
           \/ caller'[c] = caller[c]
           \/ caller[c].at = "waiting" /\ caller'[c] = [caller[c] EXCEPT !.at = "build"]
  <2>1. CASE ReleasePeerMemory
    BY <2>1 DEF ReleasePeerMemory
  <2>2. ASSUME NEW amount, ReleaseBlockMemory(amount) PROVE <1>1!1 /\ <1>1!2 /\ <1>1!3
    BY <2>2 DEF ReleaseBlockMemory, BlockedOn
  <2> QED BY <2>1, <2>2
<1>2. \A k \in CallerType : /\ [k EXCEPT !.at = "build"] \in CallerType
                            /\ [k EXCEPT !.at = "build"].at = "build"
  BY DEF CallerType
<1>3. ASSUME NEW c \in Callers PROVE caller'[c] \in CallerType /\ (Busy(c)' <=> Busy(c))
  <2>1. caller[c] \in CallerType
    OBVIOUS
  <2>2. CASE caller'[c] = caller[c]
    BY <2>1, <2>2 DEF Busy
  <2>3. CASE caller[c].at = "waiting" /\ caller'[c] = [caller[c] EXCEPT !.at = "build"]
    <3>1. caller'[c] \in CallerType /\ caller'[c].at = "build"
      BY <1>2, <2>1, <2>3
    <3> QED BY <2>3, <3>1 DEF Busy
  <2> QED BY <1>1, <2>2, <2>3
<1> QED BY <1>1, <1>3

-----------------------------------------------------------------------------
(* The queue *)

\* The queued messages have the same operations of r, and further messages none.
SameItems(r) ==
  /\ DOMAIN builders \subseteq DOMAIN builders'
  /\ \A i \in DOMAIN builders : builders'[i].items[r] = builders[i].items[r]
  /\ \A i \in DOMAIN builders' \ DOMAIN builders : builders'[i].items[r] = {}

\* runQueue does not come to a place where more is known of the message.
SamePlace ==
  /\ pc' \in {"release", "fail"} => pc \in {"release", "fail"}
  /\ pc' \in {"select", "extract", "stopped"} => pc \in {"select", "extract", "stopped"}

\* A step that does nothing for the response r.
LEMMA Kept ==
  ASSUME NEW r \in Requests, Streamed(r), SameItems(r), SamePlace, message' = message,
         outcome'[r] = outcome[r], Numbered(r)', closed \subseteq closed'
  PROVE  Streamed(r)'
<1>1. \A n : (\E i \in DOMAIN builders' : n \in builders'[i].items[r])
               <=> (\E i \in DOMAIN builders : n \in builders[i].items[r])
  BY DEF SameItems
<1>2. PlacedOnce(r)'
  <2>1. ASSUME NEW i \in DOMAIN builders', NEW j \in DOMAIN builders', i < j,
               NEW m \in builders'[i].items[r], NEW n \in builders'[j].items[r]
        PROVE  m < n
    <3>1. i \in DOMAIN builders /\ j \in DOMAIN builders
      BY <2>1 DEF SameItems
    <3> QED BY <2>1, <3>1 DEF SameItems, Streamed, PlacedOnce
  <2> QED BY <1>1, <2>1 DEF Streamed, PlacedOnce
<1>3. FailedIsClosed(r)'
  BY DEF Streamed, FailedIsClosed, SamePlace
<1>4. NoGaps(r)'
  BY DEF Streamed, NoGaps
<1> QED BY <1>2, <1>3, <1>4 DEF Streamed

\* The numbers are kept with the calls.
LEMMA NumbersKept ==
  ASSUME NEW r \in Requests, Streamed(r), outcome'[r] = outcome[r], calls'[r] = calls[r],
         Busy(r)' <=> Busy(r)
  PROVE  Numbered(r)'
  BY DEF Streamed, Numbered

\* The operation that r has begun is dropped.
LEMMA Drops ==
  ASSUME NEW r \in Requests, Streamed(r), SameItems(r), SamePlace, message' = message,
         outcome[r] \in [OpNums -> Results], NEW k \in OpNums, outcome[r][k] = "none",
         \A n \in OpNums : n > k => outcome[r][n] = "none",
         outcome'[r] = [outcome[r] EXCEPT ![k] = "dropped"], Numbered(r)',
         closed \subseteq closed'
  PROVE  Streamed(r)'
<1>1. /\ outcome'[r][k] = "dropped"
      /\ \A n \in OpNums : n # k => outcome'[r][n] = outcome[r][n]
  OBVIOUS
<1>2. \A n : (\E i \in DOMAIN builders' : n \in builders'[i].items[r])
               <=> (\E i \in DOMAIN builders : n \in builders[i].items[r])
  BY DEF SameItems
<1>3. PlacedOnce(r)'
  <2>1. ASSUME NEW i \in DOMAIN builders', NEW j \in DOMAIN builders', i < j,
               NEW m \in builders'[i].items[r], NEW n \in builders'[j].items[r]
        PROVE  m < n
    <3>1. i \in DOMAIN builders /\ j \in DOMAIN builders
      BY <2>1 DEF SameItems
    <3> QED BY <2>1, <3>1 DEF SameItems, Streamed, PlacedOnce
  <2>2. \A n \in OpNums : /\ outcome'[r][n] = "built" <=> outcome[r][n] = "built"
                          /\ outcome'[r][n] = "sending" <=> outcome[r][n] = "sending"
    BY <1>1
  <2> QED BY <1>2, <2>1, <2>2 DEF Streamed, PlacedOnce
<1>4. FailedIsClosed(r)'
  BY <1>1 DEF Streamed, FailedIsClosed, SamePlace
<1>5. NoGaps(r)'
  <2> SUFFICES ASSUME NEW m \in OpNums, NEW n \in OpNums, m < n
               PROVE  /\ outcome'[r][n] = "sent" => outcome'[r][m] \in {"sent", "dropped"}
                      /\ outcome'[r][n] = "sending" => outcome'[r][m] \in {"sent", "dropped",
                           "sending"}
                      /\ outcome'[r][n] = "built" => outcome'[r][m] \in {"sent", "dropped",
                           "sending", "built"}
    BY DEF NoGaps
  <2>1. CASE n = k \/ m = k
    BY <1>1, <2>1
  <2>2. CASE n # k /\ m # k
    <3>1. outcome'[r][n] = outcome[r][n] /\ outcome'[r][m] = outcome[r][m]
      BY <1>1, <2>2
    <3>2. NoGaps(r)
      BY Zenon DEF Streamed
    <3> QED BY <3>1, <3>2 DEF NoGaps
  <2> QED BY <2>1, <2>2
<1> QED BY <1>3, <1>4, <1>5 DEF Streamed

\* The last message of a queue is replaced.
LEMMA ReplaceLast ==
  ASSUME NEW S, NEW q \in Seq(S), q # <<>>, NEW v
  PROVE  /\ [q EXCEPT ![Len(q)] = v] \in Seq(S \union {v})
         /\ DOMAIN [q EXCEPT ![Len(q)] = v] = 1..Len(q)
         /\ [q EXCEPT ![Len(q)] = v][Len(q)] = v
         /\ \A i \in 1..(Len(q) - 1) : [q EXCEPT ![Len(q)] = v][i] = q[i]
         /\ Len(q) \in Nat \ {0}
<1>1. Len(q) \in Nat \ {0} /\ DOMAIN q = 1..Len(q) /\ q \in Seq(S \union {v})
  <2>1. \A i \in 1..Len(q) : q[i] \in S \union {v}
    OBVIOUS
  <2> QED BY <2>1
<1>2. PICK p : p = [q EXCEPT ![Len(q)] = v]
  OBVIOUS
<1>3. p \in Seq(S \union {v})
  BY <1>1, <1>2, ExceptSeq
<1>4. DOMAIN p = 1..Len(q) /\ p[Len(q)] = v
  BY <1>1, <1>2
<1>5. \A i \in 1..(Len(q) - 1) : p[i] = q[i]
  <2>1. \A l \in Nat : \A i \in 1..(l - 1) : i \in 1..l /\ i # l
    OBVIOUS
  <2>2. \A i \in 1..(Len(q) - 1) : i \in DOMAIN q /\ i # Len(q)
    BY <1>1, <2>1, Zenon
  <2> QED BY <1>2, <2>2
<1> QED BY <1>1, <1>2, <1>3, <1>4, <1>5, Zenon

\* A message that nothing was added to.
LEMMA NewIsBuilder ==
  /\ IsBuilder(NewBuilder) /\ NewBuilder.items = [c \in Callers |-> {}]
  /\ \A c \in Callers : NewBuilder.items[c] = {}
  BY Numbers DEF IsBuilder, NewBuilder

\* What BuildMessage makes of the queue: it has L messages, the last of them was
\* there or is new, and gets the operation.
BuiltQueue(c, L, last) ==
  /\ \E S : builders' \in Seq(S)
  /\ DOMAIN builders' = 1..L
  /\ \A i \in 1..(L - 1) : i \in DOMAIN builders /\ builders'[i] = builders[i]
  /\ \/ L \in DOMAIN builders /\ DOMAIN builders = 1..L /\ last = builders[L]
     \/ L \notin DOMAIN builders /\ DOMAIN builders = 1..(L - 1) /\ last = NewBuilder
  /\ builders'[L] = IF StreamOpen(c) THEN Added(last, c, caller[c].op) ELSE last

\* BuildMessage changes the last message or a new one.
LEMMA Builds ==
  ASSUME Shape, NEW c \in Callers, BuildMessage(c)
  PROVE  \E L \in Nat \ {0} : \E last : BuiltQueue(c, L, last)
<1>1. PICK S : builders \in Seq(S)
  BY DEF Shape
<1> DEFINE queue == IF ShouldBeginNewResponse(Size(caller[c].op))
                      THEN Append(builders, NewBuilder) ELSE builders
<1>2. PICK q : q = queue
  OBVIOUS
<1>3. PICK L : L = Len(q)
  OBVIOUS
<1>4. PICK last : last = q[L]
  OBVIOUS
<1>5. PICK v : v = IF StreamOpen(c) THEN Added(last, c, caller[c].op) ELSE last
  OBVIOUS
<1>6. builders' = [q EXCEPT ![L] = v]
  BY <1>2, <1>3, <1>4, <1>5 DEF BuildMessage
<1>7. /\ q \in Seq(S \union {NewBuilder}) /\ q # <<>>
      /\ \/ q = builders
         \/ q = Append(builders, NewBuilder)
  <2>1. CASE ShouldBeginNewResponse(Size(caller[c].op))
    BY <1>1, <1>2, <2>1
  <2>2. CASE ~ShouldBeginNewResponse(Size(caller[c].op))
    <3>1. builders # <<>> /\ q = builders
      BY <1>2, <2>2 DEF ShouldBeginNewResponse
    <3>2. builders \in Seq(S \union {NewBuilder})
      BY <1>1
    <3> QED BY <3>1, <3>2
  <2> QED BY <2>1, <2>2
<1>8. /\ L \in Nat \ {0} /\ DOMAIN builders' = 1..L /\ builders'[L] = v
      /\ \A i \in 1..(L - 1) : builders'[i] = q[i]
      /\ builders' \in Seq((S \union {NewBuilder}) \union {v})
  BY <1>3, <1>6, <1>7, ReplaceLast
<1>9. CASE q = builders
  <2>1. DOMAIN builders = 1..L
    BY <1>1, <1>3, <1>9
  <2> QED BY <1>4, <1>5, <1>8, <1>9, <2>1 DEF BuiltQueue
<1>10. CASE q = Append(builders, NewBuilder)
  <2>1. /\ DOMAIN builders = 1..(L - 1) /\ q[L] = NewBuilder
        /\ \A i \in 1..(L - 1) : q[i] = builders[i]
    <3>1. Len(builders) \in Nat /\ L = Len(builders) + 1
      BY <1>1, <1>3, <1>10
    <3>2. L - 1 = Len(builders)
      BY <3>1
    <3> QED BY <1>1, <1>10, <3>1, <3>2
  <2>2. L \notin DOMAIN builders
    BY <1>8, <2>1
  <2> QED BY <1>4, <1>5, <1>8, <2>1, <2>2 DEF BuiltQueue
<1> QED BY <1>7, <1>9, <1>10

-----------------------------------------------------------------------------
(* The actions of the callers *)

\* Adding an operation to a message.
LEMMA AddedIs ==
  ASSUME NEW b, IsBuilder(b), NEW c \in Callers, NEW op \in OperationType, calls[c] \in Nat,
         c \in Requests => calls[c] \in OpNums
  PROVE  /\ IsBuilder(Added(b, c, op))
         /\ \A d \in Callers \ {c} : Added(b, c, op).items[d] = b.items[d]
         /\ ~op.adds => Added(b, c, op).items = b.items
         /\ op.adds => Added(b, c, op).items[c] = b.items[c] \union {calls[c]}
<1> DEFINE a == Added(b, c, op)
<1>1. /\ a.items = IF op.adds THEN [b.items EXCEPT ![c] = @ \union {calls[c]}] ELSE b.items
      /\ a.streams = b.streams \union ({c} \cap Requests)
  BY DEF Added
<1>2. op.adds \in BOOLEAN
  BY DEF OperationType
<1> HIDE DEF a
<1>3. b.items \in [Callers -> SUBSET Nat]
  BY DEF IsBuilder
<1>4. /\ \A d \in Callers \ {c} : a.items[d] = b.items[d]
      /\ ~op.adds => a.items = b.items
      /\ op.adds => a.items[c] = b.items[c] \union {calls[c]}
      /\ a.items \in [Callers -> SUBSET Nat]
  BY <1>1, <1>2, <1>3
<1>5. a.streams \in SUBSET Requests /\ b.streams \subseteq a.streams
        /\ (c \in Requests => c \in a.streams)
  BY <1>1 DEF IsBuilder
<1>6. ASSUME NEW r \in Requests PROVE a.items[r] \subseteq OpNums
               /\ (a.items[r] # {} => r \in a.streams)
  <2>1. r \in Callers
    BY Numbers
  <2>2. CASE r = c
    BY <1>2, <1>4, <1>5, <2>2 DEF IsBuilder
  <2>3. CASE r # c
    BY <1>4, <1>5, <2>1, <2>3 DEF IsBuilder
  <2> QED BY <2>2, <2>3
<1>7. IsBuilder(a)
  BY <1>4, <1>5, <1>6 DEF IsBuilder
<1> QED BY <1>4, <1>7 DEF a

\* An operation joins the last message of its response.
LEMMA Adds ==
  ASSUME Shape, ClosedFirst, NEW r \in Requests, Streamed(r), NEW L \in Nat \ {0}, NEW last,
         BuiltQueue(r, L, last), IsBuilder(last), r \notin closed, Busy(r),
         caller[r].op.adds, builders'[L].items[r] = last.items[r] \union {calls[r]},
         UNCHANGED <<message, closed, calls, pc>>,
         outcome'[r] = [outcome[r] EXCEPT ![calls[r]] = "built"], ~Busy(r)'
  PROVE  Streamed(r)'
<1>1. PICK k : k = calls[r]
  OBVIOUS
<1>2. k \in OpNums /\ k \in Nat /\ outcome[r] \in [OpNums -> Results] /\ OpNums \subseteq Nat
  <2>1. calls[r] \in 0..MaxOps[r] /\ calls[r] > 0 /\ r \in Callers
    BY Numbers DEF Shape, Streamed, Numbered
  <2>2. k \in 1..MaxOps[r]
    BY <1>1, <2>1, Numbers
  <2> QED BY <1>1, <2>1, <2>2, Numbers DEF Shape
<1>3. outcome[r][k] = "none" /\ \A n \in OpNums : n > k => outcome[r][n] = "none"
  BY <1>1, <1>2 DEF Streamed, Numbered
<1>4. /\ outcome'[r][k] = "built"
      /\ \A n \in OpNums : n # k => outcome'[r][n] = outcome[r][n]
  BY <1>1, <1>2
<1>5. /\ DOMAIN builders' = 1..L /\ builders'[L].items[r] = last.items[r] \union {k}
      /\ \A i \in 1..(L - 1) : i \in DOMAIN builders /\ builders'[i] = builders[i]
      /\ \A i \in 1..L : i # L => i \in 1..(L - 1)
      /\ L \in 1..L
  BY <1>1 DEF BuiltQueue
<1>6. \/ L \in DOMAIN builders /\ DOMAIN builders = 1..L /\ last = builders[L]
      \/ DOMAIN builders = 1..(L - 1) /\ last.items[r] = {}
  BY NewIsBuilder, Numbers DEF BuiltQueue
<1>7. \A n : n # k => ((\E i \in DOMAIN builders' : n \in builders'[i].items[r])
                         <=> (\E i \in DOMAIN builders : n \in builders[i].items[r]))
  BY <1>5, <1>6
<1>8. PlacedOnce(r)'
  <2>1. ASSUME NEW n \in OpNums
        PROVE  /\ outcome'[r][n] = "built" <=> \E i \in DOMAIN builders' :
                 n \in builders'[i].items[r]
               /\ outcome'[r][n] = "sending" <=> n \in message'.items[r]
    <3>1. CASE n = k
      BY <1>3, <1>4, <1>5, <3>1 DEF Streamed, PlacedOnce
    <3>2. CASE n # k
      <4>1. /\ outcome'[r][n] = outcome[r][n] /\ message' = message
            /\ (\E i \in DOMAIN builders' : n \in builders'[i].items[r])
                 <=> (\E i \in DOMAIN builders : n \in builders[i].items[r])
        BY <1>4, <1>7, <3>2
      <4>2. PlacedOnce(r)
        BY Zenon DEF Streamed
      <4> QED BY <4>1, <4>2 DEF PlacedOnce
    <3> QED BY <3>1, <3>2
  <2>2. ASSUME NEW i \in DOMAIN builders', NEW j \in DOMAIN builders', i < j,
               NEW m \in builders'[i].items[r], NEW n \in builders'[j].items[r]
        PROVE  m < n
    <3>1. i # L
      BY <1>5, <2>2
    <3>2. i \in DOMAIN builders /\ m \in builders[i].items[r]
      BY <1>5, <2>2, <3>1
    <3>3. CASE j # L
      BY <1>5, <2>2, <3>2, <3>3 DEF Streamed, PlacedOnce
    <3>4. CASE j = L /\ n \in last.items[r]
      BY <1>6, <2>2, <3>2, <3>4 DEF Streamed, PlacedOnce
    <3>5. CASE j = L /\ n = k
      <4>1. m \in OpNums
        BY <3>2 DEF Shape, IsBuilder
      <4>2. outcome[r][m] = "built"
        BY <3>2, <4>1 DEF Streamed, PlacedOnce
      <4>3. ~(m > k) /\ m # k
        BY <1>3, <4>1, <4>2
      <4>4. \A a, b \in Nat : ~(a > b) /\ a # b => a < b
        OBVIOUS
      <4> QED BY <1>2, <3>5, <4>1, <4>3, <4>4
    <3> QED BY <1>5, <2>2, <3>3, <3>4, <3>5
  <2> QED BY <2>1, <2>2 DEF PlacedOnce
<1>9. Numbered(r)'
  BY <1>1, <1>2, <1>4 DEF Streamed, Numbered
<1>10. FailedIsClosed(r)'
  <2>1. pc \in {"release", "fail"} => r \notin message.streams
    BY DEF ClosedFirst
  <2>2. \A n \in OpNums : outcome'[r][n] \in {"error", "scrubbed"}
             => outcome[r][n] \in {"error", "scrubbed"}
    BY <1>4
  <2> QED BY <2>1, <2>2 DEF Streamed, FailedIsClosed
<1>11. NoGaps(r)'
  <2> SUFFICES ASSUME NEW m \in OpNums, NEW n \in OpNums, m < n
               PROVE  /\ outcome'[r][n] = "sent" => outcome'[r][m] \in {"sent", "dropped"}
                      /\ outcome'[r][n] = "sending" => outcome'[r][m] \in {"sent", "dropped",
                           "sending"}
                      /\ outcome'[r][n] = "built" => outcome'[r][m] \in {"sent", "dropped",
                           "sending", "built"}
    BY DEF NoGaps
  <2>1. CASE n = k
    <3>1. m # k /\ ~(m > k)
      BY <1>2, <2>1
    <3>2. outcome[r][m] # "none"
      BY <1>1, <3>1 DEF Streamed, Numbered
    <3>3. outcome[r][m] \notin {"error", "scrubbed"}
      BY DEF Streamed, FailedIsClosed
    <3>4. outcome[r][m] \in Results
      BY <1>2
    <3> QED BY <1>4, <2>1, <3>1, <3>2, <3>3, <3>4 DEF Results
  <2>2. CASE m = k
    <3>1. outcome[r][n] = "none" /\ n # k
      BY <1>2, <1>3, <2>2
    <3> QED BY <1>4, <3>1
  <2>3. CASE n # k /\ m # k
    BY <1>4, <2>3 DEF Streamed, NoGaps
  <2> QED BY <2>1, <2>2, <2>3
<1> QED BY <1>8, <1>9, <1>10, <1>11 DEF Streamed

\* The last message got nothing of r.
LEMMA SameLast ==
  ASSUME NEW c \in Callers, NEW r \in Requests, NEW L \in Nat \ {0}, NEW last,
         BuiltQueue(c, L, last), builders'[L].items[r] = last.items[r]
  PROVE  SameItems(r)
<1>1. /\ DOMAIN builders' = 1..L
      /\ \A i \in 1..(L - 1) : i \in DOMAIN builders /\ builders'[i] = builders[i]
      /\ \A i \in 1..L : i # L => i \in 1..(L - 1)
      /\ 1..(L - 1) \subseteq 1..L
  BY DEF BuiltQueue
<1>2. \/ DOMAIN builders = 1..L /\ last = builders[L]
      \/ DOMAIN builders = 1..(L - 1) /\ last.items[r] = {}
  BY NewIsBuilder, Numbers DEF BuiltQueue
<1> QED BY <1>1, <1>2 DEF SameItems

\* BuildMessage decides the operation of its caller, and adds it to the queue unless the
\* stream was closed in the meantime.
LEMMA BuildMessageKeeps ==
  ASSUME IInv, NEW c \in Callers, BuildMessage(c)
  PROVE  IInv'
<1>1. PICK L \in Nat \ {0} : \E last : BuiltQueue(c, L, last)
  BY Builds DEF IInv
<1>2. PICK last : BuiltQueue(c, L, last)
  BY <1>1
<1>3. IsBuilder(last)
  BY <1>2, NewIsBuilder DEF BuiltQueue, IInv, Shape
<1>4. PICK op : op = caller[c].op
  OBVIOUS
<1>5. /\ op \in OperationType /\ calls[c] \in Nat /\ Busy(c)
      /\ UNCHANGED <<message, pc, closed, calls>>
  <2>1. caller[c] \in CallerType
    BY DEF IInv, Shape
  <2>2. op \in OperationType
    BY <1>4, <2>1 DEF CallerType
  <2> QED BY <2>2 DEF IInv, Shape, BuildMessage, Busy, queueVars
<1>6. c \in Requests => calls[c] \in OpNums
  <2> SUFFICES ASSUME c \in Requests PROVE calls[c] \in OpNums
    OBVIOUS
  <2>1. calls[c] \in 0..MaxOps[c] /\ calls[c] > 0
    BY <1>5 DEF IInv, Shape, Streamed, Numbered
  <2>2. calls[c] \in 1..MaxOps[c]
    BY <2>1, Numbers
  <2> QED BY <2>2, Numbers
<1>7. PICK result : /\ result = IF StreamOpen(c) /\ op.adds THEN "built" ELSE "dropped"
                    /\ outcome' = [outcome EXCEPT ![c][calls[c]] = result]
  BY <1>4 DEF BuildMessage, Resolve
<1>8. /\ caller' \in [Callers -> CallerType]
      /\ caller'[c].at \in {"idle", "signal"}
      /\ \A d \in Callers \ {c} : caller'[d] = caller[d]
  <2>1. PICK a \in {"idle", "signal"} : Goto(c, a, NoOp)
    BY DEF BuildMessage
  <2>2. a \in {"idle", "waiting", "build", "signal"} /\ caller \in [Callers -> CallerType]
    BY <2>1 DEF IInv, Shape
  <2>3. /\ caller' \in [Callers -> CallerType] /\ caller'[c].at = a
        /\ \A d \in Callers \ {c} : caller'[d] = caller[d]
    BY <2>1, <2>2, Moves, OperationTypes
  <2> QED BY <2>1, <2>3
<1>9. ~Busy(c)' /\ \A d \in Callers \ {c} : Busy(d)' <=> Busy(d)
  BY <1>8 DEF Busy
<1>10. /\ IsBuilder(builders'[L])
       /\ \A d \in Callers \ {c} : builders'[L].items[d] = last.items[d]
       /\ result = "dropped" => builders'[L].items = last.items
       /\ result = "built" => /\ builders'[L].items[c] = last.items[c] \union {calls[c]}
                              /\ op.adds /\ c \notin closed
       /\ result \in {"built", "dropped"}
  <2>1. CASE StreamOpen(c)
    <3>1. builders'[L] = Added(last, c, op)
      BY <1>2, <1>4, <2>1 DEF BuiltQueue
    <3>2. /\ IsBuilder(Added(last, c, op))
          /\ \A d \in Callers \ {c} : Added(last, c, op).items[d] = last.items[d]
          /\ ~op.adds => Added(last, c, op).items = last.items
          /\ op.adds => Added(last, c, op).items[c] = last.items[c] \union {calls[c]}
      BY <1>3, <1>5, <1>6, AddedIs
    <3>3. c \notin closed
      BY <2>1 DEF StreamOpen
    <3>4. /\ op.adds => result = "built"
          /\ ~op.adds => result = "dropped"
      BY <1>7, <2>1
    <3> QED BY <3>1, <3>2, <3>3, <3>4
  <2>2. CASE ~StreamOpen(c)
    BY <1>2, <1>3, <1>7, <2>2 DEF BuiltQueue
  <2> QED BY <2>1, <2>2
<1>11. Shape'
  <2>1. (\E S : builders \in Seq(S))' /\ \A i \in DOMAIN builders' : IsBuilder(builders'[i])
    <3>1. ASSUME NEW i \in DOMAIN builders' PROVE IsBuilder(builders'[i])
      <4>1. i = L \/ i \in 1..(L - 1)
        BY <1>2 DEF BuiltQueue
      <4> QED BY <1>2, <1>10, <4>1 DEF BuiltQueue, IInv, Shape
    <3> QED BY <1>2, <3>1 DEF BuiltQueue
  <2>2. outcome' \in [Callers -> [OpNums -> Results]]
    <3>1. result \in Results
      BY <1>10 DEF Results
    <3>2. [outcome[c] EXCEPT ![calls[c]] = result] \in [OpNums -> Results]
      BY <3>1 DEF IInv, Shape
    <3> QED BY <1>7, <3>2 DEF IInv, Shape
  <2>3. UNCHANGED <<message, pc, closed, calls>>
    BY <1>5
  <2> QED BY <1>8, <2>1, <2>2, <2>3 DEF IInv, Shape, IsBuilder
<1>12. ClosedFirst'
  BY <1>5 DEF IInv, ClosedFirst
<1>13. ASSUME NEW r \in Requests PROVE Streamed(r)'
  <2>1. /\ Streamed(r) /\ r \in Callers /\ SamePlace /\ message' = message
             /\ closed \subseteq closed'
        /\ outcome[r] \in [OpNums -> Results]
    BY <1>5, Numbers DEF IInv, Shape, SamePlace
  <2>2. CASE r # c
    <3>1. SameItems(r) /\ outcome'[r] = outcome[r] /\ (Busy(r)' <=> Busy(r)) /\ calls'[r] = calls[r]
      <4>1. SameItems(r)
        BY <1>2, <1>10, <2>1, <2>2, SameLast
      <4>2. outcome \in [Callers -> [OpNums -> Results]]
        BY DEF IInv, Shape
      <4> QED BY <1>5, <1>7, <1>9, <2>1, <2>2, <4>1, <4>2
    <3>2. Numbered(r)'
      BY <2>1, <3>1, NumbersKept
    <3> QED BY <2>1, <3>1, <3>2, Kept
  <2>3. CASE r = c
    <3>1. PICK k : k = calls[r]
      OBVIOUS
    <3>2. /\ k \in OpNums /\ outcome[r][k] = "none" /\ Busy(r) /\ calls'[r] = calls[r]
               /\ calls[r] \in Nat
          /\ \A n \in OpNums : n > k => outcome[r][n] = "none"
      BY <1>5, <1>6, <2>1, <2>3, <3>1 DEF Streamed, Numbered
    <3>3. outcome'[r] = [outcome[r] EXCEPT ![k] = result]
      <4>1. outcome \in [Callers -> [OpNums -> Results]]
        BY DEF IInv, Shape
      <4> QED BY <1>7, <2>1, <2>3, <3>1, <4>1
    <3>4. CASE result = "dropped"
      <4>1. SameItems(r)
        BY <1>2, <1>10, <2>3, <3>4, SameLast
      <4>2. /\ outcome'[r][k] = "dropped"
            /\ \A n \in OpNums : n # k => outcome'[r][n] = outcome[r][n]
        BY <2>1, <3>2, <3>3, <3>4
      <4>3. Numbered(r)'
        <5>1. ~Busy(r)' /\ OpNums \subseteq Nat
          BY <1>9, <2>3, Numbers
        <5>2. ASSUME NEW n \in OpNums PROVE outcome'[r][n] = "none" <=> n > k
          <6>1. CASE n = k
            BY <3>1, <3>2, <4>2, <6>1
          <6>2. CASE n # k
            BY <2>1, <3>1, <4>2, <6>2 DEF Streamed, Numbered
          <6> QED BY <6>1, <6>2
        <5> QED BY <3>1, <3>2, <5>1, <5>2 DEF Numbered
      <4> QED BY <2>1, <3>2, <3>3, <3>4, <4>1, <4>3, Drops
    <3>5. CASE result = "built"
      <4>1. Shape /\ ClosedFirst
        BY DEF IInv
      <4>2. outcome'[r] = [outcome[r] EXCEPT ![calls[r]] = "built"] /\ ~Busy(r)'
        BY <1>9, <2>3, <3>1, <3>3, <3>5
      <4> QED BY <1>2, <1>3, <1>4, <1>5, <1>10, <2>1, <2>3, <3>2, <3>5, <4>1, <4>2, Adds
    <3> QED BY <1>10, <3>4, <3>5
  <2> QED BY <2>2, <2>3
<1> QED BY <1>11, <1>12, <1>13 DEF IInv

\* A dropped operation is numbered like one that was built.
LEMMA DropsNumbered ==
  ASSUME NEW r \in Requests, NEW k \in OpNums, calls'[r] = k, ~Busy(r)',
         outcome[r] \in [OpNums -> Results],
         \A n \in OpNums : outcome[r][n] = "none" <=> n >= k,
         outcome'[r] = [outcome[r] EXCEPT ![k] = "dropped"]
  PROVE  Numbered(r)'
<1>1. OpNums \subseteq Nat
  BY Numbers
<1>2. \A n \in OpNums : outcome'[r][n] = IF n = k THEN "dropped" ELSE outcome[r][n]
  OBVIOUS
<1>3. \A n \in OpNums : n >= k <=> n > k \/ n = k
  BY <1>1
<1>4. \A n \in OpNums : outcome'[r][n] = "none" <=> n > k
  BY <1>1, <1>2, <1>3
<1> QED BY <1>4 DEF Numbered

\* A closed stream drops the operation; an open one begins it.
LEMMA ExecuteKeeps ==
  ASSUME IInv, NEW r \in Requests, NEW op \in Operations[r], Execute(r, op)
  PROVE  IInv'
<1>1. /\ UNCHANGED <<message, pc, closed, builders>>
      /\ r \in Callers /\ caller[r].at = "idle" /\ calls[r] \in Nat /\ MaxOps[r] \in Nat
      /\ calls[r] < MaxOps[r] /\ calls' = [calls EXCEPT ![r] = calls[r] + 1]
      /\ op \in OperationType
  BY Numbers, OperationTypes DEF Execute, queueVars, IInv, Shape
<1>2. PICK k : k = calls[r] + 1
  OBVIOUS
<1>3. /\ calls'[r] = k /\ k \in Nat /\ k > 0 /\ k \in 1..MaxOps[r] /\ k \in OpNums
      /\ \A d \in Callers \ {r} : calls'[d] = calls[d]
      /\ calls' \in [Callers -> Nat]
      /\ \A d \in Requests : calls'[d] \in 0..MaxOps[d]
  <2>1. k \in Nat /\ k > 0 /\ k \in 1..MaxOps[r] /\ k \in 0..MaxOps[r]
    BY <1>1, <1>2
  <2>2. calls \in [Callers -> Nat] /\ \A d \in Requests : calls[d] \in 0..MaxOps[d]
    BY DEF IInv, Shape
  <2> QED BY <1>1, <1>2, <2>1, <2>2, Numbers
<1>4. /\ outcome \in [Callers -> [OpNums -> Results]] /\ caller \in [Callers -> CallerType]
      /\ outcome[r] \in [OpNums -> Results] /\ ~Busy(r) /\ Streamed(r)
  BY <1>1 DEF IInv, Shape, Busy
<1>5. \A n \in OpNums : outcome[r][n] = "none" <=> n >= k
  <2>1. \A n \in OpNums : outcome[r][n] = "none" <=> n > calls[r]
    BY <1>4 DEF Streamed, Numbered
  <2>2. \A n \in Nat : n > calls[r] <=> n >= k
    BY <1>1, <1>2
  <2> QED BY <2>1, <2>2, Numbers
<1>6. SamePlace /\ \A d \in Requests : SameItems(d)
  BY <1>1 DEF SamePlace, SameItems
<1>7. /\ outcome' \in [Callers -> [OpNums -> Results]] /\ caller' \in [Callers -> CallerType]
      /\ \A d \in Callers \ {r} : outcome'[d] = outcome[d] /\ caller'[d] = caller[d]
      /\ \/ caller'[r] = caller[r] /\ outcome'[r] = [outcome[r] EXCEPT ![k] = "dropped"]
         \/ caller'[r].at \in {"build", "waiting"} /\ outcome'[r] = outcome[r]
  <2>1. \/ caller' = caller /\ outcome' = [outcome EXCEPT ![r][k] = "dropped"]
        \/ /\ Goto(r, "build", op) \/ Goto(r, "waiting", op)
           /\ outcome' = outcome
    BY <1>3 DEF Execute
  <2>2. CASE caller' = caller /\ outcome' = [outcome EXCEPT ![r][k] = "dropped"]
    <3>1. "dropped" \in Results
      BY DEF Results
    <3>2. [outcome[r] EXCEPT ![k] = "dropped"] \in [OpNums -> Results]
      BY <1>4, <3>1
    <3> QED BY <1>1, <1>4, <2>2, <3>2
  <2>3. CASE Goto(r, "build", op) /\ outcome' = outcome
    BY <1>1, <1>4, <2>3, Moves
  <2>4. CASE Goto(r, "waiting", op) /\ outcome' = outcome
    BY <1>1, <1>4, <2>4, Moves
  <2> QED BY <2>1, <2>2, <2>3, <2>4
<1>8. Shape'
  BY <1>1, <1>3, <1>7 DEF IInv, Shape, IsBuilder
<1>9. ClosedFirst'
  BY <1>1 DEF IInv, ClosedFirst
<1>10. ASSUME NEW d \in Requests PROVE Streamed(d)'
  <2>1. Streamed(d) /\ SameItems(d) /\ SamePlace /\ message' = message
          /\ closed \subseteq closed' /\ d \in Callers
    BY <1>1, <1>6, Numbers DEF IInv
  <2>2. CASE d # r
    <3>1. outcome'[d] = outcome[d] /\ calls'[d] = calls[d] /\ (Busy(d)' <=> Busy(d))
      BY <1>3, <1>7, <2>1, <2>2 DEF Busy
    <3>2. Numbered(d)'
      BY <2>1, <3>1, NumbersKept
    <3> QED BY <2>1, <3>1, <3>2, Kept
  <2>3. CASE d = r
    <3>1. CASE caller'[r] = caller[r] /\ outcome'[r] = [outcome[r] EXCEPT ![k] = "dropped"]
      <4>1. ~Busy(r)'
        BY <1>1, <3>1 DEF Busy
      <4>2. Numbered(r)'
        BY <1>3, <1>4, <1>5, <3>1, <4>1, DropsNumbered
      <4>3. outcome[r][k] = "none" /\ \A n \in OpNums : n > k => outcome[r][n] = "none"
        BY <1>3, <1>5, Numbers
      <4> QED BY <1>3, <1>4, <2>1, <2>3, <3>1, <4>2, <4>3, Drops
    <3>2. CASE caller'[r].at \in {"build", "waiting"} /\ outcome'[r] = outcome[r]
      <4>1. Busy(r)'
        BY <3>2 DEF Busy
      <4>2. \A n \in Nat : n >= k <=> n > k \/ n = k
        BY <1>3
      <4>3. Numbered(r)'
        BY <1>3, <1>5, <3>2, <4>1, <4>2, Numbers DEF Numbered
      <4> QED BY <2>1, <2>3, <3>2, <4>3, Kept
    <3> QED BY <1>7, <2>3, <3>1, <3>2
  <2> QED BY <2>2, <2>3
<1> QED BY <1>8, <1>9, <1>10 DEF IInv

\* A caller that waits for memory, or has it, gives its operation up.
LEMMA AbandonWaitKeeps ==
  ASSUME IInv, NEW r \in Requests, AbandonWait(r)
  PROVE  IInv'
<1>1. /\ UNCHANGED <<message, pc, closed, builders, calls>>
      /\ r \in Callers /\ Busy(r) /\ calls[r] \in Nat /\ MaxOps[r] \in Nat
  BY Numbers DEF AbandonWait, queueVars, IInv, Shape, Busy
<1>2. PICK k : k = calls[r]
  OBVIOUS
<1>3. k \in OpNums /\ k \in Nat /\ calls'[r] = k
  <2>1. k \in 0..MaxOps[r] /\ k > 0
    BY <1>1, <1>2 DEF IInv, Shape, Streamed, Numbered
  <2>2. k \in 1..MaxOps[r]
    BY <1>1, <2>1
  <2> QED BY <1>1, <1>2, <2>2, Numbers
<1>4. /\ outcome \in [Callers -> [OpNums -> Results]] /\ caller \in [Callers -> CallerType]
      /\ outcome[r] \in [OpNums -> Results] /\ Streamed(r)
  BY <1>1 DEF IInv, Shape
<1>5. \A n \in OpNums : outcome[r][n] = "none" <=> n >= k
  <2>1. \A n \in OpNums : outcome[r][n] = "none" <=> n > k \/ n = k
    BY <1>1, <1>2, <1>4 DEF Streamed, Numbered
  <2>2. \A n \in Nat : n >= k <=> n > k \/ n = k
    BY <1>3
  <2> QED BY <2>1, <2>2, Numbers
<1>6. SamePlace /\ \A d \in Requests : SameItems(d)
  BY <1>1 DEF SamePlace, SameItems
<1>7. /\ outcome' \in [Callers -> [OpNums -> Results]] /\ caller' \in [Callers -> CallerType]
      /\ \A d \in Callers \ {r} : outcome'[d] = outcome[d] /\ caller'[d] = caller[d]
      /\ caller'[r].at = "idle" /\ outcome'[r] = [outcome[r] EXCEPT ![k] = "dropped"]
  <2>1. Goto(r, "idle", NoOp) /\ outcome' = [outcome EXCEPT ![r][k] = "dropped"]
    BY <1>2 DEF AbandonWait, Resolve
  <2>2. "dropped" \in Results
    BY DEF Results
  <2>3. [outcome[r] EXCEPT ![k] = "dropped"] \in [OpNums -> Results]
    BY <1>4, <2>2
  <2>4. /\ caller' \in [Callers -> CallerType] /\ caller'[r].at = "idle"
        /\ \A d \in Callers \ {r} : caller'[d] = caller[d]
    BY <1>1, <1>4, <2>1, Moves, OperationTypes
  <2> QED BY <1>1, <1>4, <2>1, <2>3, <2>4
<1>8. Shape'
  BY <1>1, <1>7 DEF IInv, Shape, IsBuilder
<1>9. ClosedFirst'
  BY <1>1 DEF IInv, ClosedFirst
<1>10. ASSUME NEW d \in Requests PROVE Streamed(d)'
  <2>1. Streamed(d) /\ SameItems(d) /\ SamePlace /\ message' = message
          /\ closed \subseteq closed' /\ d \in Callers
    BY <1>1, <1>6, Numbers DEF IInv
  <2>2. CASE d # r
    <3>1. outcome'[d] = outcome[d] /\ calls'[d] = calls[d] /\ (Busy(d)' <=> Busy(d))
      BY <1>1, <1>7, <2>1, <2>2 DEF Busy
    <3>2. Numbered(d)'
      BY <2>1, <3>1, NumbersKept
    <3> QED BY <2>1, <3>1, <3>2, Kept
  <2>3. CASE d = r
    <3>1. ~Busy(r)'
      BY <1>7 DEF Busy
    <3>2. Numbered(r)'
      BY <1>3, <1>4, <1>5, <1>7, <3>1, DropsNumbered
    <3>3. outcome[r][k] = "none" /\ \A n \in OpNums : n > k => outcome[r][n] = "none"
      BY <1>3, <1>5, Numbers
    <3> QED BY <1>3, <1>4, <1>7, <2>1, <2>3, <3>2, <3>3, Drops
  <2> QED BY <2>2, <2>3
<1> QED BY <1>8, <1>9, <1>10 DEF IInv

\* A step that decides no operation and leaves the messages alone.
LEMMA Quiet ==
  ASSUME IInv, UNCHANGED <<message, builders, outcome>>, SamePlace, pc' \in Places,
         caller' \in [Callers -> CallerType],
         \A r \in Requests : calls'[r] = calls[r] /\ (Busy(r)' <=> Busy(r)),
         calls' \in [Callers -> Nat],
         closed \subseteq closed', closed' \in SUBSET Requests, ClosedFirst'
  PROVE  IInv'
<1>1. Shape'
  BY DEF IInv, Shape, IsBuilder
<1>2. ASSUME NEW r \in Requests PROVE Streamed(r)'
  <2>1. Streamed(r) /\ SameItems(r) /\ outcome'[r] = outcome[r]
    BY DEF IInv, SameItems
  <2>2. Numbered(r)'
    BY <2>1, NumbersKept
  <2> QED BY <2>1, <2>2, Kept
<1> QED BY <1>1, <1>2 DEF IInv

\* The steps of the callers that decide no operation.
LEMMA CallersKeep ==
  ASSUME IInv, SendRequest \/ \E c \in Callers : SignalWork(c)
  PROVE  IInv'
<1>1. CASE SendRequest
  <2>1. /\ UNCHANGED <<message, builders, outcome, closed, pc>>
        /\ calls' = [calls EXCEPT ![Requestor] = calls[Requestor] + 1]
        /\ Goto(Requestor, "build", [NoOp EXCEPT !.adds = TRUE])
    BY <1>1 DEF SendRequest, queueVars
  <2>2. caller \in [Callers -> CallerType] /\ calls \in [Callers -> Nat]
    BY DEF IInv, Shape
  <2>3. /\ caller' \in [Callers -> CallerType]
        /\ \A d \in Callers \ {Requestor} : caller'[d] = caller[d]
    <3>1. PICK o \in OperationType : o = [NoOp EXCEPT !.adds = TRUE]
      BY OperationTypes
    <3>2. Goto(Requestor, "build", o) /\ Requestor \in Callers
      BY <2>1, <3>1, Numbers
    <3> QED BY <2>2, <3>1, <3>2, Moves
  <2>4. calls' \in [Callers -> Nat] /\ \A r \in Requests : calls'[r] = calls[r]
          /\ (Busy(r)' <=> Busy(r))
    BY <2>1, <2>2, <2>3, Numbers DEF Busy
  <2>5. pc' \in Places /\ closed' \in SUBSET Requests /\ SamePlace /\ ClosedFirst'
    BY <2>1 DEF IInv, Shape, SamePlace, ClosedFirst
  <2> QED BY <2>1, <2>3, <2>4, <2>5, Quiet
<1>2. ASSUME NEW c \in Callers, SignalWork(c) PROVE IInv'
  <2>1. /\ UNCHANGED <<message, builders, outcome, closed, pc, calls>>
        /\ caller[c].at = "signal" /\ Goto(c, "idle", NoOp)
    BY <1>2 DEF SignalWork, queueVars
  <2>2. caller \in [Callers -> CallerType] /\ calls \in [Callers -> Nat]
    BY DEF IInv, Shape
  <2>3. /\ caller' \in [Callers -> CallerType] /\ caller'[c].at = "idle"
        /\ \A d \in Callers \ {c} : caller'[d] = caller[d]
    BY <2>1, <2>2, Moves, OperationTypes
  <2>4. \A r \in Requests : calls'[r] = calls[r] /\ (Busy(r)' <=> Busy(r))
    BY <2>1, <2>3, Numbers DEF Busy
  <2>5. pc' \in Places /\ closed' \in SUBSET Requests /\ SamePlace /\ ClosedFirst'
    BY <2>1 DEF IInv, Shape, SamePlace, ClosedFirst
  <2> QED BY <2>1, <2>2, <2>3, <2>4, <2>5, Quiet
<1> QED BY <1>1, <1>2

-----------------------------------------------------------------------------
(* The steps of runQueue *)

\* The steps that move runQueue, wake callers or close streams.
LEMMA QuietSteps ==
  ASSUME IInv,
         \/ TakeWork \/ TakeDoneAndDrain \/ TakeDoneAndStop \/ TakeContextDone
         \/ InitializeSender \/ SendMsgFails \/ Recover \/ CloseStreams \/ ReleaseScrubbed
         \/ Shutdown \/ CancelContext
  PROVE  IInv'
<1>1. /\ caller \in [Callers -> CallerType] /\ calls \in [Callers -> Nat]
      /\ pc \in Places /\ closed \in SUBSET Requests /\ ClosedFirst
      /\ message.streams \in SUBSET Requests
  BY DEF IInv, Shape, IsBuilder
<1>2. Requests \subseteq Callers
  BY Numbers
<1>3. CASE TakeWork
  <2>1. UNCHANGED <<message, builders, outcome, caller, calls>>
    BY <1>3 DEF TakeWork, callerVars, queueVars
  <2>2. SamePlace /\ pc' \in Places /\ ClosedFirst' /\ closed \subseteq closed'
          /\ closed' \in SUBSET Requests
    BY <1>1, <1>3, <2>1 DEF TakeWork, callerVars, queueVars, SamePlace, ClosedFirst, Places
  <2>3. caller' \in [Callers -> CallerType] /\ calls' \in [Callers -> Nat]
    BY <1>1, <2>1
  <2>4. \A r \in Requests : calls'[r] = calls[r] /\ (Busy(r)' <=> Busy(r))
    BY <2>1 DEF Busy
  <2> QED BY <2>1, <2>2, <2>3, <2>4, Quiet
<1>4. CASE TakeDoneAndDrain
  <2>1. UNCHANGED <<message, builders, outcome, caller, calls>>
    BY <1>4 DEF TakeDoneAndDrain, callerVars, queueVars
  <2>2. SamePlace /\ pc' \in Places /\ ClosedFirst' /\ closed \subseteq closed'
          /\ closed' \in SUBSET Requests
    BY <1>1, <1>4, <2>1 DEF TakeDoneAndDrain, callerVars, queueVars, SamePlace, ClosedFirst, Places
  <2>3. caller' \in [Callers -> CallerType] /\ calls' \in [Callers -> Nat]
    BY <1>1, <2>1
  <2>4. \A r \in Requests : calls'[r] = calls[r] /\ (Busy(r)' <=> Busy(r))
    BY <2>1 DEF Busy
  <2> QED BY <2>1, <2>2, <2>3, <2>4, Quiet
<1>5. CASE InitializeSender
  <2>1. UNCHANGED <<message, builders, outcome, caller, calls>>
    BY <1>5 DEF InitializeSender, callerVars, queueVars
  <2>2. SamePlace /\ pc' \in Places /\ ClosedFirst' /\ closed \subseteq closed'
          /\ closed' \in SUBSET Requests
    BY <1>1, <1>5, <2>1 DEF InitializeSender, callerVars, queueVars, SamePlace, ClosedFirst, Places
  <2>3. caller' \in [Callers -> CallerType] /\ calls' \in [Callers -> Nat]
    BY <1>1, <2>1
  <2>4. \A r \in Requests : calls'[r] = calls[r] /\ (Busy(r)' <=> Busy(r))
    BY <2>1 DEF Busy
  <2> QED BY <2>1, <2>2, <2>3, <2>4, Quiet
<1>6. CASE SendMsgFails
  <2>1. UNCHANGED <<message, builders, outcome, caller, calls>>
    BY <1>6 DEF SendMsgFails, callerVars, queueVars
  <2>2. SamePlace /\ pc' \in Places /\ ClosedFirst' /\ closed \subseteq closed'
          /\ closed' \in SUBSET Requests
    BY <1>1, <1>6, <2>1 DEF SendMsgFails, callerVars, queueVars, SamePlace, ClosedFirst, Places
  <2>3. caller' \in [Callers -> CallerType] /\ calls' \in [Callers -> Nat]
    BY <1>1, <2>1
  <2>4. \A r \in Requests : calls'[r] = calls[r] /\ (Busy(r)' <=> Busy(r))
    BY <2>1 DEF Busy
  <2> QED BY <2>1, <2>2, <2>3, <2>4, Quiet
<1>7. CASE Recover
  <2>1. UNCHANGED <<message, builders, outcome, caller, calls>>
    BY <1>7 DEF Recover, callerVars, queueVars
  <2>2. SamePlace /\ pc' \in Places /\ ClosedFirst' /\ closed \subseteq closed'
          /\ closed' \in SUBSET Requests
    BY <1>1, <1>7, <2>1 DEF Recover, callerVars, queueVars, SamePlace, ClosedFirst, Places
  <2>3. caller' \in [Callers -> CallerType] /\ calls' \in [Callers -> Nat]
    BY <1>1, <2>1
  <2>4. \A r \in Requests : calls'[r] = calls[r] /\ (Busy(r)' <=> Busy(r))
    BY <2>1 DEF Busy
  <2> QED BY <2>1, <2>2, <2>3, <2>4, Quiet
<1>8. CASE CloseStreams
  <2>1. UNCHANGED <<message, builders, outcome, caller, calls>>
    BY <1>8 DEF CloseStreams, callerVars, queueVars
  <2>2. SamePlace /\ pc' \in Places /\ ClosedFirst' /\ closed \subseteq closed'
          /\ closed' \in SUBSET Requests
    BY <1>1, <1>8, <2>1 DEF CloseStreams, callerVars, queueVars, SamePlace, ClosedFirst, Places
  <2>3. caller' \in [Callers -> CallerType] /\ calls' \in [Callers -> Nat]
    BY <1>1, <2>1
  <2>4. \A r \in Requests : calls'[r] = calls[r] /\ (Busy(r)' <=> Busy(r))
    BY <2>1 DEF Busy
  <2> QED BY <2>1, <2>2, <2>3, <2>4, Quiet
<1>9. CASE Shutdown
  <2>1. UNCHANGED <<message, builders, outcome, caller, calls>>
    BY <1>9 DEF Shutdown, callerVars, queueVars
  <2>2. SamePlace /\ pc' \in Places /\ ClosedFirst' /\ closed \subseteq closed'
          /\ closed' \in SUBSET Requests
    BY <1>1, <1>9, <2>1 DEF Shutdown, callerVars, queueVars, SamePlace, ClosedFirst, Places
  <2>3. caller' \in [Callers -> CallerType] /\ calls' \in [Callers -> Nat]
    BY <1>1, <2>1
  <2>4. \A r \in Requests : calls'[r] = calls[r] /\ (Busy(r)' <=> Busy(r))
    BY <2>1 DEF Busy
  <2> QED BY <2>1, <2>2, <2>3, <2>4, Quiet
<1>10. CASE CancelContext
  <2>1. UNCHANGED <<message, builders, outcome, caller, calls>>
    BY <1>10 DEF CancelContext, callerVars, queueVars
  <2>2. SamePlace /\ pc' \in Places /\ ClosedFirst' /\ closed \subseteq closed'
          /\ closed' \in SUBSET Requests
    BY <1>1, <1>10, <2>1 DEF CancelContext, callerVars, queueVars, SamePlace, ClosedFirst, Places
  <2>3. caller' \in [Callers -> CallerType] /\ calls' \in [Callers -> Nat]
    BY <1>1, <2>1
  <2>4. \A r \in Requests : calls'[r] = calls[r] /\ (Busy(r)' <=> Busy(r))
    BY <2>1 DEF Busy
  <2> QED BY <2>1, <2>2, <2>3, <2>4, Quiet
<1>11. CASE TakeDoneAndStop
  <2>1. UNCHANGED <<message, builders, outcome, calls, closed>>
    BY <1>11 DEF TakeDoneAndStop
  <2>2. SamePlace /\ pc' \in Places /\ ClosedFirst' /\ closed \subseteq closed'
          /\ closed' \in SUBSET Requests
    BY <1>1, <1>11, <2>1 DEF TakeDoneAndStop, SamePlace, ClosedFirst, Places
  <2>3. ReleasePeerMemory
    BY <1>11 DEF TakeDoneAndStop
  <2>4. caller' \in [Callers -> CallerType] /\ \A r \in Requests : Busy(r)' <=> Busy(r)
    BY <1>1, <1>2, <2>3, Releases
  <2>5. calls' \in [Callers -> Nat] /\ \A r \in Requests : calls'[r] = calls[r]
    BY <1>1, <2>1
  <2> QED BY <2>1, <2>2, <2>4, <2>5, Quiet
<1>12. CASE TakeContextDone
  <2>1. UNCHANGED <<message, builders, outcome, calls, closed>>
    BY <1>12 DEF TakeContextDone
  <2>2. SamePlace /\ pc' \in Places /\ ClosedFirst' /\ closed \subseteq closed'
          /\ closed' \in SUBSET Requests
    BY <1>1, <1>12, <2>1 DEF TakeContextDone, SamePlace, ClosedFirst, Places
  <2>3. ReleasePeerMemory
    BY <1>12 DEF TakeContextDone
  <2>4. caller' \in [Callers -> CallerType] /\ \A r \in Requests : Busy(r)' <=> Busy(r)
    BY <1>1, <1>2, <2>3, Releases
  <2>5. calls' \in [Callers -> Nat] /\ \A r \in Requests : calls'[r] = calls[r]
    BY <1>1, <2>1
  <2> QED BY <2>1, <2>2, <2>4, <2>5, Quiet
<1>13. CASE ReleaseScrubbed
  <2>1. UNCHANGED <<message, builders, outcome, calls, closed>>
    BY <1>13 DEF ReleaseScrubbed
  <2>2. SamePlace /\ pc' \in Places /\ ClosedFirst' /\ closed \subseteq closed'
          /\ closed' \in SUBSET Requests
    BY <1>1, <1>13, <2>1 DEF ReleaseScrubbed, SamePlace, ClosedFirst, Places
  <2>3. \/ \E amount : ReleaseBlockMemory(amount)
        \/ UNCHANGED caller
    BY <1>13 DEF ReleaseScrubbed
  <2>4. caller' \in [Callers -> CallerType] /\ \A r \in Requests : Busy(r)' <=> Busy(r)
    <3>1. CASE UNCHANGED caller
      BY <1>1, <3>1 DEF Busy
    <3>2. CASE \E amount : ReleaseBlockMemory(amount)
      BY <1>1, <1>2, <3>2, Releases
    <3> QED BY <2>3, <3>1, <3>2
  <2>5. calls' \in [Callers -> Nat] /\ \A r \in Requests : calls'[r] = calls[r]
    BY <1>1, <2>1
  <2> QED BY <2>1, <2>2, <2>4, <2>5, Quiet
<1> QED BY <1>3, <1>4, <1>5, <1>6, <1>7, <1>8, <1>9, <1>10, <1>11, <1>12, <1>13

\* What the queue is without its first message.
LEMMA TailIs ==
  ASSUME NEW S, NEW q \in Seq(S), q # <<>>
  PROVE  /\ Tail(q) \in Seq(S) /\ Head(q) = q[1] /\ 1 \in DOMAIN q
         /\ \A i \in DOMAIN Tail(q) : i + 1 \in DOMAIN q /\ Tail(q)[i] = q[i + 1] /\ i \in Nat \ {0}
         /\ \A i \in DOMAIN q : i \in Nat /\ (i # 1 => i > 1 /\ i - 1 \in DOMAIN Tail(q)
              /\ (i - 1) + 1 = i)
<1>1. /\ Tail(q) \in Seq(S) /\ Head(q) = q[1] /\ Len(q) \in Nat \ {0} /\ DOMAIN q = 1..Len(q)
      /\ Len(Tail(q)) = Len(q) - 1
      /\ \A i \in 1..Len(Tail(q)) : Tail(q)[i] = q[i + 1]
  BY HeadTailProperties
<1>2. DOMAIN Tail(q) = 1..(Len(q) - 1)
  BY <1>1
<1>3. \A l \in Nat \ {0} :
        /\ 1 \in 1..l
        /\ \A i \in 1..(l - 1) : i + 1 \in 1..l /\ i \in Nat \ {0}
        /\ \A i \in 1..l : i \in Nat /\ (i # 1 => i > 1 /\ i - 1 \in 1..(l - 1) /\ (i - 1) + 1 = i)
  OBVIOUS
<1> QED BY <1>1, <1>2, <1>3

\* The messages of the queue after the step are some of those before it, in their order,
\* and the others have nothing of r.
Reindexed(r, f) ==
  /\ f \in [DOMAIN builders' -> DOMAIN builders]
  /\ \A i, j \in DOMAIN builders' : i < j => f[i] < f[j]
  /\ \A i \in DOMAIN builders' : builders'[i].items[r] = builders[f[i]].items[r]
  /\ \A i \in DOMAIN builders :
       builders[i].items[r] # {} => \E k \in DOMAIN builders' : f[k] = i

\* The places of the operations of r are kept.
LEMMA ReindexedPlaces ==
  ASSUME NEW r \in Requests, PlacedOnce(r), NEW f, Reindexed(r, f), message' = message,
         outcome'[r] = outcome[r]
  PROVE  PlacedOnce(r)'
<1>1. \A n : (\E i \in DOMAIN builders' : n \in builders'[i].items[r])
               <=> (\E i \in DOMAIN builders : n \in builders[i].items[r])
  <2>1. ASSUME NEW n, NEW i \in DOMAIN builders', n \in builders'[i].items[r]
        PROVE  \E k \in DOMAIN builders : n \in builders[k].items[r]
    <3>1. f[i] \in DOMAIN builders /\ n \in builders[f[i]].items[r]
      BY <2>1 DEF Reindexed
    <3> QED BY <3>1
  <2>2. ASSUME NEW n, NEW i \in DOMAIN builders, n \in builders[i].items[r]
        PROVE  \E k \in DOMAIN builders' : n \in builders'[k].items[r]
    BY <2>2 DEF Reindexed
  <2> QED BY <2>1, <2>2
<1>2. ASSUME NEW i \in DOMAIN builders', NEW j \in DOMAIN builders', i < j,
             NEW m \in builders'[i].items[r], NEW n \in builders'[j].items[r]
      PROVE  m < n
  <2>1. /\ f[i] \in DOMAIN builders /\ f[j] \in DOMAIN builders /\ f[i] < f[j]
        /\ m \in builders[f[i]].items[r] /\ n \in builders[f[j]].items[r]
    BY <1>2 DEF Reindexed
  <2> QED BY <2>1 DEF PlacedOnce
<1> QED BY <1>1, <1>2 DEF PlacedOnce

\* The message at the head of the queue is being sent: so is all it has of r.
LEMMA TakesHead ==
  ASSUME Shape, NEW r \in Requests, Streamed(r), pc = "extract", builders # <<>>,
         message' = Head(builders), builders' = Tail(builders),
           outcome' = Outcomes(Head(builders), "sending"),
         pc' \in {"error", "initialize"}, UNCHANGED <<closed, calls, caller>>
  PROVE  Streamed(r)'
<1>1. PICK S : builders \in Seq(S)
  BY DEF Shape
<1>2. PICK h : h = Head(builders)
  OBVIOUS
<1>3. /\ h = builders[1] /\ 1 \in DOMAIN builders
      /\ \A i \in DOMAIN builders' : i + 1 \in DOMAIN builders
           /\ builders'[i] = builders[i + 1] /\ i \in Nat \ {0}
      /\ \A i \in DOMAIN builders : i \in Nat /\ (i # 1 => i > 1 /\ i - 1 \in DOMAIN builders'
           /\ (i - 1) + 1 = i)
  BY <1>1, <1>2, TailIs
<1>4. \A n \in OpNums : outcome'[r][n] = IF n \in h.items[r] THEN "sending" ELSE outcome[r][n]
  BY <1>2, Numbers DEF Outcomes
<1>5. OpNums \subseteq Nat /\ \A i \in DOMAIN builders : builders[i].items[r] \subseteq OpNums
  BY Numbers DEF Shape, IsBuilder
<1>6. \A n \in OpNums : /\ n \in h.items[r] => outcome[r][n] = "built"
                        /\ outcome[r][n] # "sending"
  BY <1>3 DEF Streamed, PlacedOnce, FailedIsClosed
<1>7. \A i \in DOMAIN builders : i # 1 =>
        \A m \in h.items[r], n \in builders[i].items[r] : m < n /\ n \notin h.items[r]
  <2>1. ASSUME NEW i \in DOMAIN builders, i # 1, NEW m \in h.items[r],
                 NEW n \in builders[i].items[r]
        PROVE  m < n
    <3>1. 1 < i /\ m \in builders[1].items[r]
      BY <1>3, <2>1
    <3> QED BY <1>3, <2>1, <3>1 DEF Streamed, PlacedOnce
  <2>2. \A a \in Nat : ~(a < a)
    OBVIOUS
  <2> QED BY <1>5, <2>1, <2>2
<1>8. PlacedOnce(r)'
  <2>1. ASSUME NEW n \in OpNums
        PROVE  outcome'[r][n] = "built" <=> \E i \in DOMAIN builders' : n \in builders'[i].items[r]
    <3>1. ASSUME outcome'[r][n] = "built" PROVE \E i \in DOMAIN builders' :
                   n \in builders'[i].items[r]
      <4>1. n \notin h.items[r] /\ outcome[r][n] = "built"
        BY <1>4, <3>1
      <4>2. PICK i \in DOMAIN builders : n \in builders[i].items[r]
        BY <4>1 DEF Streamed, PlacedOnce
      <4>3. i - 1 \in DOMAIN builders' /\ builders'[i - 1] = builders[i]
        BY <1>3, <4>1, <4>2
      <4> QED BY <4>2, <4>3
    <3>2. ASSUME NEW i \in DOMAIN builders', n \in builders'[i].items[r]
                   PROVE outcome'[r][n] = "built"
      <4>1. i + 1 \in DOMAIN builders /\ n \in builders[i + 1].items[r] /\ i + 1 # 1
        BY <1>3, <3>2
      <4>2. outcome[r][n] = "built"
        BY <4>1 DEF Streamed, PlacedOnce
      <4>3. n \notin h.items[r]
        BY <1>7, <4>1
      <4> QED BY <1>4, <4>2, <4>3
    <3> QED BY <3>1, <3>2
  <2>2. \A n \in OpNums : outcome'[r][n] = "sending" <=> n \in message'.items[r]
    BY <1>2, <1>4, <1>6
  <2>3. ASSUME NEW i \in DOMAIN builders', NEW j \in DOMAIN builders', i < j,
               NEW m \in builders'[i].items[r], NEW n \in builders'[j].items[r]
        PROVE  m < n
    <3>1. /\ i + 1 \in DOMAIN builders /\ j + 1 \in DOMAIN builders /\ i + 1 < j + 1
          /\ m \in builders[i + 1].items[r] /\ n \in builders[j + 1].items[r]
      BY <1>3, <2>3
    <3> QED BY <3>1 DEF Streamed, PlacedOnce
  <2> QED BY <2>1, <2>2, <2>3 DEF PlacedOnce
<1>9. Numbered(r)'
  <2>1. \A n \in OpNums : outcome'[r][n] = "none" <=> outcome[r][n] = "none"
    BY <1>4, <1>6
  <2> QED BY <2>1 DEF Streamed, Numbered, Busy
<1>10. FailedIsClosed(r)'
  <2>1. \A n \in OpNums : outcome'[r][n] \in {"error", "scrubbed"}
             => outcome[r][n] \in {"error", "scrubbed"}
    BY <1>4
  <2> QED BY <2>1 DEF Streamed, FailedIsClosed
<1>11. NoGaps(r)'
  <2> SUFFICES ASSUME NEW m \in OpNums, NEW n \in OpNums, m < n
               PROVE  /\ outcome'[r][n] = "sent" => outcome'[r][m] \in {"sent", "dropped"}
                      /\ outcome'[r][n] = "sending" => outcome'[r][m] \in {"sent", "dropped",
                           "sending"}
                      /\ outcome'[r][n] = "built" => outcome'[r][m] \in {"sent", "dropped",
                           "sending", "built"}
    BY DEF NoGaps
  <2>1. CASE n \in h.items[r]
    <3>1. outcome'[r][n] = "sending" /\ outcome[r][m] \in {"sent", "dropped", "built"}
      BY <1>4, <1>6, <2>1 DEF Streamed, NoGaps
    <3>2. CASE outcome[r][m] = "built"
      <4>1. PICK i \in DOMAIN builders : m \in builders[i].items[r]
        BY <3>2 DEF Streamed, PlacedOnce
      <4>2. i = 1
        <5>1. \A a, b \in Nat : a < b => ~(b < a)
          OBVIOUS
        <5> QED BY <1>5, <1>7, <2>1, <4>1, <5>1
      <4>3. outcome'[r][m] = "sending"
        BY <1>3, <1>4, <4>1, <4>2
      <4> QED BY <3>1, <4>3
    <3>3. CASE outcome[r][m] \in {"sent", "dropped"}
      <4>1. outcome'[r][m] = outcome[r][m]
        BY <1>4, <1>6, <3>3
      <4> QED BY <3>1, <3>3, <4>1
    <3> QED BY <3>1, <3>2, <3>3
  <2>2. CASE n \notin h.items[r]
    <3>1. outcome'[r][n] = outcome[r][n] /\ outcome[r][n] # "sending"
      BY <1>4, <1>6, <2>2
    <3>2. \/ outcome'[r][m] = outcome[r][m]
          \/ outcome[r][m] = "built" /\ outcome'[r][m] = "sending"
      BY <1>4, <1>6
    <3> QED BY <3>1, <3>2 DEF Streamed, NoGaps
  <2> QED BY <2>1, <2>2
<1> QED BY <1>8, <1>9, <1>10, <1>11 DEF Streamed

\* A message goes from the queue to runQueue.
LEMMA ExtractKeeps ==
  ASSUME IInv, ExtractOutgoingMessage
  PROVE  IInv'
<1>1. /\ pc = "extract" /\ builders # <<>> /\ message' = Head(builders)
           /\ builders' = Tail(builders)
      /\ outcome' = Outcomes(Head(builders), "sending") /\ pc' \in {"error", "initialize"}
      /\ UNCHANGED <<closed, calls, caller>>
  BY DEF ExtractOutgoingMessage, callerVars
<1>2. PICK S : builders \in Seq(S)
  BY DEF IInv, Shape
<1>3. /\ Tail(builders) \in Seq(S) /\ Head(builders) = builders[1] /\ 1 \in DOMAIN builders
      /\ \A i \in DOMAIN Tail(builders) : i + 1 \in DOMAIN builders
           /\ Tail(builders)[i] = builders[i + 1]
  BY <1>1, <1>2, TailIs
<1>4. IsBuilder(message') /\ \A i \in DOMAIN builders' : IsBuilder(builders'[i])
  BY <1>1, <1>3 DEF IInv, Shape
<1>5. outcome' \in [Callers -> [OpNums -> Results]]
  <2>1. "sending" \in Results /\ outcome \in [Callers -> [OpNums -> Results]]
    BY DEF IInv, Shape, Results
  <2> QED BY <1>1, <2>1 DEF Outcomes
<1>6. Shape'
  <2>1. pc' \in Places /\ \E T : builders' \in Seq(T)
    BY <1>1, <1>3 DEF Places
  <2> QED BY <1>1, <1>4, <1>5, <2>1 DEF IInv, Shape, IsBuilder
<1>7. ClosedFirst'
  BY <1>1 DEF ClosedFirst
<1>8. \A r \in Requests : Streamed(r)'
  BY <1>1, TakesHead DEF IInv
<1> QED BY <1>6, <1>7, <1>8 DEF IInv

\* A message with nothing in it is taken off the queue and forgotten.
LEMMA ExtractNothingKeeps ==
  ASSUME IInv, ExtractNothing
  PROVE  IInv'
<1>1. /\ pc = "extract" /\ pc' \in {"select", "stopped"}
      /\ UNCHANGED <<message, outcome, closed, calls>>
      /\ builders = <<>> => builders' = builders
      /\ builders # <<>> => Empty(Head(builders)) /\ builders' = Tail(builders)
      /\ UNCHANGED caller \/ ReleasePeerMemory
  BY DEF ExtractNothing, callerVars
<1>2. caller' \in [Callers -> CallerType] /\ \A r \in Requests : Busy(r)' <=> Busy(r)
  <2>1. caller \in [Callers -> CallerType]
    BY DEF IInv, Shape
  <2>2. CASE UNCHANGED caller
    BY <2>1, <2>2 DEF Busy
  <2>3. CASE ReleasePeerMemory
    BY <2>1, <2>3, Releases, Numbers
  <2> QED BY <1>1, <2>2, <2>3
<1>3. /\ pc' \in Places /\ closed' \in SUBSET Requests /\ SamePlace /\ ClosedFirst'
           /\ closed \subseteq closed'
      /\ calls' \in [Callers -> Nat] /\ \A r \in Requests : calls'[r] = calls[r]
  BY <1>1 DEF IInv, Shape, SamePlace, ClosedFirst, Places
<1>4. CASE builders = <<>>
  BY <1>1, <1>2, <1>3, <1>4, Quiet
<1>5. CASE builders # <<>>
  <2>1. PICK S : builders \in Seq(S)
    BY DEF IInv, Shape
  <2>2. /\ Head(builders) = builders[1] /\ builders' \in Seq(S)
        /\ \A i \in DOMAIN builders' : i + 1 \in DOMAIN builders
             /\ builders'[i] = builders[i + 1] /\ i \in Nat \ {0}
        /\ \A i \in DOMAIN builders : i \in Nat /\ (i # 1 => i > 1
             /\ i - 1 \in DOMAIN builders' /\ (i - 1) + 1 = i)
    BY <1>1, <1>5, <2>1, TailIs
  <2>3. Shape'
    <3>1. \A i \in DOMAIN builders' : IsBuilder(builders'[i])
      BY <2>2 DEF IInv, Shape
    <3> QED BY <1>1, <1>2, <1>3, <2>2, <3>1 DEF IInv, Shape, IsBuilder
  <2>4. ASSUME NEW r \in Requests PROVE Streamed(r)'
    <3>1. Streamed(r) /\ PlacedOnce(r) /\ r \in Callers /\ outcome'[r] = outcome[r]
      BY <1>1, Numbers DEF IInv, Streamed
    <3>2. builders[1].items[r] = {}
      BY <1>1, <1>5, <2>2, <3>1 DEF Empty
    <3> DEFINE f == [i \in DOMAIN builders' |-> i + 1]
    <3>3. Reindexed(r, f)
      <4>1. f \in [DOMAIN builders' -> DOMAIN builders]
        BY <2>2
      <4>2. \A i, j \in DOMAIN builders' : i < j => f[i] < f[j]
        <5>1. \A i, j \in Nat : i < j => i + 1 < j + 1
          OBVIOUS
        <5> QED BY <2>2, <5>1
      <4>3. \A i \in DOMAIN builders' : builders'[i].items[r] = builders[f[i]].items[r]
        BY <2>2
      <4>4. ASSUME NEW i \in DOMAIN builders, builders[i].items[r] # {}
            PROVE  \E k \in DOMAIN builders' : f[k] = i
        <5>1. i - 1 \in DOMAIN builders' /\ f[i - 1] = i
          BY <2>2, <3>2, <4>4
        <5> QED BY <5>1
      <4> QED BY <4>1, <4>2, <4>3, <4>4 DEF Reindexed
    <3> HIDE DEF f
    <3>4. PlacedOnce(r)'
      BY <1>1, <3>1, <3>3, ReindexedPlaces
    <3>5. Numbered(r)'
      BY <1>2, <1>3, <3>1, NumbersKept
    <3>6. FailedIsClosed(r)'
      BY <1>1, <3>1 DEF Streamed, FailedIsClosed
    <3>7. NoGaps(r)'
      BY <3>1 DEF Streamed, NoGaps
    <3> QED BY <3>4, <3>5, <3>6, <3>7 DEF Streamed
  <2> QED BY <1>3, <2>3, <2>4 DEF IInv
<1> QED BY <1>4, <1>5

\* The message that was being sent is decided: all it has of r was sent, or it failed
\* and the stream of r is closed and scrubbed.
LEMMA EndsMessage ==
  ASSUME Shape, NEW r \in Requests, Streamed(r), NEW result \in {"sent", "error"},
         result = "error" /\ message.items[r] # {} =>
           r \in closed /\ \A n \in OpNums : outcome[r][n] # "built",
         outcome' = Outcomes(message, result), message' = NewBuilder,
         UNCHANGED <<builders, closed, calls>>, pc' \in {"select", "extract"}, Busy(r)' <=> Busy(r)
  PROVE  Streamed(r)'
<1>1. /\ \A n \in OpNums : outcome'[r][n] = IF n \in message.items[r] THEN result ELSE outcome[r][n]
      /\ message'.items[r] = {}
  BY Numbers, NewIsBuilder DEF Outcomes
<1>2. \A n \in OpNums : outcome[r][n] = "sending" <=> n \in message.items[r]
  BY DEF Streamed, PlacedOnce
<1>3. \A n \in OpNums :
        \/ outcome[r][n] = "sending" /\ outcome'[r][n] = result
        \/ outcome[r][n] # "sending" /\ outcome'[r][n] = outcome[r][n]
  BY <1>1, <1>2
<1>4. PlacedOnce(r)'
  <2>1. \A n \in OpNums : /\ outcome'[r][n] = "built" <=> outcome[r][n] = "built"
                          /\ outcome'[r][n] # "sending"
    BY <1>3
  <2> QED BY <1>1, <2>1 DEF Streamed, PlacedOnce
<1>5. Numbered(r)'
  <2>1. \A n \in OpNums : outcome'[r][n] = "none" <=> outcome[r][n] = "none"
    BY <1>3
  <2> QED BY <2>1 DEF Streamed, Numbered
<1>6. FailedIsClosed(r)'
  <2>1. \A n \in OpNums : outcome'[r][n] \in {"error", "scrubbed"} => r \in closed
    <3> SUFFICES ASSUME NEW n \in OpNums, outcome'[r][n] \in {"error", "scrubbed"}
          PROVE r \in closed
      OBVIOUS
    <3>1. CASE n \in message.items[r]
      BY <1>1, <3>1
    <3>2. CASE n \notin message.items[r]
      BY <1>1, <3>2 DEF Streamed, FailedIsClosed
    <3> QED BY <3>1, <3>2
  <2> QED BY <1>1, <2>1 DEF FailedIsClosed
<1>7. NoGaps(r)'
  <2> SUFFICES ASSUME NEW m \in OpNums, NEW n \in OpNums, m < n
               PROVE  /\ outcome'[r][n] = "sent" => outcome'[r][m] \in {"sent", "dropped"}
                      /\ outcome'[r][n] = "sending" => outcome'[r][m] \in {"sent", "dropped",
                           "sending"}
                      /\ outcome'[r][n] = "built" => outcome'[r][m] \in {"sent", "dropped",
                           "sending", "built"}
    BY DEF NoGaps
  <2>1. /\ outcome[r][n] = "sent"    => outcome[r][m] \in {"sent", "dropped"}
        /\ outcome[r][n] = "sending" => outcome[r][m] \in {"sent", "dropped", "sending"}
        /\ outcome[r][n] = "built"   => outcome[r][m] \in {"sent", "dropped", "sending", "built"}
    BY DEF Streamed, NoGaps
  <2>2. CASE result = "sent"
    BY <1>3, <2>1, <2>2
  <2>3. CASE result = "error"
    <3>1. outcome[r][m] = "sending" => outcome[r][n] # "built"
      BY <1>2, <2>3
    <3> QED BY <1>3, <2>1, <2>3, <3>1
  <2> QED BY <2>2, <2>3
<1> QED BY <1>4, <1>5, <1>6, <1>7 DEF Streamed

\* publishSent and publishError end the message.
LEMMA EndKeeps ==
  ASSUME IInv, SendMsg \/ PublishError
  PROVE  IInv'
<1>1. PICK result \in {"sent", "error"} :
        /\ outcome' = Outcomes(message, result)
        /\ result = "error" => pc = "fail"
  BY DEF SendMsg, PublishError
<1>2. /\ message' = NewBuilder /\ UNCHANGED <<builders, closed, calls>>
           /\ pc' \in {"select", "extract"}
      /\ \E amount : ReleaseBlockMemory(amount)
  BY DEF SendMsg, PublishError
<1>3. caller' \in [Callers -> CallerType] /\ \A r \in Requests : Busy(r)' <=> Busy(r)
  <2>1. caller \in [Callers -> CallerType]
    BY DEF IInv, Shape
  <2> QED BY <1>2, <2>1, Releases, Numbers
<1>4. outcome' \in [Callers -> [OpNums -> Results]]
  <2>1. result \in Results /\ outcome \in [Callers -> [OpNums -> Results]]
    BY DEF IInv, Shape, Results
  <2> QED BY <1>1, <2>1 DEF Outcomes
<1>5. Shape'
  <2>1. IsBuilder(message') /\ pc' \in Places
    BY <1>2, NewIsBuilder DEF Places
  <2> QED BY <1>2, <1>3, <1>4, <2>1 DEF IInv, Shape, IsBuilder
<1>6. ClosedFirst'
  BY <1>2 DEF ClosedFirst
<1>7. ASSUME NEW r \in Requests PROVE Streamed(r)'
  <2>1. Shape /\ Streamed(r)
    BY DEF IInv
  <2>2. result = "error" /\ message.items[r] # {} =>
          r \in closed /\ \A n \in OpNums : outcome[r][n] # "built"
    <3> SUFFICES ASSUME result = "error", message.items[r] # {}
                 PROVE  r \in closed /\ \A n \in OpNums : outcome[r][n] # "built"
      OBVIOUS
    <3>1. pc = "fail" /\ r \in message.streams
      BY <1>1, <2>1 DEF Shape, IsBuilder
    <3> QED BY <2>1, <3>1 DEF IInv, ClosedFirst, Streamed, FailedIsClosed
  <2> QED BY <1>1, <1>2, <1>3, <2>1, <2>2, EndsMessage
<1> QED BY <1>5, <1>6, <1>7 DEF IInv

\* Scrubbing a message takes the responses in scrub out of it and no other.
LEMMA ScrubbedIs ==
  ASSUME NEW b, IsBuilder(b), NEW scrub
  PROVE  /\ IsBuilder(Scrubbed(b, scrub))
         /\ \A r \in Requests : Scrubbed(b, scrub).items[r] = IF r \in scrub THEN {} ELSE b.items[r]
<1> DEFINE s == Scrubbed(b, scrub)
<1>1. s.items = [c \in Callers |-> IF c \in scrub THEN {} ELSE b.items[c]]
        /\ s.streams = b.streams \ scrub
  BY DEF Scrubbed
<1> HIDE DEF s
<1>2. \A r \in Requests : s.items[r] = IF r \in scrub THEN {} ELSE b.items[r]
  BY <1>1, Numbers
<1>3. IsBuilder(s)
  <2>1. s.items \in [Callers -> SUBSET Nat] /\ s.streams \in SUBSET Requests
    BY <1>1 DEF IsBuilder
  <2> QED BY <1>1, <1>2, <2>1 DEF IsBuilder
<1> QED BY <1>2, <1>3 DEF s

\* A response that was scrubbed has nothing left in the queue.
LEMMA ScrubsOne ==
  ASSUME NEW r \in Requests, Streamed(r), r \in closed,
         \A i \in DOMAIN builders' : builders'[i].items[r] = {},
         \A n \in OpNums :
           outcome'[r][n] = IF outcome[r][n] = "built" THEN "scrubbed" ELSE outcome[r][n],
         UNCHANGED <<message, closed, calls, caller>>, pc' = "release"
  PROVE  Streamed(r)'
<1>1. PlacedOnce(r)'
  <2>1. \A n \in OpNums : /\ outcome'[r][n] # "built"
                          /\ outcome'[r][n] = "sending" <=> outcome[r][n] = "sending"
    OBVIOUS
  <2> QED BY <2>1 DEF Streamed, PlacedOnce
<1>2. Numbered(r)'
  <2>1. \A n \in OpNums : outcome'[r][n] = "none" <=> outcome[r][n] = "none"
    OBVIOUS
  <2> QED BY <2>1 DEF Streamed, Numbered, Busy
<1>3. FailedIsClosed(r)'
  BY DEF FailedIsClosed
<1>4. NoGaps(r)'
  BY DEF Streamed, NoGaps
<1> QED BY <1>1, <1>2, <1>3, <1>4 DEF Streamed

\* The messages that are left after the scrub are in the order they were in.
LEMMA ScrubResponsesKeeps ==
  ASSUME IInv, ScrubResponses
  PROVE  IInv'
<1> DEFINE scrub == message.streams
           queue == ScrubbedQueue(scrub)
           kept  == {i \in DOMAIN queue : ~Empty(queue[i])}
<1>1. scrub = message.streams
  OBVIOUS
<1>2. queue = ScrubbedQueue(scrub)
  OBVIOUS
<1>3. kept = {i \in DOMAIN queue : ~Empty(queue[i])}
  OBVIOUS
<1>4. PICK n \in 0..Len(builders) : \E order \in Ascending(n, kept) :
        builders' = [k \in 1..n |-> queue[order[k]]]
  BY Zenon DEF ScrubResponses
<1> HIDE DEF scrub, queue, kept
<1>5. PICK order \in Ascending(n, kept) : builders' = [k \in 1..n |-> queue[order[k]]]
  BY <1>4
<1>6. /\ order \in [1..n -> kept]
      /\ \A i \in kept : \E k \in 1..n : order[k] = i
      /\ \A j, k \in 1..n : j < k => order[j] < order[k]
  <2>1. order \in Surjection(1..n, kept) /\ \A j, k \in 1..n : j < k => order[j] < order[k]
    BY <1>5 DEF Ascending
  <2> QED BY <2>1 DEF Surjection
<1>7. DOMAIN queue = DOMAIN builders /\ \A i \in DOMAIN builders :
        queue[i] = Scrubbed(builders[i], scrub)
  BY <1>2 DEF ScrubbedQueue
<1>8. /\ pc = "scrub" /\ pc' = "release" /\ UNCHANGED <<message, closed, calls, caller>>
      /\ outcome' = [c \in Callers |-> [k \in OpNums |->
                      IF c \in scrub /\ outcome[c][k] = "built" THEN "scrubbed" ELSE outcome[c][k]]]
  BY <1>1 DEF ScrubResponses, callerVars
<1>9. scrub \subseteq closed
  BY <1>1, <1>8 DEF IInv, ClosedFirst
<1>10. \A i \in DOMAIN builders :
         /\ IsBuilder(queue[i])
         /\ \A r \in Requests : queue[i].items[r] = IF r \in scrub THEN {} ELSE builders[i].items[r]
  BY <1>7, ScrubbedIs DEF IInv, Shape
<1>11. DOMAIN builders' = 1..n /\ \A k \in 1..n : builders'[k] = queue[order[k]]
         /\ order[k] \in DOMAIN builders
  BY <1>3, <1>5, <1>6, <1>7
<1>12. Shape'
  <2>1. \E S : builders' \in Seq(S)
    <3>1. PICK S : S = {queue[i] : i \in DOMAIN builders}
      OBVIOUS
    <3>2. n \in Nat
      <4>1. PICK T : builders \in Seq(T)
        BY DEF IInv, Shape
      <4>2. Len(builders) \in Nat
        BY <4>1
      <4> QED BY <4>2
    <3>3. \A k \in 1..n : queue[order[k]] \in S
      BY <1>11, <3>1
    <3>4. builders' \in [1..n -> S]
      BY <1>5, <3>3
    <3> QED BY <3>2, <3>4
  <2>2. \A k \in DOMAIN builders' : IsBuilder(builders'[k])
    BY <1>10, <1>11
  <2>3. outcome' \in [Callers -> [OpNums -> Results]]
    <3>1. "scrubbed" \in Results /\ outcome \in [Callers -> [OpNums -> Results]]
      BY DEF IInv, Shape, Results
    <3> QED BY <1>8, <3>1
  <2>4. pc' \in Places
    BY <1>8 DEF Places
  <2> QED BY <1>8, <2>1, <2>2, <2>3, <2>4 DEF IInv, Shape, IsBuilder
<1>13. ClosedFirst'
  BY <1>1, <1>8, <1>9 DEF ClosedFirst
<1>14. ASSUME NEW r \in Requests PROVE Streamed(r)'
  <2>1. Streamed(r) /\ PlacedOnce(r) /\ r \in Callers
    BY Numbers DEF IInv, Streamed
  <2>2. \A k \in OpNums : outcome'[r][k] =
          IF r \in scrub /\ outcome[r][k] = "built" THEN "scrubbed" ELSE outcome[r][k]
    BY <1>8, <2>1
  <2>3. CASE r \in scrub
    <3>1. \A i \in DOMAIN builders' : builders'[i].items[r] = {}
      BY <1>10, <1>11, <2>3
    <3> QED BY <1>8, <1>9, <2>1, <2>2, <2>3, <3>1, ScrubsOne
  <2>4. CASE r \notin scrub
    <3>1. outcome'[r] = outcome[r]
      <4>1. outcome \in [Callers -> [OpNums -> Results]]
              /\ outcome' \in [Callers -> [OpNums -> Results]]
        BY <1>12 DEF IInv, Shape
      <4>2. \A k \in OpNums : outcome'[r][k] = outcome[r][k]
        BY <2>2, <2>4
      <4> QED BY <2>1, <4>1, <4>2
    <3>2. Reindexed(r, order)
      <4>1. order \in [DOMAIN builders' -> DOMAIN builders]
        BY <1>6, <1>11
      <4>2. \A i, j \in DOMAIN builders' : i < j => order[i] < order[j]
        BY <1>6, <1>11
      <4>3. \A i \in DOMAIN builders' : builders'[i].items[r] = builders[order[i]].items[r]
        BY <1>10, <1>11, <2>4
      <4>4. ASSUME NEW i \in DOMAIN builders, builders[i].items[r] # {}
            PROVE  \E k \in DOMAIN builders' : order[k] = i
        <5>1. queue[i].items[r] # {}
          BY <1>10, <2>4, <4>4
        <5>2. i \in kept
          BY <1>3, <1>7, <2>1, <5>1 DEF Empty
        <5> QED BY <1>6, <1>11, <5>2
      <4> QED BY <4>1, <4>2, <4>3, <4>4 DEF Reindexed
    <3>3. PlacedOnce(r)'
      BY <1>8, <2>1, <3>1, <3>2, ReindexedPlaces
    <3>4. Numbered(r)'
      BY <1>8, <2>1, <3>1 DEF Streamed, Numbered, Busy
    <3>5. FailedIsClosed(r)'
      BY <1>1, <1>8, <2>1, <2>4, <3>1 DEF Streamed, FailedIsClosed
    <3>6. NoGaps(r)'
      BY <2>1, <3>1 DEF Streamed, NoGaps
    <3> QED BY <3>3, <3>4, <3>5, <3>6 DEF Streamed
  <2> QED BY <2>3, <2>4
<1> QED BY <1>12, <1>13, <1>14 DEF IInv

-----------------------------------------------------------------------------
(* The theorems *)

\* The queue of a new peer is empty, and no operation has begun.
LEMMA InitHolds == Init => IInv
<1> SUFFICES ASSUME Init PROVE IInv
  OBVIOUS
<1>1. Shape
  <2>1. builders \in Seq({}) /\ DOMAIN builders = {}
    BY DEF Init
  <2>2. IsBuilder(message) /\ pc \in Places /\ closed \in SUBSET Requests
    BY NewIsBuilder DEF Init, Places
  <2>3. caller \in [Callers -> CallerType]
    <3>1. [at |-> "idle", op |-> NoOp] \in CallerType
      BY OperationTypes DEF CallerType
    <3> QED BY <3>1 DEF Init
  <2>4. calls \in [Callers -> Nat] /\ \A r \in Requests : calls[r] \in 0..MaxOps[r]
    BY Numbers DEF Init
  <2>5. outcome \in [Callers -> [OpNums -> Results]]
    BY DEF Init, Results
  <2> QED BY <2>1, <2>2, <2>3, <2>4, <2>5 DEF Shape
<1>2. ClosedFirst
  BY DEF Init, ClosedFirst
<1>3. ASSUME NEW r \in Requests PROVE Streamed(r)
  <2>1. /\ r \in Callers /\ builders = <<>> /\ message.items[r] = {} /\ ~Busy(r) /\ calls[r] = 0
        /\ \A n \in OpNums : outcome[r][n] = "none"
    BY Numbers, NewIsBuilder DEF Init, Busy
  <2>2. DOMAIN builders = {}
    BY <2>1
  <2>3. PlacedOnce(r)
    BY <2>1, <2>2 DEF PlacedOnce
  <2>4. Numbered(r)
    BY <2>1, Numbers DEF Numbered
  <2>5. FailedIsClosed(r) /\ NoGaps(r)
    BY <2>1 DEF FailedIsClosed, NoGaps
  <2> QED BY <2>3, <2>4, <2>5 DEF Streamed
<1> QED BY <1>1, <1>2, <1>3 DEF IInv

\* Every step of the callers, of runQueue and of the peer manager keeps it.
LEMMA NextKeeps == IInv /\ [Next]_vars => IInv'
<1> SUFFICES ASSUME IInv, [Next]_vars PROVE IInv'
  OBVIOUS
<1>1. ASSUME NEW r \in Requests, NEW op \in Operations[r], Execute(r, op) PROVE IInv'
  BY <1>1, ExecuteKeeps
<1>2. ASSUME NEW r \in Requests, AbandonWait(r) PROVE IInv'
  BY <1>2, AbandonWaitKeeps
<1>3. ASSUME NEW c \in Callers, Caller(c) PROVE IInv'
  BY <1>3, BuildMessageKeeps, CallersKeep DEF Caller
<1>4. CASE SendRequest
  BY <1>4, CallersKeep
<1>5. CASE RunQueue
  BY <1>5, QuietSteps, ExtractKeeps, ExtractNothingKeeps, EndKeeps, ScrubResponsesKeeps DEF RunQueue
<1>6. CASE Shutdown \/ CancelContext
  BY <1>6, QuietSteps
<1>7. CASE UNCHANGED vars
  <2>1. UNCHANGED <<builders, message, pc, closed, caller, calls, outcome>>
    BY <1>7 DEF vars
  <2>2. /\ SamePlace /\ pc' \in Places /\ ClosedFirst' /\ closed \subseteq closed'
        /\ closed' \in SUBSET Requests /\ caller' \in [Callers -> CallerType]
             /\ calls' \in [Callers -> Nat]
    BY <2>1 DEF IInv, Shape, SamePlace, ClosedFirst
  <2>3. \A r \in Requests : calls'[r] = calls[r] /\ (Busy(r)' <=> Busy(r))
    BY <2>1 DEF Busy
  <2> QED BY <2>1, <2>2, <2>3, Quiet
<1> QED BY <1>1, <1>2, <1>3, <1>4, <1>5, <1>6, <1>7 DEF Next

\* What the queue knows of its operations is always true of it: an operation is built
\* exactly when a queued message has it, streams are closed before the queue is scrubbed,
\* and a response that lost an operation has nothing left in the queue.
THEOREM PlacedInOrder == Spec => []IInv
<1>1. Init => IInv
  BY InitHolds
<1>2. IInv /\ [Next]_vars => IInv'
  BY NextKeeps
<1> QED BY <1>1, <1>2, PTL DEF Spec

\* What reaches the peer of a response is a prefix of what was built for it, however the
\* failure of a message, the closing of its streams, the scrub of the queue and the
\* building of further messages interleave.
THEOREM SentWithoutGapsHolds == Spec => []SentWithoutGaps
<1>1. IInv => SentWithoutGaps
  BY DEF IInv, Streamed, NoGaps, SentWithoutGaps
<1> QED BY <1>1, PlacedInOrder, PTL

-----------------------------------------------------------------------------
(* Sums: the sum of f over a finite set S is the number of pairs of an element x of S and
   a number from 1 to f[x], which makes a law of sums one of finite sets. *)

\* Every non-empty set of natural numbers has a least element.
LEMMA Least ==
  ASSUME NEW T, T \subseteq Nat, T # {}
  PROVE  \E i \in T : \A j \in T : i <= j
<1> DEFINE Less == {p \in Nat \X Nat : p[1] < p[2]}
<1>1. IsWellFoundedOn(Less, Nat)
  BY NatLessThanWellFounded DEF OpToRel
<1>2. PICK i \in T : \A j \in T : <<j, i>> \notin Less
  <2> HIDE DEF Less
  <2> QED BY <1>1, WFMin
<1>3. ASSUME NEW j \in T PROVE i <= j
  <2>1. i \in Nat /\ j \in Nat /\ <<j, i>> \notin Less
    BY <1>2
  <2>2. j < i => <<j, i>> \in Less
    BY <2>1
  <2> HIDE DEF Less
  <2> QED BY <2>1, <2>2
<1> QED BY <1>3

\* The units that a function f from S to the naturals counts.
Units(f, S) == UNION {{x} \X (1..f[x]) : x \in S}

\* A unit is an element of S with a number up to its value.
LEMMA UnitsMember ==
  ASSUME NEW S, NEW f, \A x \in S : f[x] \in Nat
  PROVE  \A u : u \in Units(f, S) <=> \E x \in S : \E i \in 1..f[x] : u = <<x, i>>
BY DEF Units

\* There are finitely many units.
LEMMA UnitsFinite ==
  ASSUME NEW S, IsFiniteSet(S), NEW f, \A x \in S : f[x] \in Nat
  PROVE  IsFiniteSet(Units(f, S)) /\ Cardinality(Units(f, S)) \in Nat
<1>1. IsFiniteSet({{x} \X (1..f[x]) : x \in S})
  <2> DEFINE T == {{x} \X (1..f[x]) : x \in S}
             g == [x \in S |-> {x} \X (1..f[x])]
  <2>1. g \in Surjection(S, T)
    BY DEF Surjection
  <2> HIDE DEF g, T
  <2>2. IsFiniteSet(T)
    BY <2>1, FS_Surjection
  <2> QED BY <2>2 DEF T
<1>2. \A x \in S : IsFiniteSet({x} \X (1..f[x]))
  <2> SUFFICES ASSUME NEW x \in S PROVE IsFiniteSet({x} \X (1..f[x]))
    OBVIOUS
  <2>1. IsFiniteSet({x})
    BY FS_Singleton
  <2>2. IsFiniteSet(1..f[x])
    BY FS_Interval
  <2> QED BY <2>1, <2>2, FS_Product
<1> DEFINE parts == {{x} \X (1..f[x]) : x \in S}
<1>3. \A p \in parts : IsFiniteSet(p)
  BY <1>2
<1>4. IsFiniteSet(parts)
  BY <1>1
<1> HIDE DEF parts
<1>5. IsFiniteSet(UNION parts)
  BY <1>3, <1>4, FS_UNION
<1>6. IsFiniteSet(Units(f, S))
  BY <1>5 DEF parts, Units
<1> QED BY <1>6, FS_CardinalityType

\* The units of two disjoint sets add up.
LEMMA UnitsUnion ==
  ASSUME NEW S, IsFiniteSet(S), NEW T, IsFiniteSet(T), S \cap T = {}, NEW f,
         \A x \in S \union T : f[x] \in Nat
  PROVE  Cardinality(Units(f, S \union T)) = Cardinality(Units(f, S)) + Cardinality(Units(f, T))
<1>1. Units(f, S \union T) = Units(f, S) \union Units(f, T)
  BY DEF Units
<1>2. Units(f, S) \cap Units(f, T) = {}
  BY UnitsMember
<1>3. IsFiniteSet(Units(f, S)) /\ IsFiniteSet(Units(f, T))
  BY UnitsFinite
<1>4. Cardinality(Units(f, S)) \in Nat /\ Cardinality(Units(f, T)) \in Nat
  BY UnitsFinite
<1>5. Cardinality(Units(f, S) \union Units(f, T))
        = Cardinality(Units(f, S)) + Cardinality(Units(f, T))
            - Cardinality(Units(f, S) \cap Units(f, T))
  BY <1>3, FS_Union
<1>6. Cardinality({}) = 0
  BY FS_EmptySet
<1>7. \A m, n \in Nat : m + n - 0 = m + n
  OBVIOUS
<1> QED BY <1>1, <1>2, <1>4, <1>5, <1>6, <1>7, Zenon

\* A single element has as many units as its value.
LEMMA UnitsOne ==
  ASSUME NEW x, NEW f, f[x] \in Nat
  PROVE  Cardinality(Units(f, {x})) = f[x]
<1>1. Units(f, {x}) = {x} \X (1..f[x])
  BY DEF Units
<1>2. IsFiniteSet({x}) /\ Cardinality({x}) = 1
  BY FS_Singleton
<1>3. IsFiniteSet(1..f[x]) /\ Cardinality(1..f[x]) = f[x]
  <2>1. PICK n \in Nat : n = f[x]
    OBVIOUS
  <2>2. n \in Int /\ 1 \in Int
    OBVIOUS
  <2>3. IsFiniteSet(1..n) /\ Cardinality(1..n) = IF 1 > n THEN 0 ELSE n - 1 + 1
    BY <2>2, FS_Interval
  <2>4. Cardinality(1..n) = n
    BY <2>3
  <2> QED BY <2>1, <2>3, <2>4
<1>4. Cardinality({x} \X (1..f[x])) = Cardinality({x}) * Cardinality(1..f[x])
  BY <1>2, <1>3, FS_Product
<1>5. \A n \in Nat : 1 * n = n
  OBVIOUS
<1> QED BY <1>1, <1>2, <1>3, <1>4, <1>5, Zenon

\* g satisfies the equation by which SumFunctionOnSet is defined.
IsIter(g, f, S) ==
  g = [s \in SUBSET S |-> IF s = {} THEN 0
                          ELSE f[CHOOSE x \in s : TRUE] + g[s \ {CHOOSE x \in s : TRUE}]]

\* What the definition of the sum says, with the fold expanded.
LEMMA SumIs ==
  ASSUME NEW f, NEW S
  PROVE  SumFunctionOnSet(f, S) = (CHOOSE g : IsIter(g, f, S))[S]
BY DEF SumFunctionOnSet, FoldFunctionOnSet, MapThenFoldSet, IsIter

\* The number of units satisfies the equation of the sum.
LEMMA UnitsIter ==
  ASSUME NEW S, IsFiniteSet(S), NEW f, \A x \in S : f[x] \in Nat
  PROVE  IsIter([s \in SUBSET S |-> Cardinality(Units(f, s))], f, S)
<1> DEFINE G == [s \in SUBSET S |-> Cardinality(Units(f, s))]
<1>1. ASSUME NEW s \in SUBSET S, NEW x \in s
      PROVE  G[s] = f[x] + G[s \ {x}] /\ s \ {x} \in SUBSET S
  <2>1. s = {x} \union (s \ {x}) /\ {x} \cap (s \ {x}) = {} /\ s \ {x} \in SUBSET S /\ x \in S
    OBVIOUS
  <2>2. IsFiniteSet({x}) /\ IsFiniteSet(s \ {x})
    BY <2>1, FS_Singleton, FS_Subset
  <2>3. \A y \in {x} \union (s \ {x}) : f[y] \in Nat
    OBVIOUS
  <2>4. PICK r : r = s \ {x}
    OBVIOUS
  <2>5. Cardinality(Units(f, {x} \union r)) = Cardinality(Units(f, {x})) + Cardinality(Units(f, r))
    BY <2>1, <2>2, <2>3, <2>4, UnitsUnion
  <2>6. Cardinality(Units(f, {x})) = f[x]
    BY <2>1, UnitsOne
  <2>7. G[s] = Cardinality(Units(f, s)) /\ G[r] = Cardinality(Units(f, r))
    BY <2>1, <2>4
  <2> QED BY <2>1, <2>4, <2>5, <2>6, <2>7
<1>2. G[{}] = 0
  <2>1. Units(f, {}) = {}
    BY DEF Units
  <2> QED BY <2>1, FS_EmptySet
<1>3. G = [s \in SUBSET S |-> G[s]]
  OBVIOUS
<1> HIDE DEF G
<1>4. ASSUME NEW s \in SUBSET S
      PROVE  G[s] = IF s = {} THEN 0
                    ELSE f[CHOOSE x \in s : TRUE] + G[s \ {CHOOSE x \in s : TRUE}]
  <2>1. CASE s = {}
    BY <1>2, <2>1
  <2>2. CASE s # {}
    <3>1. (CHOOSE x \in s : TRUE) \in s
      BY <2>2
    <3>2. PICK y \in s : y = CHOOSE x \in s : TRUE
      BY <3>1
    <3>3. G[s] = f[y] + G[s \ {y}]
      BY <1>1
    <3> QED BY <2>2, <3>2, <3>3
  <2> QED BY <2>1, <2>2
<1>5. IsIter(G, f, S)
  BY <1>3, <1>4, Zenon DEF IsIter
<1> QED BY <1>5 DEF G

\* Only one function does: take a smallest set on which two differ.
LEMMA IterUnique ==
  ASSUME NEW S, IsFiniteSet(S), NEW f, NEW g, NEW h, IsIter(g, f, S), IsIter(h, f, S)
  PROVE  g[S] = h[S]
<1> DEFINE bad == {Cardinality(s) : s \in {t \in SUBSET S : g[t] # h[t]}}
<1>1. \A s \in SUBSET S : IsFiniteSet(s) /\ Cardinality(s) \in Nat
  BY FS_Subset, FS_CardinalityType
<1>2. SUFFICES ASSUME g[S] # h[S] PROVE FALSE
  OBVIOUS
<1>3. bad \subseteq Nat /\ bad # {}
  BY <1>1, <1>2
<1>4. PICK n \in bad : \A m \in bad : n <= m
  <2> HIDE DEF bad
  <2> QED BY <1>3, Least
<1>5. PICK s \in SUBSET S : n = Cardinality(s) /\ g[s] # h[s]
  BY <1>4
<1>6. s # {}
  BY <1>5 DEF IsIter
<1>7. PICK y \in s : y = CHOOSE x \in s : TRUE
  BY <1>6
<1>8. g[s] = f[y] + g[s \ {y}] /\ h[s] = f[y] + h[s \ {y}]
  BY <1>6, <1>7 DEF IsIter
<1>9. PICK r : r = s \ {y}
  OBVIOUS
<1>10. r \in SUBSET S /\ g[r] # h[r]
  BY <1>5, <1>8, <1>9
<1>11. Cardinality(r) = Cardinality(s) - 1
  BY <1>1, <1>7, <1>9, FS_RemoveElement
<1>12. Cardinality(r) \in bad
  BY <1>10
<1>13. n <= Cardinality(r) /\ n \in Nat /\ Cardinality(r) = n - 1
  BY <1>1, <1>4, <1>5, <1>11, <1>12
<1> QED BY <1>13

\* So the sum of f over S is the number of its units.
LEMMA SumIsUnits ==
  ASSUME NEW S, IsFiniteSet(S), NEW f, \A x \in S : f[x] \in Nat
  PROVE  SumFunctionOnSet(f, S) = Cardinality(Units(f, S))
<1> DEFINE G == [s \in SUBSET S |-> Cardinality(Units(f, s))]
<1>1. IsIter(G, f, S) /\ G[S] = Cardinality(Units(f, S))
  BY UnitsIter
<1> HIDE DEF G
<1>2. PICK g : g = CHOOSE h : IsIter(h, f, S)
  OBVIOUS
<1>3. IsIter(g, f, S)
  BY <1>1, <1>2
<1>4. g[S] = G[S]
  BY <1>1, <1>3, IterUnique
<1>5. SumFunctionOnSet(f, S) = g[S]
  BY <1>2, SumIs
<1> QED BY <1>1, <1>4, <1>5


\* A sum of natural numbers is one.
LEMMA SumNat ==
  ASSUME NEW S, IsFiniteSet(S), NEW f, \A x \in S : f[x] \in Nat
  PROVE  SumFunctionOnSet(f, S) \in Nat
BY SumIsUnits, UnitsFinite

\* The sum over two disjoint sets.
LEMMA SumSplit ==
  ASSUME NEW S, IsFiniteSet(S), NEW T, IsFiniteSet(T), S \cap T = {}, NEW f,
         \A x \in S \union T : f[x] \in Nat
  PROVE  SumFunctionOnSet(f, S \union T) = SumFunctionOnSet(f, S) + SumFunctionOnSet(f, T)
<1>1. PICK R : R = S \union T
  OBVIOUS
<1>2. IsFiniteSet(R) /\ \A x \in R : f[x] \in Nat
  BY <1>1, FS_Union
<1>3. SumFunctionOnSet(f, R) = Cardinality(Units(f, R))
  BY <1>2, SumIsUnits
<1>4. /\ SumFunctionOnSet(f, S) = Cardinality(Units(f, S))
      /\ SumFunctionOnSet(f, T) = Cardinality(Units(f, T))
  BY SumIsUnits
<1>5. Cardinality(Units(f, S \union T)) = Cardinality(Units(f, S)) + Cardinality(Units(f, T))
  BY UnitsUnion
<1> QED BY <1>1, <1>3, <1>4, <1>5, Zenon

\* The sum over a single element.
LEMMA SumOne ==
  ASSUME NEW f, NEW x, f[x] \in Nat
  PROVE  SumFunctionOnSet(f, {x}) = f[x]
<1>1. IsFiniteSet({x}) /\ \A y \in {x} : f[y] \in Nat
  BY FS_Singleton
<1>2. PICK S : S = {x}
  OBVIOUS
<1>3. SumFunctionOnSet(f, S) = Cardinality(Units(f, S))
  BY <1>1, <1>2, SumIsUnits
<1> QED BY <1>2, <1>3, UnitsOne

\* The sum over no element.
LEMMA SumEmpty ==
  ASSUME NEW f
  PROVE  SumFunctionOnSet(f, {}) = 0
<1>1. SumFunctionOnSet(f, {}) = Cardinality(Units(f, {}))
  BY FS_EmptySet, SumIsUnits
<1>2. Units(f, {}) = {}
  BY DEF Units
<1> QED BY <1>1, <1>2, FS_EmptySet

\* A sum is at most another one when each of its elements has one of its own there that
\* is at least as large.
LEMMA SumInject ==
  ASSUME NEW S, IsFiniteSet(S), NEW T, IsFiniteSet(T), NEW f, NEW g,
         \A x \in S : f[x] \in Nat, \A y \in T : g[y] \in Nat,
         NEW h \in Injection(S, T), \A x \in S : f[x] <= g[h[x]]
  PROVE  SumFunctionOnSet(f, S) <= SumFunctionOnSet(g, T)
<1>1. PICK U : U = Units(f, S)
  OBVIOUS
<1>2. PICK V : V = Units(g, T)
  OBVIOUS
<1>3. \A u : u \in U <=> \E x \in S : \E i \in 1..f[x] : u = <<x, i>>
  BY <1>1, UnitsMember
<1>4. \A u : u \in V <=> \E x \in T : \E i \in 1..g[x] : u = <<x, i>>
  BY <1>2, UnitsMember
<1>5. h \in [S -> T] /\ \A x, y \in S : h[x] = h[y] => x = y
  BY DEF Injection, IsInjective
<1> DEFINE k == [u \in U |-> <<h[u[1]], u[2]>>]
<1>6. ASSUME NEW u \in U PROVE k[u] \in V
  <2>1. PICK x \in S : \E i \in 1..f[x] : u = <<x, i>>
    BY <1>3
  <2>2. PICK i \in 1..f[x] : u = <<x, i>>
    BY <2>1
  <2>3. k[u] = <<h[x], i>>
    BY <2>2
  <2>4. f[x] \in Nat /\ g[h[x]] \in Nat /\ f[x] <= g[h[x]] /\ h[x] \in T
    BY <1>5
  <2>5. i \in 1..g[h[x]]
    BY <2>4
  <2> QED BY <1>4, <2>3, <2>4, <2>5
<1>7. ASSUME NEW u \in U, NEW v \in U, k[u] = k[v] PROVE u = v
  <2>1. PICK x \in S : \E i \in 1..f[x] : u = <<x, i>>
    BY <1>3
  <2>2. PICK i \in 1..f[x] : u = <<x, i>>
    BY <2>1
  <2>3. PICK y \in S : \E j \in 1..f[y] : v = <<y, j>>
    BY <1>3
  <2>4. PICK j \in 1..f[y] : v = <<y, j>>
    BY <2>3
  <2>5. <<h[x], i>> = <<h[y], j>>
    BY <1>7, <2>2, <2>4
  <2>6. x = y /\ i = j
    BY <1>5, <2>5
  <2> QED BY <2>2, <2>4, <2>6
<1>8. k \in Injection(U, V)
  <2>1. k \in [U -> V]
    BY <1>6
  <2> HIDE DEF k
  <2> QED BY <1>7, <2>1 DEF Injection, IsInjective
<1> HIDE DEF k
<1>9. IsFiniteSet(V) /\ Cardinality(U) <= Cardinality(V)
  <2>1. IsFiniteSet(V)
    BY <1>2, UnitsFinite
  <2> QED BY <1>8, <2>1, FS_Injection
<1>10. SumFunctionOnSet(f, S) = Cardinality(U) /\ SumFunctionOnSet(g, T) = Cardinality(V)
  BY <1>1, <1>2, SumIsUnits
<1> QED BY <1>9, <1>10

\* A sum of smaller values is smaller.
LEMMA SumMonotone ==
  ASSUME NEW S, IsFiniteSet(S), NEW f, NEW g,
         \A x \in S : f[x] \in Nat /\ g[x] \in Nat /\ f[x] <= g[x]
  PROVE  SumFunctionOnSet(f, S) <= SumFunctionOnSet(g, S)
<1> DEFINE h == [x \in S |-> x]
<1>1. h \in Injection(S, S) /\ \A x \in S : h[x] = x
  BY DEF Injection, IsInjective
<1> HIDE DEF h
<1> QED BY <1>1, SumInject

\* A sum depends on the values only.
LEMMA SumSame ==
  ASSUME NEW S, IsFiniteSet(S), NEW f, NEW g,
         \A x \in S : f[x] \in Nat /\ g[x] = f[x]
  PROVE  SumFunctionOnSet(f, S) = SumFunctionOnSet(g, S)
<1>1. /\ \A x \in S : f[x] \in Nat /\ g[x] \in Nat /\ f[x] <= g[x] /\ g[x] <= f[x]
  OBVIOUS
<1>2. SumFunctionOnSet(f, S) <= SumFunctionOnSet(g, S)
  BY <1>1, SumMonotone
<1>3. SumFunctionOnSet(g, S) <= SumFunctionOnSet(f, S)
  BY <1>1, SumMonotone
<1>4. SumFunctionOnSet(g, S) \in Nat /\ SumFunctionOnSet(f, S) \in Nat
  BY <1>1, SumNat
<1> QED BY <1>2, <1>3, <1>4

\* One element is taken out of a sum.
LEMMA SumAt ==
  ASSUME NEW S, IsFiniteSet(S), NEW f, \A x \in S : f[x] \in Nat, NEW x \in S
  PROVE  /\ SumFunctionOnSet(f, S) = SumFunctionOnSet(f, S \ {x}) + f[x]
         /\ SumFunctionOnSet(f, S \ {x}) \in Nat
<1>1. PICK R : R = S \ {x}
  OBVIOUS
<1>2. PICK X : X = {x}
  OBVIOUS
<1>3. R \union X = S /\ R \cap X = {} /\ IsFiniteSet(R) /\ IsFiniteSet(X)
  BY <1>1, <1>2, FS_Subset, FS_Singleton
<1>4. SumFunctionOnSet(f, R \union X) = SumFunctionOnSet(f, R) + SumFunctionOnSet(f, X)
  BY <1>3, SumSplit
<1>5. SumFunctionOnSet(f, X) = f[x]
  BY <1>2, SumOne
<1>6. SumFunctionOnSet(f, R) \in Nat
  BY <1>1, <1>3, SumNat
<1> QED BY <1>1, <1>3, <1>4, <1>5, <1>6

\* The value of one element is replaced, and no other grows.
LEMMA SumReplace ==
  ASSUME NEW S, IsFiniteSet(S), NEW f, NEW g, NEW x \in S,
         \A y \in S : f[y] \in Nat /\ g[y] \in Nat, \A y \in S : y # x => g[y] <= f[y]
  PROVE  SumFunctionOnSet(g, S) + f[x] <= SumFunctionOnSet(f, S) + g[x]
<1>1. PICK R : R = S \ {x}
  OBVIOUS
<1>2. IsFiniteSet(R) /\ \A y \in R : f[y] \in Nat /\ g[y] \in Nat /\ g[y] <= f[y]
  BY <1>1, FS_Subset
<1>3. SumFunctionOnSet(g, R) <= SumFunctionOnSet(f, R)
  BY <1>2, SumMonotone
<1>4. SumFunctionOnSet(f, S) = SumFunctionOnSet(f, R) + f[x] /\ SumFunctionOnSet(f, R) \in Nat
  BY <1>1, SumAt
<1>5. SumFunctionOnSet(g, S) = SumFunctionOnSet(g, R) + g[x] /\ SumFunctionOnSet(g, R) \in Nat
  BY <1>1, SumAt
<1>6. f[x] \in Nat /\ g[x] \in Nat
  OBVIOUS
<1> QED BY <1>3, <1>4, <1>5, <1>6

-----------------------------------------------------------------------------
(* The memory of the peer *)

\* A block is sent of an operation that has one.
HasBlock(op) == op.sendBlock => op.link \in Blocks

\* The size of a message counts at least the blocks it has.
Sized(b) ==
  /\ b.blocks \subseteq Blocks
  /\ b.blkSize \in Nat
  /\ SumFunctionOnSet(BlockSize, b.blocks) <= b.blkSize

Pending == [caller : Callers, call : Nat, size : Nat]

\* What is buffered is counted, and nothing is granted beyond the limit.
Counted ==
  /\ memory \in Nat /\ memory <= MaxPerPeer
  /\ freed \in Nat
  /\ Sized(message)
  /\ \A i \in DOMAIN builders : Sized(builders[i])

\* The allocations that are pending are for operations that have begun, and a caller
\* that is blocked on one asked for the size of its operation.
Asked ==
  /\ \A c \in Callers : HasBlock(caller[c].op)
  /\ waiting \in Seq(Pending)
  /\ \A i \in DOMAIN waiting : waiting[i].call <= calls[waiting[i].caller]
  /\ \A c \in Callers : \A i \in DOMAIN waiting :
       BlockedOn(c, i) => waiting[i].size = Size(caller[c].op)

MInv == Counted /\ Asked /\ MemoryCoversBuffers

\* The size of an operation is a number and counts its block.
LEMMA OperationSize ==
  ASSUME NEW op \in OperationType, HasBlock(op)
  PROVE  /\ BlockBytes(op) \in Nat /\ Size(op) \in Nat /\ BlockBytes(op) <= Size(op)
<1>1. op.sendBlock \in BOOLEAN /\ op.extension \in Nat
  BY DEF OperationType
<1>2. BlockBytes(op) \in Nat
  BY <1>1, QueueAssumption DEF BlockBytes, HasBlock
<1> QED BY <1>1, <1>2 DEF Size

\* The callers are finitely many.
LEMMA CallersFinite == IsFiniteSet(Callers) /\ IsFiniteSet(Requests) /\ IsFiniteSet(Blocks)
<1>1. IsFiniteSet(Requests) /\ IsFiniteSet(Blocks)
  BY QueueAssumption
<1>2. IsFiniteSet({Requestor})
  BY FS_Singleton
<1> QED BY <1>1, <1>2, FS_Union DEF Callers

\* What a caller is about to build counts against the memory.
BytesOf(k) == IF k.at = "build" THEN Size(k.op) ELSE 0

\* The memory that was granted to callers, as a sum over them.
LEMMA GrantedIs ==
  ASSUME NEW p \in [Callers -> CallerType], \A c \in Callers : HasBlock(p[c].op)
  PROVE  \E f : /\ f = [c \in Callers |-> BytesOf(p[c])]
                /\ \A c \in Callers : f[c] = BytesOf(p[c]) /\ f[c] \in Nat
                /\ GrantedBytes(p) = SumFunctionOnSet(f, Callers)
                /\ GrantedBytes(p) \in Nat
<1>1. PICK f : f = [c \in Callers |-> BytesOf(p[c])]
  OBVIOUS
<1>2. DOMAIN f = Callers /\ \A c \in Callers : f[c] = BytesOf(p[c])
  BY <1>1
<1>3. GrantedBytes(p) = SumFunctionOnSet(f, Callers)
  BY <1>1, <1>2, Zenon DEF GrantedBytes, SumFunction, BytesOf
<1>4. ASSUME NEW c \in Callers PROVE f[c] \in Nat
  <2>1. p[c].op \in OperationType
    BY DEF CallerType
  <2>2. Size(p[c].op) \in Nat
    BY <2>1, OperationSize
  <2> QED BY <1>2, <2>2 DEF BytesOf
<1>5. SumFunctionOnSet(f, Callers) \in Nat
  BY <1>4, CallersFinite, SumNat
<1> QED BY <1>1, <1>2, <1>3, <1>4, <1>5

\* One caller goes on, the others stay.
LEMMA GrantedMoves ==
  ASSUME NEW p \in [Callers -> CallerType], \A c \in Callers : HasBlock(p[c].op),
         NEW q \in [Callers -> CallerType], \A c \in Callers : HasBlock(q[c].op),
         NEW c \in Callers, \A d \in Callers \ {c} : q[d] = p[d]
  PROVE  GrantedBytes(q) + BytesOf(p[c]) <= GrantedBytes(p) + BytesOf(q[c])
<1>1. PICK f : /\ \A d \in Callers : f[d] = BytesOf(p[d]) /\ f[d] \in Nat
               /\ GrantedBytes(p) = SumFunctionOnSet(f, Callers)
  BY GrantedIs
<1>2. PICK g : /\ \A d \in Callers : g[d] = BytesOf(q[d]) /\ g[d] \in Nat
               /\ GrantedBytes(q) = SumFunctionOnSet(g, Callers)
  BY GrantedIs
<1>3. \A d \in Callers : d # c => g[d] <= f[d]
  BY <1>1, <1>2
<1>4. SumFunctionOnSet(g, Callers) + f[c] <= SumFunctionOnSet(f, Callers) + g[c]
  BY <1>1, <1>2, <1>3, CallersFinite, SumReplace
<1> QED BY <1>1, <1>2, <1>4

\* The bytes of a queue of messages, as a sum over its places.
LEMMA QueueBytes ==
  ASSUME NEW q, NEW n \in Nat, DOMAIN q = 1..n, \A i \in 1..n : q[i].blkSize \in Nat
  PROVE  \E f : /\ \A i \in 1..n : f[i] = q[i].blkSize /\ f[i] \in Nat
                /\ BuilderBytes(q) = SumFunctionOnSet(f, 1..n)
                /\ BuilderBytes(q) \in Nat
<1>1. PICK f : f = [i \in DOMAIN q |-> q[i].blkSize]
  OBVIOUS
<1>2. DOMAIN f = 1..n /\ \A i \in 1..n : f[i] = q[i].blkSize /\ f[i] \in Nat
  BY <1>1
<1>3. BuilderBytes(q) = SumFunctionOnSet(f, 1..n)
  BY <1>1, <1>2, Zenon DEF BuilderBytes, SumFunction
<1>4. IsFiniteSet(1..n)
  BY FS_Interval
<1>5. SumFunctionOnSet(f, 1..n) \in Nat
  BY <1>2, <1>4, SumNat
<1> QED BY <1>2, <1>3, <1>5

\* A queue made of places of another one has no more bytes.
LEMMA QueueOfPlaces ==
  ASSUME NEW q, NEW n \in Nat, DOMAIN q = 1..n, \A i \in 1..n : q[i].blkSize \in Nat,
         NEW p, NEW m \in Nat, DOMAIN p = 1..m, \A i \in 1..m : p[i].blkSize \in Nat,
         NEW h \in Injection(1..m, 1..n), \A i \in 1..m : p[i].blkSize <= q[h[i]].blkSize
  PROVE  BuilderBytes(p) <= BuilderBytes(q)
<1>1. PICK f : /\ \A i \in 1..n : f[i] = q[i].blkSize /\ f[i] \in Nat
               /\ BuilderBytes(q) = SumFunctionOnSet(f, 1..n)
  BY QueueBytes
<1>2. PICK g : /\ \A i \in 1..m : g[i] = p[i].blkSize /\ g[i] \in Nat
               /\ BuilderBytes(p) = SumFunctionOnSet(g, 1..m)
  BY QueueBytes
<1>3. IsFiniteSet(1..n) /\ IsFiniteSet(1..m)
  BY FS_Interval
<1>4. \A i \in 1..m : h[i] \in 1..n
  BY DEF Injection
<1>5. \A i \in 1..m : g[i] <= f[h[i]]
  BY <1>1, <1>2, <1>4
<1>6. SumFunctionOnSet(g, 1..m) <= SumFunctionOnSet(f, 1..n)
  BY <1>1, <1>2, <1>3, <1>5, SumInject
<1> QED BY <1>1, <1>2, <1>6

\* One message of a queue changes in size, and no other grows.
LEMMA QueueReplaces ==
  ASSUME NEW q, NEW n \in Nat, DOMAIN q = 1..n, \A i \in 1..n : q[i].blkSize \in Nat,
         NEW p, DOMAIN p = 1..n, \A i \in 1..n : p[i].blkSize \in Nat,
         NEW x \in 1..n, \A i \in 1..n : i # x => p[i].blkSize <= q[i].blkSize
  PROVE  BuilderBytes(p) + q[x].blkSize <= BuilderBytes(q) + p[x].blkSize
<1>1. PICK f : /\ \A i \in 1..n : f[i] = q[i].blkSize /\ f[i] \in Nat
               /\ BuilderBytes(q) = SumFunctionOnSet(f, 1..n)
  BY QueueBytes
<1>2. PICK g : /\ \A i \in 1..n : g[i] = p[i].blkSize /\ g[i] \in Nat
               /\ BuilderBytes(p) = SumFunctionOnSet(g, 1..n)
  BY QueueBytes
<1>3. IsFiniteSet(1..n)
  BY FS_Interval
<1>4. SumFunctionOnSet(g, 1..n) + f[x] <= SumFunctionOnSet(f, 1..n) + g[x]
  BY <1>1, <1>2, <1>3, SumReplace
<1> QED BY <1>1, <1>2, <1>4

\* A queue without one of its messages.
LEMMA QueueWithout ==
  ASSUME NEW q, NEW n \in Nat, DOMAIN q = 1..n, \A i \in 1..n : q[i].blkSize \in Nat,
         NEW p, NEW m \in Nat, DOMAIN p = 1..m, \A i \in 1..m : p[i].blkSize \in Nat,
         NEW x \in 1..n, NEW h \in Injection(1..m, (1..n) \ {x}),
         \A i \in 1..m : p[i].blkSize <= q[h[i]].blkSize
  PROVE  BuilderBytes(p) + q[x].blkSize <= BuilderBytes(q)
<1>1. PICK f : /\ \A i \in 1..n : f[i] = q[i].blkSize /\ f[i] \in Nat
               /\ BuilderBytes(q) = SumFunctionOnSet(f, 1..n)
  BY QueueBytes
<1>2. PICK g : /\ \A i \in 1..m : g[i] = p[i].blkSize /\ g[i] \in Nat
               /\ BuilderBytes(p) = SumFunctionOnSet(g, 1..m) /\ BuilderBytes(p) \in Nat
  BY QueueBytes
<1>3. PICK R : R = (1..n) \ {x}
  OBVIOUS
<1>4. IsFiniteSet(1..n) /\ IsFiniteSet(1..m) /\ IsFiniteSet(R) /\ R \subseteq 1..n
  BY <1>3, FS_Interval, FS_Subset
<1>5. h \in Injection(1..m, R) /\ \A i \in 1..m : h[i] \in R
  BY <1>3 DEF Injection
<1>6. \A i \in 1..m : g[i] <= f[h[i]]
  BY <1>1, <1>2, <1>4, <1>5
<1>7. \A i \in R : f[i] \in Nat
  BY <1>1, <1>4
<1>8. SumFunctionOnSet(g, 1..m) <= SumFunctionOnSet(f, R)
  BY <1>2, <1>4, <1>5, <1>6, <1>7, SumInject
<1>9. /\ SumFunctionOnSet(f, 1..n) = SumFunctionOnSet(f, (1..n) \ {x}) + f[x]
      /\ SumFunctionOnSet(f, (1..n) \ {x}) \in Nat
  BY <1>1, <1>4, SumAt
<1>10. SumFunctionOnSet(f, 1..n) = SumFunctionOnSet(f, R) + f[x] /\ SumFunctionOnSet(f, R) \in Nat
  BY <1>3, <1>9
<1>11. f[x] = q[x].blkSize /\ f[x] \in Nat
  BY <1>1
<1> QED BY <1>1, <1>2, <1>8, <1>10, <1>11

\* A message joins the queue.
LEMMA QueueGrows ==
  ASSUME NEW q, NEW n \in Nat, DOMAIN q = 1..(n - 1), \A i \in 1..(n - 1) : q[i].blkSize \in Nat,
         NEW p, DOMAIN p = 1..n, \A i \in 1..n : p[i].blkSize \in Nat, n > 0,
         \A i \in 1..(n - 1) : p[i].blkSize = q[i].blkSize
  PROVE  BuilderBytes(p) = BuilderBytes(q) + p[n].blkSize
<1>1. n - 1 \in Nat /\ n \in 1..n /\ (1..n) \ {n} = 1..(n - 1)
  OBVIOUS
<1>2. PICK f : /\ \A i \in 1..(n - 1) : f[i] = q[i].blkSize /\ f[i] \in Nat
               /\ BuilderBytes(q) = SumFunctionOnSet(f, 1..(n - 1))
  BY <1>1, QueueBytes
<1>3. PICK g : /\ \A i \in 1..n : g[i] = p[i].blkSize /\ g[i] \in Nat
               /\ BuilderBytes(p) = SumFunctionOnSet(g, 1..n)
  BY QueueBytes
<1>4. IsFiniteSet(1..n) /\ IsFiniteSet(1..(n - 1))
  BY <1>1, FS_Interval
<1>5. SumFunctionOnSet(g, 1..n) = SumFunctionOnSet(g, (1..n) \ {n}) + g[n]
  <2>1. PICK S : S = 1..n
    OBVIOUS
  <2>2. IsFiniteSet(S) /\ n \in S /\ \A i \in S : g[i] \in Nat
    BY <1>1, <1>3, <1>4, <2>1
  <2>3. SumFunctionOnSet(g, S) = SumFunctionOnSet(g, S \ {n}) + g[n]
    BY <2>2, SumAt
  <2> QED BY <2>1, <2>3
<1>6. \A i \in 1..(n - 1) : i \in 1..n /\ f[i] \in Nat /\ g[i] = f[i]
  BY <1>1, <1>2, <1>3
<1>7. SumFunctionOnSet(f, 1..(n - 1)) = SumFunctionOnSet(g, 1..(n - 1))
  BY <1>4, <1>6, SumSame
<1> QED BY <1>1, <1>2, <1>3, <1>5, <1>7

\* The blocks of a message are finitely many, and a part of them is not larger.
LEMMA BlocksSum ==
  ASSUME NEW B \in SUBSET Blocks, NEW A \in SUBSET B
  PROVE  /\ IsFiniteSet(B) /\ \A x \in B : BlockSize[x] \in Nat
         /\ SumFunctionOnSet(BlockSize, A) \in Nat
         /\ SumFunctionOnSet(BlockSize, B) \in Nat
         /\ SumFunctionOnSet(BlockSize, A) <= SumFunctionOnSet(BlockSize, B)
<1>1. IsFiniteSet(B) /\ IsFiniteSet(A)
  BY CallersFinite, FS_Subset
<1>2. /\ \A x \in B : BlockSize[x] \in Nat
      /\ \A x \in A : BlockSize[x] \in Nat
  BY QueueAssumption
<1> DEFINE h == [x \in A |-> x]
<1>3. h \in Injection(A, B) /\ \A x \in A : BlockSize[x] <= BlockSize[h[x]]
  BY <1>2 DEF Injection, IsInjective
<1> HIDE DEF h
<1>4. SumFunctionOnSet(BlockSize, A) <= SumFunctionOnSet(BlockSize, B)
  BY <1>1, <1>2, <1>3, SumInject
<1> QED BY <1>1, <1>2, <1>4, SumNat

\* A message that nothing was added to has no size.
LEMMA NewIsSized == Sized(NewBuilder) /\ NewBuilder.blkSize = 0
<1>1. NewBuilder.blocks = {} /\ NewBuilder.blkSize = 0
  BY DEF NewBuilder
<1> QED BY <1>1, SumEmpty DEF Sized

\* A block that joins a message is counted, once more if it was there.
LEMMA AddedSized ==
  ASSUME NEW b, Sized(b), NEW c, NEW op \in OperationType, HasBlock(op)
  PROVE  Sized(Added(b, c, op)) /\ Added(b, c, op).blkSize = b.blkSize + BlockBytes(op)
<1> DEFINE a == Added(b, c, op)
<1>1. /\ a.blocks = IF op.sendBlock THEN b.blocks \union {op.link} ELSE b.blocks
      /\ a.blkSize = b.blkSize + BlockBytes(op)
  BY DEF Added
<1> HIDE DEF a
<1>2. BlockBytes(op) \in Nat /\ b.blkSize \in Nat /\ op.sendBlock \in BOOLEAN
  BY OperationSize DEF Sized, OperationType
<1>3. a.blkSize \in Nat /\ a.blocks \subseteq Blocks
  BY <1>1, <1>2 DEF Sized, HasBlock
<1>4. SumFunctionOnSet(BlockSize, b.blocks) \in Nat
        /\ SumFunctionOnSet(BlockSize, b.blocks) <= b.blkSize
  BY BlocksSum DEF Sized
<1>5. CASE a.blocks = b.blocks
  <2>1. SumFunctionOnSet(BlockSize, a.blocks) <= a.blkSize
    BY <1>1, <1>2, <1>4, <1>5
  <2>2. Sized(a)
    BY <1>3, <2>1 DEF Sized
  <2> QED BY <1>1, <2>2 DEF a
<1>6. CASE op.sendBlock /\ op.link \notin b.blocks
  <2>1. PICK B : B = b.blocks
    OBVIOUS
  <2>2. PICK X : X = {op.link}
    OBVIOUS
  <2>3. /\ B \in SUBSET Blocks /\ op.link \in Blocks /\ B \cap X = {} /\ a.blocks = B \union X
        /\ BlockSize[op.link] = BlockBytes(op)
    BY <1>1, <1>6, <2>1, <2>2 DEF Sized, HasBlock, BlockBytes
  <2>4. /\ IsFiniteSet(B) /\ IsFiniteSet(X)
        /\ \A x \in B \union X : BlockSize[x] \in Nat
    <3>1. IsFiniteSet(B) /\ \A x \in B : BlockSize[x] \in Nat
      BY <2>3, BlocksSum
    <3>2. IsFiniteSet(X)
      BY <2>2, FS_Singleton
    <3> QED BY <1>2, <2>2, <2>3, <3>1, <3>2
  <2>5. SumFunctionOnSet(BlockSize, B \union X)
          = SumFunctionOnSet(BlockSize, B) + SumFunctionOnSet(BlockSize, X)
    BY <2>3, <2>4, SumSplit
  <2>6. SumFunctionOnSet(BlockSize, X) = BlockBytes(op)
    BY <1>2, <2>2, <2>3, SumOne
  <2>7. SumFunctionOnSet(BlockSize, a.blocks) <= a.blkSize
    <3>1. SumFunctionOnSet(BlockSize, a.blocks)
            = SumFunctionOnSet(BlockSize, b.blocks) + BlockBytes(op)
      BY <2>1, <2>3, <2>5, <2>6, Zenon
    <3> QED BY <1>1, <1>2, <1>4, <3>1
  <2>8. Sized(a)
    BY <1>3, <2>7 DEF Sized
  <2> QED BY <1>1, <2>8 DEF a
<1>7. a.blocks = b.blocks \/ (op.sendBlock /\ op.link \notin b.blocks)
  BY <1>1, <1>2
<1> QED BY <1>5, <1>6, <1>7

\* Scrubbing recomputes the size from the blocks that are left, and never adds to it.
LEMMA ScrubbedSized ==
  ASSUME NEW b, Sized(b), NEW scrub
  PROVE  /\ Sized(Scrubbed(b, scrub))
         /\ Scrubbed(b, scrub).blkSize \in Nat /\ Scrubbed(b, scrub).blkSize <= b.blkSize
<1> DEFINE s == Scrubbed(b, scrub)
<1>1. s.blocks \subseteq b.blocks /\ s.blkSize = SumFunctionOnSet(BlockSize, s.blocks)
  BY DEF Scrubbed
<1> HIDE DEF s
<1>2. /\ SumFunctionOnSet(BlockSize, s.blocks) \in Nat
      /\ SumFunctionOnSet(BlockSize, b.blocks) \in Nat
      /\ SumFunctionOnSet(BlockSize, s.blocks) <= SumFunctionOnSet(BlockSize, b.blocks)
  BY <1>1, BlocksSum DEF Sized
<1>3. s.blkSize \in Nat /\ s.blkSize <= b.blkSize
  BY <1>1, <1>2 DEF Sized
<1>4. Sized(s)
  BY <1>1, <1>2, <1>3 DEF Sized
<1> QED BY <1>3, <1>4 DEF s

-----------------------------------------------------------------------------
(* Releases *)

\* A non-empty set of natural numbers with a bound has a greatest element.
LEMMA MaxIs ==
  ASSUME NEW n \in Nat, NEW S \in SUBSET (0..n), S # {}
  PROVE  Max(S) \in S
<1> DEFINE T == {n - x : x \in S}
<1>1. T \subseteq Nat /\ T # {}
  <2>1. \A x \in S : n - x \in Nat
    OBVIOUS
  <2>2. T \subseteq Nat
    BY <2>1
  <2>3. PICK x \in S : TRUE
    OBVIOUS
  <2>4. n - x \in T
    OBVIOUS
  <2> QED BY <2>2, <2>4
<1>2. PICK t \in T : \A u \in T : t <= u
  <2> HIDE DEF T
  <2> QED BY <1>1, Least
<1>3. PICK x \in S : t = n - x
  BY <1>2
<1>4. ASSUME NEW y \in S PROVE x >= y
  <2>1. n - y \in T
    OBVIOUS
  <2>2. n - x <= n - y /\ x \in 0..n /\ y \in 0..n
    BY <1>2, <1>3, <2>1
  <2> QED BY <2>2
<1> QED BY <1>4 DEF Max

\* The pending allocations up to the n-th, as a sum over them.
LEMMA WaitingIs ==
  ASSUME waiting \in Seq(Pending), NEW n \in 0..Len(waiting)
  PROVE  \E f : /\ \A i \in 1..n : f[i] = waiting[i].size /\ f[i] \in Nat /\ i \in DOMAIN waiting
                /\ WaitingBytes(n) = SumFunctionOnSet(f, 1..n)
                /\ WaitingBytes(n) \in Nat /\ (n = 0 => WaitingBytes(n) = 0)
<1>1. PICK f : f = [i \in 1..n |-> waiting[i].size]
  OBVIOUS
<1>2. DOMAIN f = 1..n /\ \A i \in 1..n : f[i] = waiting[i].size
  BY <1>1
<1>3. WaitingBytes(n) = SumFunctionOnSet(f, 1..n)
  BY <1>1, <1>2, Zenon DEF WaitingBytes, SumFunction
<1>4. ASSUME NEW i \in 1..n PROVE f[i] \in Nat /\ i \in DOMAIN waiting
  <2>1. Len(waiting) \in Nat /\ DOMAIN waiting = 1..Len(waiting)
    OBVIOUS
  <2>2. i \in DOMAIN waiting
    BY <2>1
  <2>3. waiting[i] \in Pending
    BY <2>2
  <2> QED BY <1>2, <2>2, <2>3 DEF Pending
<1>5. n \in Nat /\ IsFiniteSet(1..n)
  BY FS_Interval
<1>6. SumFunctionOnSet(f, 1..n) \in Nat
  BY <1>4, <1>5, SumNat
<1>7. n = 0 => SumFunctionOnSet(f, 1..n) = 0
  <2>1. n = 0 => 1..n = {}
    OBVIOUS
  <2> QED BY <2>1, SumEmpty
<1> QED BY <1>2, <1>3, <1>4, <1>6, <1>7

\* A release of amount grants the n oldest of the pending allocations.
Granting(n, amount) ==
  /\ n \in 0..Len(waiting)
  /\ WaitingBytes(n) \in Nat
  /\ memory' = (memory - amount) + WaitingBytes(n)
  /\ memory' \in Nat /\ memory' <= MaxPerPeer
  /\ waiting' = SubSeq(waiting, n + 1, Len(waiting))
  /\ caller' = [c \in Callers |->
                  IF \E i \in 1..n : BlockedOn(c, i)
                    THEN [caller[c] EXCEPT !.at = "build"] ELSE caller[c]]

\* A release of no more than what the peer holds grants what fits the limit.
LEMMA ReleaseGrants ==
  ASSUME memory \in Nat, memory <= MaxPerPeer, waiting \in Seq(Pending), NEW amount \in Nat,
         amount <= memory, ReleaseBlockMemory(amount)
  PROVE  \E n : Granting(n, amount)
<1>1. PICK left : left = IF memory >= amount THEN memory - amount ELSE 0
  OBVIOUS
<1>2. left = memory - amount /\ left \in Nat /\ left <= MaxPerPeer /\ MaxPerPeer \in Nat
  BY <1>1, QueueAssumption
<1>3. PICK S : S = {n \in 0..Len(waiting) : left + WaitingBytes(n) <= MaxPerPeer} \union {0}
  OBVIOUS
<1>4. PICK granted : granted = Max(S)
  OBVIOUS
<1>5. Len(waiting) \in Nat
  OBVIOUS
<1>6. S \in SUBSET (0..Len(waiting)) /\ S # {}
  BY <1>3, <1>5
<1>7. granted \in S
  BY <1>4, <1>5, <1>6, MaxIs
<1>8. granted \in 0..Len(waiting)
  BY <1>6, <1>7
<1>9. WaitingBytes(granted) \in Nat /\ (granted = 0 => WaitingBytes(granted) = 0)
  BY <1>8, WaitingIs
<1>10. left + WaitingBytes(granted) <= MaxPerPeer
  <2>1. granted = 0 \/ left + WaitingBytes(granted) <= MaxPerPeer
    BY <1>3, <1>7
  <2> QED BY <1>2, <1>9, <2>1
<1>11. /\ memory' = left + WaitingBytes(granted)
       /\ waiting' = SubSeq(waiting, granted + 1, Len(waiting))
       /\ caller' = [c \in Callers |->
                       IF \E i \in 1..granted : BlockedOn(c, i)
                         THEN [caller[c] EXCEPT !.at = "build"] ELSE caller[c]]
  BY <1>1, <1>3, <1>4, Zenon DEF ReleaseBlockMemory
<1>12. memory' \in Nat /\ memory' <= MaxPerPeer
  BY <1>2, <1>9, <1>10, <1>11
<1>13. Granting(granted, amount)
  BY <1>2, <1>8, <1>9, <1>11, <1>12 DEF Granting
<1> QED BY <1>13

\* What is left of the pending allocations when the n oldest are granted.
LEMMA RestOfWaiting ==
  ASSUME waiting \in Seq(Pending), NEW n \in 0..Len(waiting),
         waiting' = SubSeq(waiting, n + 1, Len(waiting))
  PROVE  /\ waiting' \in Seq(Pending)
         /\ \A i \in DOMAIN waiting' : i + n \in DOMAIN waiting /\ waiting'[i] = waiting[i + n]
<1>1. PICK l \in Nat : l = Len(waiting) /\ n \in Nat /\ n <= l
  OBVIOUS
<1>2. \A i \in (n + 1)..l : waiting[i] \in Pending
  <2>1. \A i \in (n + 1)..l : i \in 1..l
    BY <1>1
  <2> QED BY <1>1, <2>1
<1>3. PICK w : w = SubSeq(waiting, n + 1, l)
  OBVIOUS
<1>4. /\ w \in Seq(Pending) /\ Len(w) = IF n + 1 <= l THEN l - (n + 1) + 1 ELSE 0
      /\ \A i \in 1..(l - (n + 1) + 1) : w[i] = waiting[(n + 1) + i - 1]
  BY <1>1, <1>2, <1>3, SubSeqProperties
<1>5. Len(w) = l - n /\ DOMAIN w = 1..(l - n)
  BY <1>1, <1>4
<1>6. ASSUME NEW i \in 1..(l - n) PROVE i + n \in 1..l /\ w[i] = waiting[i + n]
  <2>1. i + n \in 1..l /\ (n + 1) + i - 1 = i + n /\ i \in 1..(l - (n + 1) + 1)
    BY <1>1
  <2> QED BY <1>4, <2>1
<1>7. waiting' = w /\ DOMAIN waiting = 1..l
  BY <1>1, <1>3
<1> QED BY <1>4, <1>5, <1>6, <1>7

\* The callers that a release lets go on asked for what was granted.
LEMMA GrantingCovers ==
  ASSUME caller \in [Callers -> CallerType], Asked, NEW n, NEW amount, Granting(n, amount)
  PROVE  /\ caller' \in [Callers -> CallerType]
         /\ \A c \in Callers : /\ caller'[c].op = caller[c].op /\ HasBlock(caller'[c].op)
                               /\ caller'[c].at = "waiting" => caller'[c] = caller[c]
         /\ GrantedBytes(caller') <= GrantedBytes(caller) + WaitingBytes(n)
<1>1. \A k \in CallerType : /\ [k EXCEPT !.at = "build"] \in CallerType
                            /\ [k EXCEPT !.at = "build"].at = "build"
                            /\ [k EXCEPT !.at = "build"].op = k.op
  BY DEF CallerType
<1> DEFINE G == {c \in Callers : \E i \in 1..n : BlockedOn(c, i)}
<1>2. \A c \in Callers : /\ c \in G => caller'[c] = [caller[c] EXCEPT !.at = "build"]
                         /\ c \notin G => caller'[c] = caller[c]
  BY DEF Granting
<1>3. ASSUME NEW c \in Callers
      PROVE  /\ caller'[c] \in CallerType /\ caller'[c].op = caller[c].op
             /\ c \in G => caller'[c].at = "build" /\ caller[c].at = "waiting"
             /\ c \notin G => caller'[c] = caller[c]
  <2>1. caller[c] \in CallerType
    OBVIOUS
  <2>2. c \in G => caller[c].at = "waiting"
    BY DEF BlockedOn
  <2> HIDE DEF G
  <2> QED BY <1>1, <1>2, <2>1, <2>2
<1>4. G \subseteq Callers
  OBVIOUS
<1>5. ASSUME NEW c \in G PROVE \E i \in 1..n : BlockedOn(c, i)
  OBVIOUS
<1> HIDE DEF G
<1>6. caller' \in [Callers -> CallerType]
  <2>1. DOMAIN caller' = Callers /\ caller' = [c \in Callers |-> caller'[c]]
    BY DEF Granting
  <2> QED BY <1>3, <2>1
<1>7. \A c \in Callers : HasBlock(caller'[c].op) /\ HasBlock(caller[c].op)
  BY <1>3 DEF Asked
<1>8. PICK f : /\ \A c \in Callers : f[c] = BytesOf(caller[c]) /\ f[c] \in Nat
               /\ GrantedBytes(caller) = SumFunctionOnSet(f, Callers)
  BY <1>7, GrantedIs
<1>9. PICK g : /\ \A c \in Callers : g[c] = BytesOf(caller'[c]) /\ g[c] \in Nat
               /\ GrantedBytes(caller') = SumFunctionOnSet(g, Callers)
  BY <1>6, <1>7, GrantedIs
<1>10. PICK R : R = Callers \ G
  OBVIOUS
<1>11. /\ G \union R = Callers /\ G \cap R = {} /\ IsFiniteSet(G) /\ IsFiniteSet(R)
       /\ \A c \in G : f[c] \in Nat /\ g[c] \in Nat
       /\ \A c \in R : f[c] \in Nat /\ g[c] \in Nat
       /\ \A c \in G \union R : f[c] \in Nat /\ g[c] \in Nat
  <2>1. G \union R = Callers /\ G \cap R = {} /\ R \subseteq Callers
    BY <1>4, <1>10
  <2>2. IsFiniteSet(G) /\ IsFiniteSet(R)
    BY <1>4, <2>1, CallersFinite, FS_Subset
  <2> QED BY <1>4, <1>8, <1>9, <2>1, <2>2
<1>12. /\ SumFunctionOnSet(f, G \union R) = SumFunctionOnSet(f, G) + SumFunctionOnSet(f, R)
       /\ SumFunctionOnSet(g, G \union R) = SumFunctionOnSet(g, G) + SumFunctionOnSet(g, R)
  BY <1>11, SumSplit
<1>13. SumFunctionOnSet(f, R) = SumFunctionOnSet(g, R)
  <2>1. \A c \in R : f[c] \in Nat /\ g[c] = f[c]
    BY <1>3, <1>8, <1>9, <1>10
  <2> QED BY <1>11, <2>1, SumSame
<1>14. SumFunctionOnSet(g, G) <= WaitingBytes(n)
  <2>1. n \in 0..Len(waiting) /\ waiting \in Seq(Pending) /\ n \in Nat
    BY DEF Granting, Asked
  <2>2. PICK w : /\ \A i \in 1..n : w[i] = waiting[i].size /\ w[i] \in Nat /\ i \in DOMAIN waiting
                 /\ WaitingBytes(n) = SumFunctionOnSet(w, 1..n)
    BY <2>1, WaitingIs
  <2> DEFINE h == [c \in G |-> CHOOSE i \in 1..n : BlockedOn(c, i)]
  <2>3. ASSUME NEW c \in G PROVE h[c] \in 1..n /\ BlockedOn(c, h[c])
    BY <1>5
  <2>4. h \in [G -> 1..n]
    BY <2>3
  <2> HIDE DEF h
  <2>5. h \in Injection(G, 1..n)
    <3>1. \A c, d \in G : h[c] = h[d] => c = d
      BY <2>3 DEF BlockedOn
    <3> QED BY <2>4, <3>1 DEF Injection, IsInjective
  <2>6. ASSUME NEW c \in G PROVE g[c] <= w[h[c]]
    <3>1. c \in Callers /\ h[c] \in 1..n /\ h[c] \in DOMAIN waiting /\ BlockedOn(c, h[c])
      BY <1>4, <2>2, <2>3
    <3>2. waiting[h[c]].size = Size(caller[c].op)
      BY <3>1 DEF Asked
    <3>3. g[c] = Size(caller[c].op)
      BY <1>3, <1>9, <3>1 DEF BytesOf
    <3>4. g[c] = w[h[c]] /\ g[c] \in Nat
      BY <1>9, <2>2, <3>1, <3>2, <3>3
    <3> QED BY <3>4
  <2>7. IsFiniteSet(1..n)
    BY <2>1, FS_Interval
  <2>8. SumFunctionOnSet(g, G) <= SumFunctionOnSet(w, 1..n)
    BY <1>11, <2>2, <2>5, <2>6, <2>7, SumInject
  <2> QED BY <2>2, <2>8
<1>15. /\ SumFunctionOnSet(f, G) \in Nat /\ SumFunctionOnSet(f, R) \in Nat
       /\ SumFunctionOnSet(g, G) \in Nat /\ WaitingBytes(n) \in Nat
  BY <1>11, SumNat DEF Granting
<1>16. GrantedBytes(caller') <= GrantedBytes(caller) + WaitingBytes(n)
  <2>1. /\ GrantedBytes(caller) = SumFunctionOnSet(f, G) + SumFunctionOnSet(f, R)
        /\ GrantedBytes(caller') = SumFunctionOnSet(g, G) + SumFunctionOnSet(f, R)
    BY <1>8, <1>9, <1>11, <1>12, <1>13, Zenon
  <2> QED BY <1>14, <1>15, <2>1
<1> QED BY <1>3, <1>6, <1>7, <1>16

\* The callers that are still blocked asked for what is still pending.
LEMMA GrantingAsked ==
  ASSUME caller \in [Callers -> CallerType], Asked, NEW n, NEW amount, Granting(n, amount),
         calls' = calls
  PROVE  Asked'
<1>1. /\ waiting' \in Seq(Pending)
      /\ \A i \in DOMAIN waiting' : i + n \in DOMAIN waiting /\ waiting'[i] = waiting[i + n]
  BY RestOfWaiting DEF Granting, Asked
<1>2. \A c \in Callers : /\ HasBlock(caller'[c].op)
                         /\ caller'[c].at = "waiting" => caller'[c] = caller[c]
  BY GrantingCovers
<1>3. ASSUME NEW c \in Callers, NEW i \in DOMAIN waiting', BlockedOn(c, i)'
      PROVE  waiting'[i].size = Size(caller'[c].op)
  <2>1. /\ caller'[c] = caller[c] /\ caller[c].at = "waiting"
        /\ waiting'[i].caller = c /\ waiting'[i].call = calls[c]
    BY <1>2, <1>3 DEF BlockedOn
  <2>2. PICK j \in DOMAIN waiting : waiting'[i] = waiting[j]
    BY <1>1
  <2>3. BlockedOn(c, j)
    BY <2>1, <2>2 DEF BlockedOn
  <2> QED BY <2>1, <2>2, <2>3 DEF Asked
<1>4. \A i \in DOMAIN waiting' : waiting'[i].call <= calls'[waiting'[i].caller]
  BY <1>1 DEF Asked
<1> QED BY <1>1, <1>2, <1>3, <1>4 DEF Asked

\* What is counted are natural numbers.
LEMMA Amounts ==
  ASSUME Shape, Counted, Asked
  PROVE  /\ BuilderBytes(builders) \in Nat /\ GrantedBytes(caller) \in Nat
         /\ message.blkSize \in Nat /\ freed \in Nat /\ memory \in Nat
         /\ Len(builders) \in Nat /\ DOMAIN builders = 1..Len(builders)
         /\ \A i \in 1..Len(builders) : builders[i].blkSize \in Nat
<1>1. PICK S : builders \in Seq(S)
  BY DEF Shape
<1>2. Len(builders) \in Nat /\ DOMAIN builders = 1..Len(builders)
  BY <1>1
<1>3. \A i \in 1..Len(builders) : builders[i].blkSize \in Nat
  BY <1>2 DEF Counted, Sized
<1>4. BuilderBytes(builders) \in Nat
  BY <1>2, <1>3, QueueBytes
<1>5. GrantedBytes(caller) \in Nat
  BY GrantedIs DEF Shape, Asked
<1> QED BY <1>2, <1>3, <1>4, <1>5 DEF Counted, Sized

\* A message or a scrub gives back what it was counted with.
LEMMA ReleaseKeeps ==
  ASSUME Shape, MInv, Running, NEW amount \in Nat, ReleaseBlockMemory(amount),
         builders' = builders, calls' = calls, Sized(message'), freed' \in Nat,
         message'.blkSize + freed' + amount <= message.blkSize + freed
  PROVE  MInv'
<1>1. Counted /\ Asked /\ caller \in [Callers -> CallerType]
  BY DEF MInv, Shape
<1>2. /\ BuilderBytes(builders) \in Nat /\ GrantedBytes(caller) \in Nat
      /\ message.blkSize \in Nat /\ freed \in Nat /\ memory \in Nat
  BY <1>1, Amounts
<1>3. message'.blkSize \in Nat
  BY DEF Sized
<1>4. memory >= BuilderBytes(builders) + message.blkSize + freed + GrantedBytes(caller)
  BY DEF MInv, MemoryCoversBuffers
<1>5. amount <= memory
  BY <1>2, <1>3, <1>4
<1>6. PICK n : Granting(n, amount)
  BY <1>1, <1>2, <1>5, ReleaseGrants DEF Counted, Asked
<1>7. /\ memory' = (memory - amount) + WaitingBytes(n) /\ WaitingBytes(n) \in Nat
      /\ memory' \in Nat /\ memory' <= MaxPerPeer
  BY <1>6 DEF Granting
<1>8. /\ caller' \in [Callers -> CallerType] /\ \A c \in Callers : HasBlock(caller'[c].op)
      /\ GrantedBytes(caller') <= GrantedBytes(caller) + WaitingBytes(n)
  BY <1>1, <1>6, GrantingCovers
<1>9. GrantedBytes(caller') \in Nat
  BY <1>8, GrantedIs
<1>10. Asked'
  BY <1>1, <1>6, GrantingAsked
<1>11. Counted'
  BY <1>1, <1>7 DEF Counted
<1>12. memory' >= BuilderBytes(builders) + message'.blkSize + freed' + GrantedBytes(caller')
  BY <1>2, <1>3, <1>4, <1>7, <1>8, <1>9
<1>13. MemoryCoversBuffers'
  BY <1>12 DEF MemoryCoversBuffers
<1> QED BY <1>10, <1>11, <1>13 DEF MInv

\* A caller goes on without waiting for memory.
LEMMA MovesAsked ==
  ASSUME Shape, Asked, NEW c \in Callers, NEW a \in {"idle", "build", "signal"},
         NEW o \in OperationType, HasBlock(o), Goto(c, a, o), waiting' = waiting,
         calls' \in [Callers -> Nat], \A d \in Callers : calls[d] <= calls'[d],
         \A d \in Callers \ {c} : calls'[d] = calls[d]
  PROVE  /\ Asked' /\ GrantedBytes(caller') \in Nat
         /\ GrantedBytes(caller') + BytesOf(caller[c])
              <= GrantedBytes(caller) + (IF a = "build" THEN Size(o) ELSE 0)
<1>1. caller \in [Callers -> CallerType] /\ calls \in [Callers -> Nat]
  BY DEF Shape
<1>2. /\ caller' \in [Callers -> CallerType] /\ caller'[c].at = a
      /\ \A d \in Callers \ {c} : caller'[d] = caller[d]
  BY <1>1, Moves
<1>3. caller'[c].op = o
  BY <1>1 DEF Goto
<1>4. \A d \in Callers : HasBlock(caller'[d].op) /\ HasBlock(caller[d].op)
  BY <1>2, <1>3 DEF Asked
<1>5. GrantedBytes(caller') \in Nat
  BY <1>2, <1>4, GrantedIs
<1>6. GrantedBytes(caller') + BytesOf(caller[c]) <= GrantedBytes(caller) + BytesOf(caller'[c])
  BY <1>1, <1>2, <1>4, GrantedMoves
<1>7. BytesOf(caller'[c]) = IF a = "build" THEN Size(o) ELSE 0
  BY <1>2, <1>3 DEF BytesOf
<1>8. ASSUME NEW d \in Callers, NEW i \in DOMAIN waiting', BlockedOn(d, i)'
      PROVE  waiting'[i].size = Size(caller'[d].op)
  <2>1. d # c /\ caller'[d] = caller[d] /\ calls'[d] = calls[d]
    BY <1>2, <1>8 DEF BlockedOn
  <2>2. BlockedOn(d, i)
    BY <1>8, <2>1 DEF BlockedOn
  <2> QED BY <2>1, <2>2 DEF Asked
<1>9. ASSUME NEW i \in DOMAIN waiting' PROVE waiting'[i].call <= calls'[waiting'[i].caller]
  <2>1. waiting[i] \in Pending /\ waiting[i].call <= calls[waiting[i].caller]
    BY DEF Asked
  <2>2. waiting[i].caller \in Callers /\ waiting[i].call \in Nat
    BY <2>1 DEF Pending
  <2>3. /\ calls[waiting[i].caller] <= calls'[waiting[i].caller]
        /\ calls[waiting[i].caller] \in Nat /\ calls'[waiting[i].caller] \in Nat
    BY <1>1, <2>2
  <2> QED BY <2>1, <2>2, <2>3
<1>10. Asked'
  BY <1>4, <1>8, <1>9 DEF Asked
<1> QED BY <1>5, <1>6, <1>7, <1>10

-----------------------------------------------------------------------------
(* The callers and the memory *)

\* What holds after a step of a caller that leaves the messages as they are.
LEMMA StillCovered ==
  ASSUME Shape, MInv, Asked', UNCHANGED <<builders, message, freed, pc>>,
         memory' \in Nat, memory' <= MaxPerPeer, GrantedBytes(caller') \in Nat,
         GrantedBytes(caller') + memory <= GrantedBytes(caller) + memory'
  PROVE  MInv'
<1>1. Counted /\ Asked
  BY DEF MInv
<1>2. /\ BuilderBytes(builders) \in Nat /\ GrantedBytes(caller) \in Nat
      /\ message.blkSize \in Nat /\ freed \in Nat /\ memory \in Nat
  BY <1>1, Amounts
<1>3. Counted'
  BY <1>1 DEF Counted
<1>4. ASSUME Running'
      PROVE  memory' >= BuilderBytes(builders) + message.blkSize + freed + GrantedBytes(caller')
  <2>1. memory >= BuilderBytes(builders) + message.blkSize + freed + GrantedBytes(caller)
    BY <1>4 DEF MInv, MemoryCoversBuffers, Running
  <2> QED BY <1>2, <2>1
<1>5. MemoryCoversBuffers'
  BY <1>4 DEF MemoryCoversBuffers
<1> QED BY <1>3, <1>5 DEF MInv

\* An operation that begins is dropped, is granted its memory, or waits for it.
LEMMA ExecuteCovered ==
  ASSUME Shape, MInv, NEW r \in Requests, NEW op \in Operations[r], Execute(r, op)
  PROVE  MInv'
<1>1. /\ r \in Callers /\ op \in OperationType /\ HasBlock(op)
      /\ caller \in [Callers -> CallerType] /\ calls \in [Callers -> Nat]
  <2>1. HasBlock(op)
    BY QueueAssumption DEF HasBlock
  <2> QED BY <2>1, Numbers, OperationTypes DEF Shape
<1>2. Size(op) \in Nat
  BY <1>1, OperationSize
<1>3. /\ Counted /\ Asked /\ memory \in Nat /\ memory <= MaxPerPeer /\ MaxPerPeer \in Nat
      /\ GrantedBytes(caller) \in Nat
  BY Amounts, QueueAssumption DEF MInv, Counted
<1>4. /\ caller[r].at = "idle" /\ calls' = [calls EXCEPT ![r] = @ + 1]
      /\ UNCHANGED <<builders, message, freed, pc>>
  BY DEF Execute, queueVars
<1>5. /\ calls' \in [Callers -> Nat] /\ \A d \in Callers : calls[d] <= calls'[d]
      /\ \A d \in Callers \ {r} : calls'[d] = calls[d]
      /\ calls'[r] = calls[r] + 1
  BY <1>1, <1>4
<1>6. CASE UNCHANGED <<caller, waiting, memory>>
  <2>1. caller[r] \in CallerType /\ caller[r].op \in OperationType /\ HasBlock(caller[r].op)
    BY <1>1, <1>3 DEF CallerType, Asked
  <2>2. caller[r] = [at |-> "idle", op |-> caller[r].op]
    BY <1>4, <2>1 DEF CallerType
  <2>3. Goto(r, "idle", caller[r].op)
    BY <1>1, <1>6, <2>2 DEF Goto
  <2>4. Asked'
    BY <1>1, <1>3, <1>5, <1>6, <2>1, <2>3, MovesAsked
  <2>5. memory' = memory /\ caller' = caller
    BY <1>6
  <2> QED BY <1>3, <1>4, <2>4, <2>5, StillCovered
<1>7. CASE /\ Size(op) = 0 \/ memory + Size(op) <= MaxPerPeer
           /\ memory' = memory + Size(op)
           /\ Goto(r, "build", op)
           /\ waiting' = waiting
  <2>1. /\ Asked' /\ GrantedBytes(caller') \in Nat
        /\ GrantedBytes(caller') + BytesOf(caller[r]) <= GrantedBytes(caller) + Size(op)
    BY <1>1, <1>3, <1>5, <1>7, MovesAsked
  <2>2. BytesOf(caller[r]) = 0
    BY <1>4 DEF BytesOf
  <2>3. memory' \in Nat /\ memory' <= MaxPerPeer
    BY <1>2, <1>3, <1>7
  <2>4. GrantedBytes(caller') + memory <= GrantedBytes(caller) + memory'
    BY <1>2, <1>3, <1>7, <2>1, <2>2
  <2> QED BY <1>4, <2>1, <2>3, <2>4, StillCovered
<1>8. CASE /\ waiting' = Append(waiting, [caller |-> r, call |-> calls'[r], size |-> Size(op)])
           /\ Goto(r, "waiting", op)
           /\ memory' = memory
  <2>1. /\ caller' \in [Callers -> CallerType] /\ caller'[r].at = "waiting"
        /\ \A d \in Callers \ {r} : caller'[d] = caller[d]
    BY <1>1, <1>8, Moves
  <2>2. caller'[r].op = op
    BY <1>1, <1>8 DEF Goto
  <2>3. PICK e : e = [caller |-> r, call |-> calls'[r], size |-> Size(op)]
    OBVIOUS
  <2>4. e \in Pending /\ e.caller = r /\ e.call = calls'[r] /\ e.size = Size(op)
    BY <1>1, <1>2, <1>5, <2>3 DEF Pending
  <2>5. waiting \in Seq(Pending) /\ waiting' = Append(waiting, e)
    BY <1>3, <1>8, <2>3 DEF Asked
  <2>6. /\ waiting' \in Seq(Pending)
        /\ \A i \in DOMAIN waiting' : \/ i \in DOMAIN waiting /\ waiting'[i] = waiting[i]
                                      \/ waiting'[i] = e
    BY <2>4, <2>5
  <2>7. \A d \in Callers : HasBlock(caller'[d].op) /\ HasBlock(caller[d].op)
    BY <1>1, <1>3, <2>1, <2>2 DEF Asked
  <2>8. ASSUME NEW i \in DOMAIN waiting, waiting'[i] = waiting[i]
        PROVE  /\ waiting[i].caller \in Callers /\ waiting[i].call <= calls[waiting[i].caller]
               /\ waiting[i].call \in Nat /\ calls[waiting[i].caller] \in Nat
    <3>1. waiting[i] \in Pending
      BY <2>5
    <3>2. waiting[i].caller \in Callers /\ waiting[i].call \in Nat
      BY <3>1 DEF Pending
    <3> QED BY <1>1, <1>3, <3>2 DEF Asked
  <2>9. ASSUME NEW i \in DOMAIN waiting' PROVE waiting'[i].call <= calls'[waiting'[i].caller]
    <3>1. CASE waiting'[i] = e
      BY <1>1, <1>5, <2>4, <3>1
    <3>2. CASE i \in DOMAIN waiting /\ waiting'[i] = waiting[i]
      <4>1. /\ waiting[i].caller \in Callers /\ waiting[i].call <= calls[waiting[i].caller]
            /\ waiting[i].call \in Nat /\ calls[waiting[i].caller] \in Nat
        BY <2>8, <3>2
      <4>2. /\ calls[waiting[i].caller] <= calls'[waiting[i].caller]
            /\ calls'[waiting[i].caller] \in Nat
        BY <1>5, <4>1
      <4> QED BY <3>2, <4>1, <4>2
    <3> QED BY <2>6, <3>1, <3>2
  <2>10. ASSUME NEW d \in Callers, NEW i \in DOMAIN waiting', BlockedOn(d, i)'
         PROVE  waiting'[i].size = Size(caller'[d].op)
    <3>1. waiting'[i].caller = d /\ waiting'[i].call = calls'[d] /\ caller'[d].at = "waiting"
      BY <2>10 DEF BlockedOn
    <3>2. CASE waiting'[i] = e
      BY <2>2, <2>4, <3>1, <3>2
    <3>3. CASE i \in DOMAIN waiting /\ waiting'[i] = waiting[i]
      <4>1. waiting[i].call <= calls[d] /\ waiting[i].call \in Nat /\ calls[d] \in Nat
        BY <2>8, <3>1, <3>3
      <4>2. d # r
        BY <1>5, <3>1, <3>3, <4>1
      <4>3. caller'[d] = caller[d] /\ calls'[d] = calls[d]
        BY <1>5, <2>1, <4>2
      <4>4. BlockedOn(d, i)
        BY <3>1, <3>3, <4>3 DEF BlockedOn
      <4> QED BY <1>3, <3>3, <4>3, <4>4 DEF Asked
    <3> QED BY <2>6, <3>2, <3>3
  <2>11. Asked'
    BY <2>6, <2>7, <2>9, <2>10 DEF Asked
  <2>12. GrantedBytes(caller') \in Nat
    BY <2>1, <2>7, GrantedIs
  <2>13. GrantedBytes(caller') + BytesOf(caller[r]) <= GrantedBytes(caller) + BytesOf(caller'[r])
    BY <1>1, <2>1, <2>7, GrantedMoves
  <2>14. BytesOf(caller[r]) = 0 /\ BytesOf(caller'[r]) = 0
    BY <1>4, <2>1 DEF BytesOf
  <2>15. GrantedBytes(caller') + memory <= GrantedBytes(caller) + memory'
    BY <1>3, <1>8, <2>12, <2>13, <2>14
  <2> QED BY <1>3, <1>4, <1>8, <2>11, <2>12, <2>15, StillCovered
<1> QED BY <1>6, <1>7, <1>8 DEF Execute

\* The operations that no response stream asked for have no size.
LEMMA NoSize ==
  /\ HasBlock(NoOp) /\ HasBlock([NoOp EXCEPT !.adds = TRUE])
  /\ Size([NoOp EXCEPT !.adds = TRUE]) = 0
<1>1. NoOp \in OperationType /\ NoOp.sendBlock = FALSE /\ NoOp.extension = 0
  BY OperationTypes DEF NoOp
<1>2. PICK o : o = [NoOp EXCEPT !.adds = TRUE]
  OBVIOUS
<1>3. \A p \in OperationType : /\ [p EXCEPT !.adds = TRUE].sendBlock = p.sendBlock
                               /\ [p EXCEPT !.adds = TRUE].extension = p.extension
  BY DEF OperationType
<1>4. o.sendBlock = FALSE /\ o.extension = 0
  BY <1>1, <1>2, <1>3
<1>5. HasBlock(NoOp) /\ HasBlock(o)
  BY <1>1, <1>4 DEF HasBlock
<1>6. Size(o) = 0
  BY <1>4 DEF Size, BlockBytes
<1> QED BY <1>2, <1>5, <1>6

\* A caller that gives up, signals, or queues a request holds no memory for it.
LEMMA CallersCovered ==
  ASSUME Shape, MInv,
         SendRequest \/ (\E r \in Requests : AbandonWait(r)) \/ (\E c \in Callers : SignalWork(c))
  PROVE  MInv'
<1>1. /\ Counted /\ Asked /\ memory \in Nat /\ memory <= MaxPerPeer
      /\ GrantedBytes(caller) \in Nat /\ calls \in [Callers -> Nat]
  BY Amounts DEF MInv, Counted, Shape
<1>2. CASE SendRequest
  <2>1. PICK o : o = [NoOp EXCEPT !.adds = TRUE]
    OBVIOUS
  <2>2. o \in OperationType /\ HasBlock(o) /\ Size(o) = 0 /\ Requestor \in Callers
    BY <2>1, NoSize, OperationTypes, Numbers
  <2>3. /\ Goto(Requestor, "build", o) /\ calls' = [calls EXCEPT ![Requestor] = @ + 1]
        /\ UNCHANGED <<builders, message, freed, pc>> /\ waiting' = waiting /\ memory' = memory
        /\ caller[Requestor].at = "idle"
    BY <1>2, <2>1 DEF SendRequest, queueVars
  <2>4. /\ calls' \in [Callers -> Nat] /\ \A d \in Callers : calls[d] <= calls'[d]
        /\ \A d \in Callers \ {Requestor} : calls'[d] = calls[d]
    BY <1>1, <2>2, <2>3
  <2>5. /\ Asked' /\ GrantedBytes(caller') \in Nat
        /\ GrantedBytes(caller') + BytesOf(caller[Requestor]) <= GrantedBytes(caller) + Size(o)
    BY <1>1, <2>2, <2>3, <2>4, MovesAsked
  <2>6. BytesOf(caller[Requestor]) = 0
    BY <2>3 DEF BytesOf
  <2>7. GrantedBytes(caller') + memory <= GrantedBytes(caller) + memory'
    BY <1>1, <2>2, <2>3, <2>5, <2>6
  <2> QED BY <1>1, <2>3, <2>5, <2>7, StillCovered
<1>3. ASSUME NEW c \in Callers, Goto(c, "idle", NoOp), waiting' = waiting, calls' = calls,
             memory' = memory, UNCHANGED <<builders, message, freed, pc>>
      PROVE  MInv'
  <2>1. \A d \in Callers : calls[d] <= calls'[d] /\ calls'[d] = calls[d]
    BY <1>1, <1>3
  <2>2. /\ Asked' /\ GrantedBytes(caller') \in Nat
        /\ GrantedBytes(caller') + BytesOf(caller[c]) <= GrantedBytes(caller) + 0
    BY <1>1, <1>3, <2>1, NoSize, OperationTypes, MovesAsked
  <2>3. BytesOf(caller[c]) \in Nat
    <3>1. caller[c].op \in OperationType /\ HasBlock(caller[c].op)
      BY <1>1 DEF Shape, CallerType, Asked
    <3> QED BY <3>1, OperationSize DEF BytesOf
  <2>4. GrantedBytes(caller') + memory <= GrantedBytes(caller) + memory'
    BY <1>1, <1>3, <2>2, <2>3
  <2> QED BY <1>1, <1>3, <2>2, <2>4, StillCovered
<1>4. ASSUME NEW r \in Requests, AbandonWait(r) PROVE MInv'
  <2>1. r \in Callers
    BY Numbers
  <2> QED BY <1>3, <1>4, <2>1 DEF AbandonWait, queueVars
<1>5. ASSUME NEW c \in Callers, SignalWork(c) PROVE MInv'
  BY <1>3, <1>5 DEF SignalWork, queueVars
<1> QED BY <1>2, <1>4, <1>5

\* What was granted for an operation becomes part of a message, as far as it is a block.
LEMMA BuildCovered ==
  ASSUME Shape, MInv, NEW c \in Callers, BuildMessage(c)
  PROVE  MInv'
<1>1. /\ Counted /\ Asked /\ memory \in Nat /\ caller \in [Callers -> CallerType]
      /\ BuilderBytes(builders) \in Nat /\ GrantedBytes(caller) \in Nat
      /\ message.blkSize \in Nat /\ freed \in Nat /\ calls \in [Callers -> Nat]
      /\ \A i \in DOMAIN builders : Sized(builders[i]) /\ builders[i].blkSize \in Nat
  BY Amounts DEF MInv, Counted, Shape, Sized
<1>2. PICK op : op = caller[c].op
  OBVIOUS
<1>3. op \in OperationType /\ HasBlock(op) /\ caller[c].at = "build"
  BY <1>1, <1>2 DEF CallerType, Asked, BuildMessage
<1>4. BlockBytes(op) \in Nat /\ Size(op) \in Nat /\ BlockBytes(op) <= Size(op)
  BY <1>3, OperationSize
<1>5. PICK L \in Nat \ {0} : \E last : BuiltQueue(c, L, last)
  BY Builds
<1>6. PICK last : BuiltQueue(c, L, last)
  BY <1>5
<1>7. /\ memory' = memory /\ waiting' = waiting /\ calls' = calls
      /\ UNCHANGED <<message, freed, pc>>
      /\ \E a \in {"idle", "signal"} : Goto(c, a, NoOp)
  BY DEF BuildMessage, queueVars
<1>8. PICK a \in {"idle", "signal"} : Goto(c, a, NoOp)
  BY <1>7
<1>9. \A d \in Callers : calls[d] <= calls'[d] /\ calls'[d] = calls[d]
  BY <1>1, <1>7
<1>10. /\ Asked' /\ GrantedBytes(caller') \in Nat
       /\ GrantedBytes(caller') + BytesOf(caller[c]) <= GrantedBytes(caller) + 0
  BY <1>1, <1>7, <1>8, <1>9, NoSize, OperationTypes, MovesAsked
<1>11. BytesOf(caller[c]) = Size(op)
  BY <1>2, <1>3 DEF BytesOf
<1>12. Sized(last) /\ last.blkSize \in Nat
  BY <1>1, <1>6, NewIsSized DEF BuiltQueue, Sized
<1>13. PICK v : v = builders'[L]
  OBVIOUS
<1>14. Sized(v) /\ v.blkSize \in Nat /\ v.blkSize <= last.blkSize + BlockBytes(op)
  <2>1. v = last \/ v = Added(last, c, op)
    BY <1>2, <1>6, <1>13 DEF BuiltQueue
  <2>2. CASE v = last
    BY <1>4, <1>12, <2>2
  <2>3. CASE v = Added(last, c, op)
    <3>1. Sized(v) /\ v.blkSize = last.blkSize + BlockBytes(op)
      BY <1>3, <1>12, <2>3, AddedSized
    <3> QED BY <1>4, <1>12, <3>1
  <2> QED BY <2>1, <2>2, <2>3
<1>15. /\ DOMAIN builders' = 1..L /\ L \in 1..L
       /\ \A i \in 1..(L - 1) : i \in DOMAIN builders /\ builders'[i] = builders[i]
  BY <1>6 DEF BuiltQueue
<1>16. \A i \in 1..L : Sized(builders'[i]) /\ builders'[i].blkSize \in Nat
  <2>1. \A i \in 1..L : i = L \/ i \in 1..(L - 1)
    OBVIOUS
  <2> QED BY <1>1, <1>13, <1>14, <1>15, <2>1
<1>17. /\ BuilderBytes(builders') \in Nat
       /\ BuilderBytes(builders') <= BuilderBytes(builders) + BlockBytes(op)
  <2>1. BuilderBytes(builders') \in Nat
    BY <1>15, <1>16, QueueBytes
  <2>2. CASE DOMAIN builders = 1..L /\ last = builders[L]
    <3>1. \A i \in 1..L : i # L => i \in 1..(L - 1)
      OBVIOUS
    <3>2. \A i \in 1..L : i # L => builders'[i].blkSize <= builders[i].blkSize
      BY <1>1, <1>15, <3>1
    <3>3. BuilderBytes(builders') + builders[L].blkSize
            <= BuilderBytes(builders) + builders'[L].blkSize
      BY <1>1, <1>15, <1>16, <2>2, <3>2, QueueReplaces
    <3>4. BuilderBytes(builders') + last.blkSize <= BuilderBytes(builders) + v.blkSize
      BY <1>13, <2>2, <3>3
    <3>5. \A m, n, x, y, z \in Nat : m + x <= n + y /\ y <= x + z => m <= n + z
      OBVIOUS
    <3> QED BY <1>1, <1>4, <1>12, <1>14, <2>1, <3>4, <3>5
  <2>3. CASE DOMAIN builders = 1..(L - 1) /\ last = NewBuilder
    <3>1. \A i \in 1..(L - 1) :
            builders[i].blkSize \in Nat /\ builders'[i].blkSize = builders[i].blkSize
      BY <1>1, <1>15
    <3>2. BuilderBytes(builders') = BuilderBytes(builders) + builders'[L].blkSize
      BY <1>15, <1>16, <2>3, <3>1, QueueGrows
    <3>3. last.blkSize = 0
      BY <2>3, NewIsSized
    <3> QED BY <1>1, <1>4, <1>13, <1>14, <2>1, <3>2, <3>3
  <2> QED BY <1>6, <2>2, <2>3 DEF BuiltQueue
<1>18. Counted'
  BY <1>1, <1>7, <1>15, <1>16 DEF Counted
<1>19. ASSUME Running'
       PROVE  memory' >= BuilderBytes(builders') + message'.blkSize + freed' + GrantedBytes(caller')
  <2>1. memory >= BuilderBytes(builders) + message.blkSize + freed + GrantedBytes(caller)
    BY <1>7, <1>19 DEF MInv, MemoryCoversBuffers, Running
  <2>2. GrantedBytes(caller') + Size(op) <= GrantedBytes(caller)
    BY <1>1, <1>10, <1>11
  <2>3. memory' = memory /\ message'.blkSize = message.blkSize /\ freed' = freed
    BY <1>7
  <2> QED BY <1>1, <1>4, <1>10, <1>17, <2>1, <2>2, <2>3
<1>20. MemoryCoversBuffers'
  BY <1>19 DEF MemoryCoversBuffers
<1> QED BY <1>10, <1>18, <1>20 DEF MInv

-----------------------------------------------------------------------------
(* runQueue and the memory *)

\* A step that leaves what is counted as it is.
LEMMA SameAmounts ==
  ASSUME MInv, UNCHANGED <<builders, message, freed, caller, waiting, memory, calls>>,
         Running' => Running
  PROVE  MInv'
<1>1. Counted'
  BY DEF MInv, Counted
<1>2. Asked'
  BY DEF MInv, Asked, BlockedOn
<1>3. MemoryCoversBuffers'
  BY DEF MInv, MemoryCoversBuffers
<1> QED BY <1>1, <1>2, <1>3 DEF MInv

\* The steps of runQueue that only change where it is.
LEMMA QuietCovered ==
  ASSUME MInv, \/ TakeWork \/ TakeDoneAndDrain \/ InitializeSender \/ SendMsgFails \/ Recover
               \/ CloseStreams \/ Shutdown \/ CancelContext \/ UNCHANGED vars
  PROVE  MInv'
<1>1. CASE TakeWork
  BY <1>1, SameAmounts DEF TakeWork, callerVars, Running
<1>2. CASE TakeDoneAndDrain
  BY <1>2, SameAmounts DEF TakeDoneAndDrain, callerVars, Running
<1>3. CASE InitializeSender
  BY <1>3, SameAmounts DEF InitializeSender, callerVars, Running
<1>4. CASE SendMsgFails
  BY <1>4, SameAmounts DEF SendMsgFails, callerVars, Running
<1>5. CASE Recover
  BY <1>5, SameAmounts DEF Recover, callerVars, Running
<1>6. CASE CloseStreams
  BY <1>6, SameAmounts DEF CloseStreams, callerVars, Running
<1>7. CASE Shutdown
  BY <1>7, SameAmounts DEF Shutdown, callerVars, queueVars, Running
<1>8. CASE CancelContext
  BY <1>8, SameAmounts DEF CancelContext, callerVars, queueVars, Running
<1>9. CASE UNCHANGED vars
  BY <1>9, SameAmounts DEF vars, Running
<1> QED BY <1>1, <1>2, <1>3, <1>4, <1>5, <1>6, <1>7, <1>8, <1>9

\* The first message leaves the queue.
LEMMA FirstLeaves ==
  ASSUME Shape, Counted, builders # <<>>
  PROVE  /\ Head(builders) = builders[1] /\ Sized(Head(builders)) /\ Head(builders).blkSize \in Nat
         /\ \A i \in DOMAIN Tail(builders) : Sized(Tail(builders)[i])
         /\ BuilderBytes(Tail(builders)) \in Nat
         /\ BuilderBytes(Tail(builders)) + Head(builders).blkSize <= BuilderBytes(builders)
<1>1. PICK S : builders \in Seq(S)
  BY DEF Shape
<1>2. PICK t : t = Tail(builders)
  OBVIOUS
<1>3. /\ t \in Seq(S) /\ Head(builders) = builders[1] /\ 1 \in DOMAIN builders
      /\ \A i \in DOMAIN t : i + 1 \in DOMAIN builders /\ t[i] = builders[i + 1] /\ i \in Nat \ {0}
  BY <1>1, <1>2, TailIs
<1>4. /\ Len(builders) \in Nat /\ DOMAIN builders = 1..Len(builders)
      /\ Len(t) \in Nat /\ DOMAIN t = 1..Len(t)
  BY <1>1, <1>3
<1>5. \A i \in DOMAIN builders : Sized(builders[i]) /\ builders[i].blkSize \in Nat
  BY DEF Counted, Sized
<1>6. \A i \in 1..Len(t) : Sized(t[i]) /\ t[i].blkSize \in Nat
  BY <1>3, <1>4, <1>5
<1> DEFINE h == [i \in 1..Len(t) |-> i + 1]
<1>7. h \in Injection(1..Len(t), (1..Len(builders)) \ {1})
  <2>1. \A i \in 1..Len(t) : h[i] = i + 1 /\ h[i] \in (1..Len(builders)) \ {1} /\ i \in Nat
    BY <1>3, <1>4
  <2>2. h \in [1..Len(t) -> (1..Len(builders)) \ {1}]
    BY <2>1
  <2>3. \A i, j \in 1..Len(t) : h[i] = h[j] => i = j
    BY <2>1
  <2> HIDE DEF h
  <2> QED BY <2>2, <2>3 DEF Injection, IsInjective
<1>8. \A i \in 1..Len(t) : t[i].blkSize <= builders[h[i]].blkSize
  BY <1>3, <1>4, <1>5
<1> HIDE DEF h
<1>9. BuilderBytes(t) + builders[1].blkSize <= BuilderBytes(builders)
  BY <1>3, <1>4, <1>5, <1>6, <1>7, <1>8, QueueWithout
<1>10. BuilderBytes(t) \in Nat
  BY <1>4, <1>6, QueueBytes
<1> QED BY <1>2, <1>3, <1>4, <1>5, <1>6, <1>9, <1>10

\* A message that is taken off the queue is counted where it was, and then as the
\* message being sent or, when it is empty, not at all.
LEMMA ExtractCovered ==
  ASSUME Shape, MInv, pc = "extract", waiting' = waiting, memory' = memory, caller' = caller,
         calls' = calls, freed' = freed,
         \/ builders # <<>> /\ message' = Head(builders) /\ builders' = Tail(builders)
         \/ message' = message /\ builders' = IF builders = <<>> THEN <<>> ELSE Tail(builders)
  PROVE  MInv'
<1>1. /\ Counted /\ Asked /\ memory \in Nat
      /\ BuilderBytes(builders) \in Nat /\ GrantedBytes(caller) \in Nat
      /\ message.blkSize \in Nat /\ freed \in Nat
  BY Amounts DEF MInv
<1>2. memory >= BuilderBytes(builders) + message.blkSize + freed + GrantedBytes(caller)
  BY DEF MInv, MemoryCoversBuffers, Running
<1>3. Asked'
  BY <1>1 DEF Asked, BlockedOn
<1>4. CASE builders = <<>>
  <2>1. builders' = builders /\ message' = message
    BY <1>4
  <2>2. Counted'
    BY <1>1, <2>1 DEF Counted
  <2>3. MemoryCoversBuffers'
    BY <1>2, <2>1 DEF MemoryCoversBuffers
  <2> QED BY <1>3, <2>2, <2>3 DEF MInv
<1>5. CASE builders # <<>>
  <2>1. /\ Sized(Head(builders)) /\ Head(builders).blkSize \in Nat
        /\ \A i \in DOMAIN Tail(builders) : Sized(Tail(builders)[i])
        /\ BuilderBytes(Tail(builders)) \in Nat
        /\ BuilderBytes(Tail(builders)) + Head(builders).blkSize <= BuilderBytes(builders)
    BY <1>1, <1>5, FirstLeaves
  <2>2. builders' = Tail(builders) /\ (message' = Head(builders) \/ message' = message)
    BY <1>5
  <2>3. Sized(message') /\ \A i \in DOMAIN builders' : Sized(builders'[i])
    BY <1>1, <2>1, <2>2 DEF Counted
  <2>4. Counted'
    BY <1>1, <2>3 DEF Counted
  <2>5. memory' >= BuilderBytes(builders') + message'.blkSize + freed' + GrantedBytes(caller')
    <3>1. PICK b : b = BuilderBytes(builders')
      OBVIOUS
    <3>2. b \in Nat /\ b + Head(builders).blkSize <= BuilderBytes(builders)
      BY <2>1, <2>2, <3>1
    <3>3. CASE message' = Head(builders)
      <4>1. \A m, x, y, h, o, f, g \in Nat :
              m >= x + o + f + g /\ y + h <= x => m >= y + h + f + g
        OBVIOUS
      <4>2. memory >= b + Head(builders).blkSize + freed + GrantedBytes(caller)
        BY <1>1, <1>2, <2>1, <3>2, <4>1, Zenon
      <4> QED BY <3>1, <3>3, <4>2
    <3>4. CASE message' = message
      <4>1. \A m, x, y, h, o, f, g \in Nat :
              m >= x + o + f + g /\ y + h <= x => m >= y + o + f + g
        OBVIOUS
      <4>2. memory >= b + message.blkSize + freed + GrantedBytes(caller)
        BY <1>1, <1>2, <2>1, <3>2, <4>1, Zenon
      <4> QED BY <3>1, <3>4, <4>2
    <3> QED BY <2>2, <3>3, <3>4
  <2>6. MemoryCoversBuffers'
    BY <2>5 DEF MemoryCoversBuffers
  <2> QED BY <1>3, <2>4, <2>6 DEF MInv
<1> QED BY <1>4, <1>5

\* The goroutine leaves, and the peer's memory is released as a whole.
LEMMA StopCovered ==
  ASSUME Shape, MInv, ReleasePeerMemory, pc' = "stopped", message' = message, freed' = freed,
         calls' = calls,
         \/ builders' = builders
         \/ builders' = IF builders = <<>> THEN <<>> ELSE Tail(builders)
  PROVE  MInv'
<1>1. Counted /\ Asked /\ caller \in [Callers -> CallerType] /\ MaxPerPeer \in Nat
  BY QueueAssumption DEF MInv, Shape
<1>2. \A i \in DOMAIN builders' : Sized(builders'[i])
  <2>1. CASE builders' = builders
    BY <1>1, <2>1 DEF Counted
  <2>2. CASE builders # <<>> /\ builders' = Tail(builders)
    BY <1>1, <2>2, FirstLeaves
  <2> QED BY <2>1, <2>2
<1>3. memory' = 0 /\ waiting' = <<>>
  BY DEF ReleasePeerMemory
<1>4. Counted'
  BY <1>1, <1>2, <1>3 DEF Counted
<1>5. waiting' \in Seq(Pending) /\ DOMAIN waiting' = {}
  BY <1>3
<1>6. ASSUME NEW c \in Callers PROVE HasBlock(caller'[c].op)
  <2>1. \A k \in CallerType : [k EXCEPT !.at = "build"].op = k.op
    BY DEF CallerType
  <2>2. caller'[c] = caller[c] \/ caller'[c] = [caller[c] EXCEPT !.at = "build"]
    BY DEF ReleasePeerMemory
  <2>3. caller[c] \in CallerType
    BY <1>1
  <2>4. caller'[c].op = caller[c].op
    BY <2>1, <2>2, <2>3
  <2> QED BY <1>1, <2>4 DEF Asked
<1>7. Asked'
  BY <1>5, <1>6 DEF Asked
<1>8. MemoryCoversBuffers'
  BY DEF MemoryCoversBuffers, Running
<1> QED BY <1>4, <1>7, <1>8 DEF MInv

\* Scrubbing reports no more than the queued messages lose.
LEMMA ScrubCovered ==
  ASSUME Shape, MInv, ScrubResponses
  PROVE  MInv'
<1>1. /\ Counted /\ Asked /\ memory \in Nat
      /\ BuilderBytes(builders) \in Nat /\ GrantedBytes(caller) \in Nat
      /\ message.blkSize \in Nat /\ freed \in Nat
      /\ Len(builders) \in Nat /\ DOMAIN builders = 1..Len(builders)
      /\ \A i \in 1..Len(builders) : Sized(builders[i]) /\ builders[i].blkSize \in Nat
  BY Amounts DEF MInv, Counted
<1> DEFINE scrub == message.streams
           queue == ScrubbedQueue(scrub)
           kept  == {i \in DOMAIN queue : ~Empty(queue[i])}
<1>2. queue = ScrubbedQueue(scrub) /\ kept \subseteq DOMAIN queue
  OBVIOUS
<1>3. PICK n \in 0..Len(builders) : \E order \in Ascending(n, kept) :
        builders' = [k \in 1..n |-> queue[order[k]]]
  BY Zenon DEF ScrubResponses
<1>4. freed' = TotalFreed(scrub)
  BY DEF ScrubResponses
<1> HIDE DEF scrub, queue, kept
<1>5. PICK order \in Ascending(n, kept) : builders' = [k \in 1..n |-> queue[order[k]]]
  BY <1>3
<1>6. PICK l \in Nat : l = Len(builders) /\ n \in Nat
  <2>1. PICK l \in Nat : l = Len(builders)
    BY <1>1, Zenon
  <2>2. \A k \in Nat : \A m \in 0..k : m \in Nat
    OBVIOUS
  <2> QED BY <2>1, <2>2, Zenon
<1>7. DOMAIN queue = 1..l /\ \A i \in 1..l : queue[i] = Scrubbed(builders[i], scrub)
  BY <1>1, <1>2, <1>6 DEF ScrubbedQueue
<1>8. \A i \in 1..l : /\ Sized(queue[i]) /\ queue[i].blkSize \in Nat
                      /\ queue[i].blkSize <= builders[i].blkSize
  BY <1>1, <1>6, <1>7, ScrubbedSized
<1>9. order \in Injection(1..n, 1..l)
  <2>1. /\ order \in [1..n -> kept]
        /\ \A j, k \in 1..n : j < k => order[j] < order[k]
    BY <1>5 DEF Ascending, Surjection
  <2>2. order \in [1..n -> 1..l]
    BY <1>2, <1>7, <2>1
  <2>3. ASSUME NEW j \in 1..n, NEW k \in 1..n, order[j] = order[k] PROVE j = k
    <3>1. order[j] \in Nat /\ order[k] \in Nat /\ j \in Nat /\ k \in Nat
      BY <1>6, <2>2
    <3>2. ~(j < k) /\ ~(k < j)
      BY <2>1, <2>3, <3>1
    <3> QED BY <3>1, <3>2
  <2> QED BY <2>2, <2>3 DEF Injection, IsInjective
<1>10. /\ DOMAIN builders' = 1..n
       /\ \A k \in 1..n : /\ builders'[k] = queue[order[k]] /\ order[k] \in 1..l
                          /\ Sized(builders'[k]) /\ builders'[k].blkSize \in Nat
                          /\ builders'[k].blkSize <= queue[order[k]].blkSize
  <2>1. \A k \in 1..n : order[k] \in 1..l
    BY <1>9 DEF Injection
  <2>2. DOMAIN builders' = 1..n /\ \A k \in 1..n : builders'[k] = queue[order[k]]
    BY <1>5
  <2>3. \A m \in Nat : m <= m
    OBVIOUS
  <2> QED BY <1>8, <2>1, <2>2, <2>3
<1>11. BuilderBytes(builders') <= BuilderBytes(queue)
  BY <1>6, <1>7, <1>8, <1>9, <1>10, QueueOfPlaces
<1>12. BuilderBytes(builders') \in Nat /\ BuilderBytes(queue) \in Nat
  BY <1>6, <1>7, <1>8, <1>10, QueueBytes
<1>13. freed' \in Nat /\ BuilderBytes(queue) + freed' <= BuilderBytes(builders)
  <2>1. CASE l = 0
    <3>1. builders = <<>> /\ DOMAIN queue = {}
      <4>1. PICK S : builders \in Seq(S)
        BY DEF Shape
      <4>2. builders = <<>>
        BY <1>6, <2>1, <4>1, EmptySeq
      <4>3. 1..l = {}
        BY <2>1
      <4> QED BY <1>7, <4>2, <4>3
    <3>2. freed' = 0
      BY <1>4, <3>1 DEF TotalFreed
    <3>3. BuilderBytes(queue) = 0
      <4>1. PICK f : BuilderBytes(queue) = SumFunctionOnSet(f, 1..l)
        BY <1>7, <1>8, QueueBytes
      <4>2. 1..l = {}
        BY <2>1
      <4> QED BY <4>1, <4>2, SumEmpty
    <3> QED BY <1>1, <3>2, <3>3
  <2>2. CASE l # 0
    <3>1. l \in 1..l /\ builders # <<>>
      <4>1. builders = <<>> => Len(builders) = 0
        OBVIOUS
      <4> QED BY <1>6, <2>2, <4>1
    <3>2. freed' = builders[l].blkSize - queue[l].blkSize
      BY <1>4, <1>6, <1>7, <3>1 DEF TotalFreed
    <3>3. /\ builders[l].blkSize \in Nat /\ queue[l].blkSize \in Nat
          /\ queue[l].blkSize <= builders[l].blkSize
      BY <1>1, <1>6, <1>8, <3>1
    <3>4. BuilderBytes(queue) + builders[l].blkSize <= BuilderBytes(builders) + queue[l].blkSize
      BY <1>1, <1>6, <1>7, <1>8, <3>1, QueueReplaces
    <3>5. \A m, q, x, y \in Nat : q + x <= m + y /\ y <= x => x - y \in Nat /\ q + (x - y) <= m
      OBVIOUS
    <3> QED BY <1>1, <1>12, <3>2, <3>3, <3>4, <3>5, Zenon
  <2> QED BY <2>1, <2>2
<1>14. UNCHANGED <<message, caller, waiting, memory, calls>> /\ pc = "scrub"
  BY DEF ScrubResponses, callerVars
<1>15. Asked'
  BY <1>1, <1>14 DEF Asked, BlockedOn
<1>16. Counted'
  BY <1>1, <1>10, <1>13, <1>14 DEF Counted
<1>17. memory >= BuilderBytes(builders) + message.blkSize + freed + GrantedBytes(caller)
  BY <1>14 DEF MInv, MemoryCoversBuffers, Running
<1>18. memory >= BuilderBytes(builders') + message.blkSize + freed' + GrantedBytes(caller)
  <2>1. \A m, x, y, q, o, f, e, g \in Nat :
          m >= x + o + f + g /\ y <= q /\ q + e <= x => m >= y + o + e + g
    OBVIOUS
  <2> QED BY <1>1, <1>11, <1>12, <1>13, <1>17, <2>1, Zenon
<1>19. MemoryCoversBuffers'
  BY <1>14, <1>18 DEF MemoryCoversBuffers
<1> QED BY <1>15, <1>16, <1>19 DEF MInv

\* A message that was sent or failed, and a scrub, give their memory back.
LEMMA EndCovered ==
  ASSUME Shape, MInv, SendMsg \/ PublishError \/ ReleaseScrubbed
  PROVE  MInv'
<1>1. /\ Counted /\ message.blkSize \in Nat /\ freed \in Nat /\ Sized(message)
  BY Amounts DEF MInv, Counted
<1>2. \A m \in Nat : \A f \in Nat : 0 + f + m <= m + f /\ m + 0 + f <= m + f
  OBVIOUS
<1>3. ASSUME SendMsg \/ PublishError PROVE MInv'
  <2>1. /\ ReleaseBlockMemory(message.blkSize) /\ message' = NewBuilder /\ freed' = freed
        /\ builders' = builders /\ calls' = calls /\ Running
    BY <1>3 DEF SendMsg, PublishError, SentBytes, FailedBytes, Running
  <2>2. Sized(message') /\ message'.blkSize = 0
    BY <2>1, NewIsSized
  <2>3. message'.blkSize + freed' + message.blkSize <= message.blkSize + freed
    BY <1>1, <1>2, <2>1, <2>2
  <2> QED BY <1>1, <2>1, <2>2, <2>3, ReleaseKeeps
<1>4. CASE ReleaseScrubbed
  <2>1. /\ freed' = 0 /\ message' = message /\ builders' = builders /\ calls' = calls /\ Running
    BY <1>4 DEF ReleaseScrubbed, Running
  <2>2. message'.blkSize + freed' + freed <= message.blkSize + freed
    BY <1>1, <1>2, <2>1
  <2>3. CASE freed > 0
    <3>1. ReleaseBlockMemory(freed)
      BY <1>4, <2>3 DEF ReleaseScrubbed
    <3>2. Sized(message') /\ freed' \in Nat
      BY <1>1, <2>1
    <3> QED BY <1>1, <2>1, <2>2, <3>1, <3>2, ReleaseKeeps
  <2>4. CASE ~(freed > 0)
    <3>1. UNCHANGED <<memory, waiting, caller>> /\ freed' = freed
      BY <1>1, <1>4, <2>1, <2>4 DEF ReleaseScrubbed
    <3> QED BY <2>1, <3>1, SameAmounts
  <2> QED BY <2>3, <2>4
<1> QED BY <1>3, <1>4

\* Every step of runQueue keeps the memory counted.
LEMMA RunQueueCovered ==
  ASSUME Shape, MInv, RunQueue
  PROVE  MInv'
<1>1. CASE \/ TakeWork \/ TakeDoneAndDrain \/ InitializeSender \/ SendMsgFails \/ Recover
           \/ CloseStreams
  BY <1>1, QuietCovered
<1>2. CASE TakeDoneAndStop
  BY <1>2, StopCovered DEF TakeDoneAndStop
<1>3. CASE TakeContextDone
  BY <1>3, StopCovered DEF TakeContextDone
<1>4. CASE ExtractOutgoingMessage
  BY <1>4, ExtractCovered DEF ExtractOutgoingMessage, callerVars
<1>5. CASE ExtractNothing
  <2>1. /\ pc = "extract" /\ message' = message /\ freed' = freed
        /\ builders' = IF builders = <<>> THEN <<>> ELSE Tail(builders)
    BY <1>5 DEF ExtractNothing
  <2>2. CASE UNCHANGED <<callerVars, memory>>
    BY <2>1, <2>2, ExtractCovered DEF callerVars
  <2>3. CASE pc' = "stopped" /\ ReleasePeerMemory /\ calls' = calls
    BY <2>1, <2>3, StopCovered
  <2> QED BY <1>5, <2>2, <2>3 DEF ExtractNothing
<1>6. CASE SendMsg \/ PublishError \/ ReleaseScrubbed
  BY <1>6, EndCovered
<1>7. CASE ScrubResponses
  BY <1>7, ScrubCovered
<1> QED BY <1>1, <1>2, <1>3, <1>4, <1>5, <1>6, <1>7 DEF RunQueue

\* A new peer holds no memory.
LEMMA InitCovered == Init => MInv
<1> SUFFICES ASSUME Init PROVE MInv
  OBVIOUS
<1>1. Shape
  BY InitHolds DEF IInv
<1>2. DOMAIN builders = {} /\ waiting \in Seq(Pending) /\ DOMAIN waiting = {}
  BY DEF Init
<1>3. Counted
  BY <1>2, NewIsSized, QueueAssumption DEF Init, Counted
<1>4. \A c \in Callers : caller[c].at = "idle" /\ caller[c].op = NoOp
  BY DEF Init
<1>5. Asked
  BY <1>2, <1>4, NoSize DEF Asked
<1>6. BuilderBytes(builders) = 0
  <2>1. DOMAIN builders = 1..0
    BY <1>2
  <2>2. PICK f : BuilderBytes(builders) = SumFunctionOnSet(f, 1..0)
    BY <2>1, QueueBytes
  <2>3. 1..0 = {}
    OBVIOUS
  <2> QED BY <2>2, <2>3, SumEmpty
<1>7. GrantedBytes(caller) = 0
  <2>1. PICK f : /\ \A c \in Callers : f[c] = BytesOf(caller[c]) /\ f[c] \in Nat
                 /\ GrantedBytes(caller) = SumFunctionOnSet(f, Callers)
                 /\ GrantedBytes(caller) \in Nat
    BY <1>1, <1>5, GrantedIs DEF Shape, Asked
  <2>2. Units(f, Callers) = {}
    <3>1. \A c \in Callers : f[c] = 0
      BY <1>4, <2>1 DEF BytesOf
    <3>2. \A c \in Callers : 1..f[c] = {}
      BY <3>1
    <3> QED BY <2>1, <3>2, UnitsMember
  <2>3. SumFunctionOnSet(f, Callers) = Cardinality(Units(f, Callers))
    BY <2>1, CallersFinite, SumIsUnits
  <2> QED BY <2>1, <2>2, <2>3, FS_EmptySet
<1>8. message.blkSize = 0 /\ freed = 0 /\ memory = 0
  BY NewIsSized DEF Init
<1>9. MemoryCoversBuffers
  BY <1>6, <1>7, <1>8 DEF MemoryCoversBuffers
<1> QED BY <1>3, <1>5, <1>9 DEF MInv

\* Every step keeps the memory counted.
LEMMA NextCovered == IInv /\ MInv /\ [Next]_vars => MInv'
<1> SUFFICES ASSUME IInv, MInv, [Next]_vars PROVE MInv'
  OBVIOUS
<1>0. Shape
  BY DEF IInv
<1>1. ASSUME NEW r \in Requests, NEW op \in Operations[r], Execute(r, op) PROVE MInv'
  BY <1>0, <1>1, ExecuteCovered
<1>2. ASSUME NEW r \in Requests, AbandonWait(r) PROVE MInv'
  BY <1>0, <1>2, CallersCovered
<1>3. ASSUME NEW c \in Callers, Caller(c) PROVE MInv'
  BY <1>0, <1>3, BuildCovered, CallersCovered DEF Caller
<1>4. CASE SendRequest
  BY <1>0, <1>4, CallersCovered
<1>5. CASE RunQueue
  BY <1>0, <1>5, RunQueueCovered
<1>6. CASE Shutdown \/ CancelContext \/ UNCHANGED vars
  BY <1>6, QuietCovered
<1> QED BY <1>1, <1>2, <1>3, <1>4, <1>5, <1>6 DEF Next

\* The memory of the peer is always counted: the size of every message covers its blocks,
\* every pending allocation is for what its caller will build, and what is granted stays
\* within the limit of the peer.
THEOREM MemoryIsCounted == Spec => []MInv
<1>1. Init => MInv
  BY InitCovered
<1>2. IInv /\ MInv /\ [Next]_vars => MInv'
  BY NextCovered
<1> QED BY <1>1, <1>2, PlacedInOrder, PTL DEF Spec

\* What the allocator has granted covers the bytes in queued messages, in the message
\* being sent and about to be built, however building, sending, failing and scrubbing
\* interleave with callers that wait, are granted memory or give up: no release gives
\* memory back early or twice.
THEOREM MemoryCoversBuffersHolds == Spec => []MemoryCoversBuffers
<1>1. MInv => MemoryCoversBuffers
  BY DEF MInv
<1> QED BY <1>1, MemoryIsCounted, PTL

\* So the bytes of blocks that wait in messages for the peer never exceed the limit the
\* allocator has for it, as long as the queue runs.
THEOREM BuffersAreBounded ==
  Spec => [](Running => BuilderBytes(builders) + message.blkSize <= MaxPerPeer)
<1>1. IInv /\ MInv => (Running => BuilderBytes(builders) + message.blkSize <= MaxPerPeer)
  <2> SUFFICES ASSUME IInv, MInv, Running
               PROVE  BuilderBytes(builders) + message.blkSize <= MaxPerPeer
    OBVIOUS
  <2>1. /\ BuilderBytes(builders) \in Nat /\ GrantedBytes(caller) \in Nat
        /\ message.blkSize \in Nat /\ freed \in Nat /\ memory \in Nat
    BY Amounts DEF IInv, MInv
  <2>2. memory >= BuilderBytes(builders) + message.blkSize + freed + GrantedBytes(caller)
    BY DEF MInv, MemoryCoversBuffers
  <2>3. memory <= MaxPerPeer /\ MaxPerPeer \in Nat
    BY QueueAssumption DEF MInv, Counted
  <2> QED BY <2>1, <2>2, <2>3
<1> QED BY <1>1, PlacedInOrder, MemoryIsCounted, PTL

=============================================================================
