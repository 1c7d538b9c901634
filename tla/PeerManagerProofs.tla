--------------------------- MODULE PeerManagerProofs ---------------------------
(***************************************************************************)
(* Proofs about the message queues of a peer and their publishers, for any *)
(* number of callers, connections and queues and any limit of memory.      *)
(***************************************************************************)
EXTENDS PeerManager, FiniteSetTheorems, SequenceTheorems, TLAPS

-----------------------------------------------------------------------------
(* The inductive invariant: queues, connections and calls *)

Messages == [topic : Nat, callers : {S \in SUBSET Callers : IsFiniteSet(S)}]

\* Every variable of the manager, the queues, the calls and the memory has its type.
TypeOK ==
  /\ registered \in 0..made /\ made \in 0..MaxQueues /\ refcnt \in Nat
  /\ IsFiniteSet(up)
  /\ unregistered \subseteq Queues /\ done \subseteq Queues
  /\ at \in [Queues -> {"none", "select", "sending", "drain", "leave", "released", "stopped"}]
  /\ builders \in [Queues -> Seq(Messages)]
  /\ sending \in [Queues -> Messages \union {Nothing}]
  /\ topic \in [Queues -> Nat]
  /\ caller \in [Callers -> {"idle", "missed", "got", "waiting", "granted", "built",
                             "signalled"}]
  /\ using \in [Callers -> 0..made]
  /\ granted \in 0..Limit
  /\ pending \in Seq(Callers)

\* A queue that was not made does not run.
NotMadeIsIdle == \A q \in Queues : q > made => at[q] = "none"

\* The calls that wait for memory are in the allocator's list, once.
PendingWait ==
  /\ \A i \in DOMAIN pending : caller[pending[i]] = "waiting"
  /\ \A i, j \in DOMAIN pending : i # j => pending[i] # pending[j]

\* A call that is past GetProcess has a queue.
HasQueue == \A c \in Callers : caller[c] \notin {"idle", "missed"} => using[c] # 0

\* What is known without looking at the publishers.
Basics ==
  /\ TypeOK
  /\ NotMadeIsIdle
  /\ PendingWait
  /\ HasQueue
  /\ QueuesMatchConnections

-----------------------------------------------------------------------------
(* The inductive invariant: what a subscriber is told *)

Ops == {"subscribe", "pub", "closeTopic", "shutdown"}
Told == {"queued", "sent", "error", "closed"}
Args == Callers \union {"queued", "sent", "error", 0}
Commands == [op : Ops, topic : Nat, arg : Args]

\* The publishers' state has its type.
PublishersOK ==
  /\ cmds \in [Queues -> Seq(Commands)]
  /\ closed \subseteq Queues
  /\ topics \in [Queues -> SUBSET (Nat \X Args)]
  /\ told \in [Callers -> Seq(Told)]

\* The commands by what they do to a topic.
Subscribes(cmd, t, c) == cmd.op = "subscribe" /\ cmd.topic = t /\ cmd.arg = c
Publishes(cmd, t, event) == cmd.op = "pub" /\ cmd.topic = t /\ cmd.arg = event
Judges(cmd, t) == Publishes(cmd, t, "sent") \/ Publishes(cmd, t, "error")
Closes(cmd, t) == cmd.op = "closeTopic" /\ cmd.topic = t

\* The order of the commands of one topic.
Rank(cmd) ==
  IF cmd.op = "subscribe" THEN 0
  ELSE IF cmd.op = "pub" THEN (IF cmd.arg = "queued" THEN 1 ELSE 2) ELSE 3

\* The command of Shutdown is the last one; the others are ordered by their topics.
Before(a, b) ==
  /\ a.op # "shutdown"
  /\ \/ b.op = "shutdown"
     \/ a.topic < b.topic
     \/ a.topic = b.topic /\ (Rank(a) < Rank(b) \/ (Rank(a) = 0 /\ Rank(b) = 0))

InOrder(s) == \A i, j \in DOMAIN s : i < j => Before(s[i], s[j])

\* A command in the publisher of a queue is about a message older than those that are
\* built; if it is about the one being sent it comes before the verdict.
CommandInv(q, cmd) ==
  /\ cmd.op = "pub" => cmd.arg \in {"queued", "sent", "error"}
  /\ cmd.op = "shutdown" => q \in closed
  /\ cmd.op # "shutdown" =>
       /\ cmd.topic < topic[q]
       /\ \A m \in Range(builders[q]) : cmd.topic < m.topic
       /\ at[q] = "sending"
            => \/ cmd.topic < sending[q].topic
               \/ cmd.topic = sending[q].topic /\ Rank(cmd) <= 1

\* The messages of a queue are in the order of their topics, after the one that is
\* being sent.
QueueInv(q) ==
  /\ InOrder(cmds[q])
  /\ \A cmd \in Range(cmds[q]) : CommandInv(q, cmd)
  /\ IF at[q] = "sending" THEN sending[q] \in Messages ELSE sending[q] = Nothing
  /\ q \in closed => at[q] = "stopped"
  /\ sending[q].topic < topic[q]
  /\ \A m \in Range(builders[q]) : m.topic < topic[q] /\ sending[q].topic < m.topic
  /\ \A k, n \in DOMAIN builders[q] : k < n => builders[q][k].topic < builders[q][n].topic

\* The subscriber is in a message that was not taken yet.
Built(q, c) == \E m \in Range(builders[q]) : c \in m.callers

\* The publisher of the queue has the subscriber for the topic, or will have it.
Attached(q, t, c) ==
  <<t, c>> \in topics[q] \/ \E cmd \in Range(cmds[q]) : Subscribes(cmd, t, c)

Unjudged == {<<>>, <<"queued">>}
Judged == {<<"queued", "sent">>, <<"queued", "error">>, <<"error">>}
Complete == {<<"queued", "sent", "closed">>, <<"queued", "error", "closed">>,
             <<"error", "closed">>}

\* What a subscriber was told and what the publisher has still to tell it of the
\* message with topic t: while the message is being sent there is no verdict, later
\* there is one and the topic is closed, each in the past or in the future.
AttachedInv(q, t, c) ==
  /\ told[c] \in Unjudged \union Judged
  /\ \A cmd \in Range(cmds[q]) :
       /\ Subscribes(cmd, t, c) => told[c] = <<>>
       /\ Publishes(cmd, t, "queued") => told[c] = <<>>
       /\ Judges(cmd, t) => told[c] \in Unjudged
       /\ Publishes(cmd, t, "sent") /\ told[c] = <<>>
            => \E pub \in Range(cmds[q]) : Publishes(pub, t, "queued")
  /\ sending[q].topic = t =>
       /\ told[c] \in Unjudged
       /\ told[c] = <<>> => \E pub \in Range(cmds[q]) : Publishes(pub, t, "queued")
  /\ sending[q].topic # t =>
       /\ \E cmd \in Range(cmds[q]) : Closes(cmd, t)
       /\ told[c] \in Unjudged => \E cmd \in Range(cmds[q]) : Judges(cmd, t)

\* A call has put its block into a message.
HasBuilt(c) == caller[c] \in {"built", "signalled"}

\* A subscriber is in one message of its queue, or in the publisher of its queue for
\* one topic.
SubscriberInv(q, c) ==
  /\ Built(q, c) => /\ q = using[c] /\ HasBuilt(c) /\ told[c] = <<>>
                    /\ \A t \in Nat : ~Attached(q, t, c)
  /\ \A m, n \in Range(builders[q]) :
       c \in m.callers /\ c \in n.callers => m.topic = n.topic
  /\ \A t \in Nat : Attached(q, t, c) =>
       /\ q = using[c] /\ HasBuilt(c)
       /\ \A u \in Nat : Attached(q, u, c) => u = t
       /\ AttachedInv(q, t, c)

\* A subscriber that no publisher has was told everything, or nothing yet.
ToldIsWhole(c) ==
  /\ (\A q \in Queues : \A t \in Nat : ~Attached(q, t, c)) => told[c] \in Complete \union {<<>>}
  /\ ~HasBuilt(c) => told[c] = <<>>

\* What is known of messages, publishers and subscribers.
Pipeline ==
  /\ PublishersOK
  /\ \A q \in Queues : QueueInv(q)
  /\ \A q \in Queues : \A c \in Callers : SubscriberInv(q, c)
  /\ \A c \in Callers : ToldIsWhole(c)

-----------------------------------------------------------------------------
(* The parts of a step *)

\* The fields of a message.
LEMMA MessageFields ==
  ASSUME NEW m \in Messages
  PROVE  /\ m.topic \in Nat /\ m.callers \subseteq Callers /\ IsFiniteSet(m.callers)
         /\ Blocks(m) \in Nat
<1>1. m.topic \in Nat /\ m.callers \subseteq Callers /\ IsFiniteSet(m.callers)
  BY DEF Messages
<1>2. IsFiniteSet(m.callers \cap sized)
  BY <1>1, FS_Intersection
<1> QED BY <1>1, <1>2, FS_CardinalityType DEF Blocks

\* The message of a queue that sends none.
LEMMA NothingFields ==
  /\ Nothing.topic = -1 /\ Nothing.callers = {} /\ Blocks(Nothing) = 0
  /\ Nothing \notin Messages
<1>1. Nothing.topic = -1 /\ Nothing.callers = {}
  BY DEF Nothing
<1>2. Blocks(Nothing) = 0
  <2>1. Nothing.callers \cap sized = {}
    BY <1>1
  <2> QED BY <2>1, FS_EmptySet DEF Blocks
<1>3. Nothing \notin Messages
  BY <1>1, MessageFields
<1> QED BY <1>1, <1>2, <1>3

\* The queues and the callers are those of the publishers.
LEMMA SameSets == Publishers = Queues /\ Subscribers = Callers /\ Queues \subseteq Nat \ {0}
BY PeersAssumption DEF Queues

\* Calls that waited for memory have it now; nothing else has happened to a call.
Woken ==
  /\ caller' \in [Callers -> {"idle", "missed", "got", "waiting", "granted", "built",
                              "signalled"}]
  /\ \A c \in Callers : caller'[c] = caller[c] \/ (caller[c] = "waiting" /\ caller'[c] = "granted")
  /\ granted' \in 0..Limit
  /\ pending' \in Seq(Callers)
  /\ PendingWait'

\* ReleaseBlockMemory wakes calls from the front of the list.
LEMMA ReleaseWakes ==
  ASSUME TypeOK, PendingWait, NEW size \in Nat, Release(size)
  PROVE  Woken
<1>0. /\ granted \in 0..Limit /\ Limit \in Nat /\ pending \in Seq(Callers)
      /\ caller \in [Callers -> {"idle", "missed", "got", "waiting", "granted", "built",
                                 "signalled"}]
  BY PeersAssumption DEF TypeOK
<1> DEFINE left == IF size < granted THEN granted - size ELSE 0
           n    == Grants(Limit - left, Len(pending))
<1>1. left \in 0..Limit
  BY <1>0
<1>2. n \in 0..Len(pending) /\ left + n \in 0..Limit
  <2>1. \A l \in Nat : Grants(Limit - left, l) \in 0..l
             /\ left + Grants(Limit - left, l) \in 0..Limit
    BY <1>0, <1>1 DEF Grants
  <2> QED BY <1>0, <2>1
<1>3. /\ granted' = left + n
      /\ pending' = SubSeq(pending, n + 1, Len(pending))
      /\ caller' = [c \in Callers |->
                      IF \E i \in 1..n : pending[i] = c THEN "granted" ELSE caller[c]]
  BY DEF Release
<1> HIDE DEF left, n
<1>4. /\ pending' \in Seq(Callers)
      /\ Len(pending') = Len(pending) - n
      /\ \A i \in 1..(Len(pending) - n) : pending'[i] = pending[i + n]
  BY <1>0, <1>2, <1>3
<1>5. \A i \in 1..n : i \in DOMAIN pending
  BY <1>0, <1>2
<1>6. \A c \in Callers : caller'[c] = caller[c] \/ (caller[c] = "waiting" /\ caller'[c] = "granted")
  BY <1>3, <1>5 DEF PendingWait
<1>7. caller' \in [Callers -> {"idle", "missed", "got", "waiting", "granted", "built",
                               "signalled"}]
  BY <1>0, <1>3
<1>8. PendingWait'
  <2>1. DOMAIN pending' = 1..(Len(pending) - n)
    BY <1>4
  <2>2. \A i \in DOMAIN pending' : i + n \in DOMAIN pending /\ i + n > n /\ i \in Nat
    BY <1>0, <1>2, <2>1
  <2>3. ASSUME NEW i \in DOMAIN pending'
        PROVE  caller'[pending'[i]] = "waiting"
    <3>1. pending'[i] = pending[i + n] /\ pending[i + n] \in Callers
      BY <1>0, <1>4, <2>1, <2>2
    <3>2. \A k \in 1..n : pending[k] # pending[i + n]
      <4>1. SUFFICES ASSUME NEW k \in 1..n PROVE k \in DOMAIN pending /\ k # i + n
        BY <2>2 DEF PendingWait
      <4> QED BY <1>2, <1>5, <2>2
    <3>3. caller'[pending[i + n]] = caller[pending[i + n]]
      BY <1>3, <3>1, <3>2
    <3> QED BY <2>2, <3>1, <3>3 DEF PendingWait
  <2>4. ASSUME NEW i \in DOMAIN pending', NEW j \in DOMAIN pending', i # j
        PROVE  pending'[i] # pending'[j]
    <3>1. i + n # j + n
      BY <1>2, <2>2, <2>4
    <3> QED BY <1>4, <2>1, <2>2, <3>1 DEF PendingWait
  <2> QED BY <2>3, <2>4 DEF PendingWait
<1> QED BY <1>2, <1>3, <1>4, <1>6, <1>7, <1>8 DEF Woken

\* ReleasePeerMemory wakes every call.
LEMMA ReleasePeerWakes ==
  ASSUME TypeOK, ReleasePeerMemory
  PROVE  Woken
<1>1. /\ granted' = 0 /\ pending' = <<>>
      /\ caller' = [c \in Callers |-> IF caller[c] = "waiting" THEN "granted" ELSE caller[c]]
  BY DEF ReleasePeerMemory
<1>2. caller \in [Callers -> {"idle", "missed", "got", "waiting", "granted", "built",
                              "signalled"}]
  BY DEF TypeOK
<1>3. PendingWait'
  BY <1>1 DEF PendingWait
<1> QED BY <1>1, <1>2, <1>3, PeersAssumption DEF Woken

\* getOrCreate: the process there is, or a new one that nobody knows yet.
LEMMA GetOrCreateMakes ==
  ASSUME TypeOK, NotMadeIsIdle, NEW count \in Nat, GetOrCreate(count)
  PROVE  /\ made' \in 0..MaxQueues /\ made <= made' /\ registered' \in 1..made'
         /\ refcnt' = count
         /\ at' \in [Queues -> {"none", "select", "sending", "drain", "leave", "released",
                                "stopped"}]
         /\ registered # 0 => registered' = registered
         /\ \A q \in Queues : \/ at'[q] = at[q]
                              \/ at[q] = "none" /\ at'[q] = "select" /\ q = registered'
         /\ NotMadeIsIdle'
<1>0. /\ registered \in 0..made /\ made \in 0..MaxQueues /\ MaxQueues \in Nat
      /\ at \in [Queues -> {"none", "select", "sending", "drain", "leave", "released", "stopped"}]
  BY PeersAssumption DEF TypeOK
<1>1. CASE MustCreate /\ made' = made + 1 /\ registered' = made + 1
           /\ at' = [at EXCEPT ![made + 1] = "select"]
  <2>1. made + 1 \in Queues /\ made + 1 > made /\ registered = 0
    BY <1>0, <1>1 DEF MustCreate, Queues
  <2>2. at[made + 1] = "none"
    BY <2>1 DEF NotMadeIsIdle
  <2>3. \A q \in Queues : at'[q] = IF q = made + 1 THEN "select" ELSE at[q]
    BY <1>0, <1>1
  <2>4. NotMadeIsIdle'
    <3>1. SUFFICES ASSUME NEW q \in Queues, q > made + 1 PROVE at'[q] = "none"
      BY <1>1 DEF NotMadeIsIdle
    <3>2. q > made /\ q # made + 1
      BY <1>0, <3>1, SameSets
    <3> QED BY <2>3, <3>2 DEF NotMadeIsIdle
  <2>5. made' \in 0..MaxQueues /\ made <= made' /\ registered' \in 1..made'
    BY <1>0, <1>1, <2>1 DEF Queues
  <2>6. at' \in [Queues -> {"none", "select", "sending", "drain", "leave", "released", "stopped"}]
    BY <1>0, <1>1, <2>1
  <2> QED BY <1>1, <2>1, <2>2, <2>3, <2>4, <2>5, <2>6 DEF GetOrCreate
<1>2. CASE registered # 0 /\ UNCHANGED <<made, registered, at>>
  BY <1>0, <1>2 DEF GetOrCreate, NotMadeIsIdle
<1> QED BY <1>1, <1>2 DEF GetOrCreate

-----------------------------------------------------------------------------
(* Queues, connections and calls *)

\* Only the calls and the memory change, and no call goes back before GetProcess.
LEMMA CallsKeepBasics ==
  ASSUME Basics,
         UNCHANGED <<registered, refcnt, made, up, unregistered, done, at, builders, sending,
                     topic>>,
         caller' \in [Callers -> {"idle", "missed", "got", "waiting", "granted", "built",
                                  "signalled"}],
         using' \in [Callers -> 0..made],
         granted' \in 0..Limit, pending' \in Seq(Callers), PendingWait',
         \A c \in Callers : caller'[c] \notin {"idle", "missed"} => using'[c] # 0
  PROVE  Basics'
<1>1. TypeOK'
  BY DEF Basics, TypeOK
<1>2. NotMadeIsIdle' /\ QueuesMatchConnections' /\ HasQueue'
  BY DEF Basics, NotMadeIsIdle, QueuesMatchConnections, HasQueue
<1> QED BY <1>1, <1>2 DEF Basics

\* One call goes on, and does not wait for memory before or after.
LEMMA StepKeepsBasics ==
  ASSUME Basics, NEW c \in Callers,
         NEW where \in {"idle", "missed", "got", "granted", "built", "signalled"},
         Step(c, where), caller[c] # "waiting",
         UNCHANGED pending
  PROVE  /\ caller' \in [Callers -> {"idle", "missed", "got", "waiting", "granted", "built",
                                     "signalled"}]
         /\ PendingWait'
         /\ caller'[c] = where
         /\ \A d \in Callers \ {c} : caller'[d] = caller[d]
<1>1. /\ caller \in [Callers -> {"idle", "missed", "got", "waiting", "granted", "built",
                                 "signalled"}]
      /\ pending \in Seq(Callers)
      /\ caller' = [caller EXCEPT ![c] = where]
  BY DEF Basics, TypeOK, Step
<1>2. \A i \in DOMAIN pending : pending[i] \in Callers /\ pending[i] # c
  BY <1>1 DEF Basics, PendingWait
<1>3. \A d \in Callers \ {c} : caller'[d] = caller[d]
  BY <1>1
<1>4. PendingWait'
  BY <1>2, <1>3 DEF Basics, PendingWait
<1> QED BY <1>1, <1>3, <1>4

\* GetProcess finds a process, or none.
LEMMA GetProcessBasics ==
  ASSUME Basics, NEW c \in Callers, GetProcess(c)
  PROVE  Basics'
<1>1. /\ caller[c] = "idle"
      /\ UNCHANGED <<registered, refcnt, made, up, unregistered, done, at, builders, sending,
                     topic, granted, pending>>
  BY DEF GetProcess, manager, queue, memory
<1>2. registered \in 0..made /\ using \in [Callers -> 0..made]
  BY DEF Basics, TypeOK
<1>3. CASE registered # 0 /\ Step(c, "got") /\ using' = [using EXCEPT ![c] = registered]
  <2>1. using' \in [Callers -> 0..made] /\ using'[c] = registered
        /\ \A d \in Callers \ {c} : using'[d] = using[d]
    BY <1>2, <1>3
  <2>2. /\ caller' \in [Callers -> {"idle", "missed", "got", "waiting", "granted", "built",
                                    "signalled"}]
        /\ PendingWait'
        /\ \A d \in Callers \ {c} : caller'[d] = caller[d]
    BY <1>1, <1>3, StepKeepsBasics
  <2>3. \A d \in Callers : caller'[d] \notin {"idle", "missed"} => using'[d] # 0
    BY <1>3, <2>1, <2>2 DEF Basics, HasQueue
  <2> QED BY <1>1, <2>1, <2>2, <2>3, CallsKeepBasics DEF Basics, TypeOK
<1>4. CASE Step(c, "missed") /\ UNCHANGED using
  <2>1. /\ caller' \in [Callers -> {"idle", "missed", "got", "waiting", "granted", "built",
                                    "signalled"}]
        /\ PendingWait'
        /\ caller'[c] = "missed"
        /\ \A d \in Callers \ {c} : caller'[d] = caller[d]
    BY <1>1, <1>4, StepKeepsBasics
  <2>2. \A d \in Callers : caller'[d] \notin {"idle", "missed"} => using'[d] # 0
    BY <1>4, <2>1 DEF Basics, HasQueue
  <2> QED BY <1>1, <1>2, <1>4, <2>1, <2>2, CallsKeepBasics DEF Basics, TypeOK
<1> QED BY <1>3, <1>4 DEF GetProcess

\* GetProcess makes the process that it has not found, if nobody else has.
LEMMA CreateProcessBasics ==
  ASSUME Basics, NEW c \in Callers, CreateProcess(c)
  PROVE  Basics'
<1>1. /\ caller[c] = "missed" /\ GetOrCreate(References) /\ Step(c, "got")
      /\ using' = [using EXCEPT ![c] = registered']
      /\ UNCHANGED <<up, unregistered, done, builders, sending, topic, granted, pending>>
  BY DEF CreateProcess, memory
<1>2. References \in Nat
  BY DEF Basics, TypeOK, References
<1>3. /\ made' \in 0..MaxQueues /\ made <= made' /\ registered' \in 1..made'
      /\ refcnt' = References
      /\ at' \in [Queues -> {"none", "select", "sending", "drain", "leave", "released",
                             "stopped"}]
      /\ registered # 0 => registered' = registered
      /\ \A q \in Queues : \/ at'[q] = at[q]
                           \/ at[q] = "none" /\ at'[q] = "select" /\ q = registered'
      /\ NotMadeIsIdle'
  BY <1>1, <1>2, GetOrCreateMakes DEF Basics
<1>4. /\ caller' \in [Callers -> {"idle", "missed", "got", "waiting", "granted", "built",
                                  "signalled"}]
      /\ PendingWait'
      /\ \A d \in Callers \ {c} : caller'[d] = caller[d]
  BY <1>1, StepKeepsBasics
<1>5. /\ made \in Nat /\ made' \in Nat /\ using \in [Callers -> 0..made]
  BY <1>3, PeersAssumption DEF Basics, TypeOK
<1>6. /\ using' \in [Callers -> 0..made']
      /\ using'[c] = registered'
      /\ \A d \in Callers \ {c} : using'[d] = using[d]
  BY <1>1, <1>3, <1>5
<1>7. TypeOK'
  BY <1>1, <1>2, <1>3, <1>4, <1>6 DEF Basics, TypeOK
<1>8. HasQueue'
  BY <1>3, <1>4, <1>6 DEF Basics, HasQueue
<1>9. QueuesMatchConnections'
  <2>1. registered' # 0 /\ refcnt' = Cardinality(up')
    <3>1. IF registered = 0 THEN up = {} ELSE refcnt = Cardinality(up)
      BY DEF Basics, QueuesMatchConnections
    <3>2. registered' # 0 /\ up' = up
      BY <1>1, <1>3
    <3> QED BY <1>3, <3>1, <3>2, FS_EmptySet DEF References
  <2>2. ASSUME NEW q \in Queues, at'[q] # "none", q \notin done, q \notin unregistered
        PROVE  q = registered'
    <3>1. CASE at'[q] = at[q]
      <4>1. q = registered /\ q # 0
        BY <2>2, <3>1, SameSets DEF Basics, QueuesMatchConnections
      <4> QED BY <1>3, <4>1
    <3>2. CASE at'[q] # at[q]
      BY <1>3, <3>2
    <3> QED BY <3>1, <3>2
  <2> QED BY <1>1, <2>1, <2>2 DEF QueuesMatchConnections
<1> QED BY <1>3, <1>4, <1>7, <1>8, <1>9 DEF Basics

\* A call asks for memory.
LEMMA AllocateBasics ==
  ASSUME Basics, NEW c \in Callers, Allocate(c)
  PROVE  Basics'
<1>1. /\ caller[c] = "got"
      /\ UNCHANGED <<registered, refcnt, made, up, unregistered, done, at, builders, sending,
                     topic, using>>
  BY DEF Allocate, manager, queue
<1>2. /\ using \in [Callers -> 0..made] /\ granted \in 0..Limit /\ Limit \in Nat
      /\ pending \in Seq(Callers)
      /\ caller \in [Callers -> {"idle", "missed", "got", "waiting", "granted", "built",
                                 "signalled"}]
  BY PeersAssumption DEF Basics, TypeOK
<1>3. \A d \in Callers : caller[d] \notin {"idle", "missed"} => using[d] # 0
  BY DEF Basics, HasQueue
<1>4. CASE Step(c, "granted") /\ granted' \in 0..Limit /\ UNCHANGED pending
  <2>1. /\ caller' \in [Callers -> {"idle", "missed", "got", "waiting", "granted", "built",
                                    "signalled"}]
        /\ PendingWait'
        /\ \A d \in Callers \ {c} : caller'[d] = caller[d]
    BY <1>1, <1>4, StepKeepsBasics
  <2>2. \A d \in Callers : caller'[d] \notin {"idle", "missed"} => using'[d] # 0
    BY <1>1, <1>3, <2>1
  <2> QED BY <1>1, <1>2, <1>4, <2>1, <2>2, CallsKeepBasics
<1>5. CASE pending' = Append(pending, c) /\ Step(c, "waiting") /\ UNCHANGED granted
  <2>1. caller' = [caller EXCEPT ![c] = "waiting"]
    BY <1>5 DEF Step
  <2>2. /\ caller' \in [Callers -> {"idle", "missed", "got", "waiting", "granted", "built",
                                    "signalled"}]
        /\ \A d \in Callers : caller'[d] = IF d = c THEN "waiting" ELSE caller[d]
    BY <1>2, <2>1
  <2>3. /\ pending' \in Seq(Callers)
        /\ DOMAIN pending' = 1..(Len(pending) + 1) /\ DOMAIN pending = 1..Len(pending)
        /\ pending'[Len(pending) + 1] = c
        /\ \A i \in DOMAIN pending : pending'[i] = pending[i] /\ pending[i] \in Callers
        /\ \A i \in DOMAIN pending' : i \in DOMAIN pending \/ i = Len(pending) + 1
    BY <1>2, <1>5
  <2>4. \A i \in DOMAIN pending : caller[pending[i]] = "waiting" /\ pending[i] # c
    BY <1>1 DEF Basics, PendingWait
  <2>5. ASSUME NEW i \in DOMAIN pending', NEW j \in DOMAIN pending', i # j
        PROVE  pending'[i] # pending'[j]
    <3>1. CASE i \in DOMAIN pending /\ j \in DOMAIN pending
      BY <2>3, <2>5, <3>1 DEF Basics, PendingWait
    <3>2. CASE i \in DOMAIN pending /\ j = Len(pending) + 1
      BY <2>3, <2>4, <3>2
    <3>3. CASE i = Len(pending) + 1 /\ j \in DOMAIN pending
      BY <2>3, <2>4, <3>3
    <3> QED BY <2>3, <2>5, <3>1, <3>2, <3>3
  <2>6. \A i \in DOMAIN pending' : caller'[pending'[i]] = "waiting"
    BY <2>2, <2>3, <2>4
  <2>7. PendingWait'
    BY <2>5, <2>6 DEF PendingWait
  <2>8. \A d \in Callers : caller'[d] \notin {"idle", "missed"} => using'[d] # 0
    BY <1>1, <1>3, <2>2
  <2> QED BY <1>1, <1>2, <1>5, <2>2, <2>3, <2>7, <2>8, CallsKeepBasics
<1>6. granted < Limit => granted + 1 \in 0..Limit
  BY <1>2
<1> QED BY <1>2, <1>4, <1>5, <1>6 DEF Allocate, memory

\* A call has signalled the queue.
LEMMA SignalWorkBasics ==
  ASSUME Basics, NEW c \in Callers, SignalWork(c)
  PROVE  Basics'
<1>1. /\ caller[c] = "built" /\ Step(c, "signalled")
      /\ UNCHANGED <<registered, refcnt, made, up, unregistered, done, at, builders, sending,
                     topic, using, granted, pending>>
  BY DEF SignalWork, manager, memory
<1>2. /\ caller' \in [Callers -> {"idle", "missed", "got", "waiting", "granted", "built",
                                  "signalled"}]
      /\ PendingWait'
      /\ \A d \in Callers \ {c} : caller'[d] = caller[d]
  BY <1>1, StepKeepsBasics
<1>3. \A d \in Callers : caller'[d] \notin {"idle", "missed"} => using'[d] # 0
  BY <1>1, <1>2 DEF Basics, HasQueue
<1> QED BY <1>1, <1>2, <1>3, CallsKeepBasics DEF Basics, TypeOK

\* A call that builds has a queue, and its message is the last one of the queue.
LEMMA BuildMakes ==
  ASSUME Basics, NEW c \in Callers, BuildMessage(c)
  PROVE  /\ using[c] \in Queues
         /\ \/ /\ builders' = [builders EXCEPT ![using[c]] =
                                 Append(@, [topic |-> topic[using[c]], callers |-> {c}])]
               /\ topic' = [topic EXCEPT ![using[c]] = @ + 1]
               /\ [topic |-> topic[using[c]], callers |-> {c}] \in Messages
            \/ /\ builders[using[c]] # <<>>
               /\ UNCHANGED topic
               /\ \E m \in Messages :
                    /\ m.topic = builders[using[c]][Len(builders[using[c]])].topic
                    /\ m.callers = builders[using[c]][Len(builders[using[c]])].callers \union {c}
                    /\ builders' = [builders EXCEPT ![using[c]] =
                                      [@ EXCEPT ![Len(builders[using[c]])] = m]]
<1>1. using[c] \in Queues
  <2>1. using[c] \in 0..made /\ using[c] # 0 /\ made \in 0..MaxQueues /\ MaxQueues \in Nat
    BY PeersAssumption DEF Basics, TypeOK, HasQueue, BuildMessage
  <2> QED BY <2>1 DEF Queues
<1> DEFINE q == using[c]
<1>2. topic[q] \in Nat /\ builders[q] \in Seq(Messages) /\ builders \in [Queues -> Seq(Messages)]
  BY <1>1 DEF Basics, TypeOK
<1>3. CASE BeginNew(q, c)
  <2>1. IsFiniteSet({c})
    BY FS_Singleton
  <2>2. [topic |-> topic[q], callers |-> {c}] \in Messages
    BY <1>2, <2>1 DEF Messages
  <2> QED BY <1>1, <1>3, <2>2 DEF BuildMessage
<1>4. CASE ~BeginNew(q, c)
  <2>1. builders[q] # <<>>
    BY <1>4 DEF BeginNew
  <2> DEFINE k == Len(builders[q])
             old == builders[q][k]
             m == [old EXCEPT !.callers = @ \union {c}]
  <2>2. old \in Messages
    BY <1>2, <2>1
  <2>3. old.callers \subseteq Callers /\ IsFiniteSet(old.callers) /\ old.topic \in Nat
    BY <2>2, MessageFields
  <2>4. IsFiniteSet(old.callers \union {c})
    BY <2>3, FS_AddElement
  <2>5. m \in Messages /\ m.topic = old.topic /\ m.callers = old.callers \union {c}
    BY <2>2, <2>3, <2>4 DEF Messages
  <2>6. builders' = [builders EXCEPT ![q] = [@ EXCEPT ![k] = m]] /\ UNCHANGED topic
    BY <1>4 DEF BuildMessage
  <2> QED BY <1>1, <2>1, <2>5, <2>6
<1> QED BY <1>3, <1>4

\* Where nothing happens to the calls, nobody is woken.
LEMMA NobodyWoken ==
  ASSUME Basics, UNCHANGED <<caller, granted, pending>>
  PROVE  Woken
BY DEF Basics, TypeOK, PendingWait, Woken

\* The goroutine of a queue goes on, and may wake calls.
LEMMA QueueKeepsBasics ==
  ASSUME Basics, UNCHANGED <<registered, refcnt, made, up, unregistered, done, using>>,
         at' \in [Queues -> {"none", "select", "sending", "drain", "leave", "released",
                             "stopped"}],
         \A q \in Queues : at'[q] = "none" <=> at[q] = "none",
         builders' \in [Queues -> Seq(Messages)],
         sending' \in [Queues -> Messages \union {Nothing}],
         topic' \in [Queues -> Nat],
         Woken
  PROVE  Basics'
<1>1. TypeOK'
  BY DEF Basics, TypeOK, Woken
<1>2. NotMadeIsIdle' /\ QueuesMatchConnections'
  BY DEF Basics, NotMadeIsIdle, QueuesMatchConnections
<1>3. HasQueue'
  BY DEF Basics, HasQueue, Woken
<1> QED BY <1>1, <1>2, <1>3 DEF Basics, Woken

\* A call builds its message.
LEMMA BuildMessageBasics ==
  ASSUME Basics, NEW c \in Callers, BuildMessage(c)
  PROVE  Basics'
<1>1. /\ caller[c] = "granted" /\ Step(c, "built")
      /\ UNCHANGED <<registered, refcnt, made, up, unregistered, done, at, sending, using,
                     granted, pending>>
  BY DEF BuildMessage, manager, memory
<1>2. /\ caller' \in [Callers -> {"idle", "missed", "got", "waiting", "granted", "built",
                                  "signalled"}]
      /\ PendingWait'
      /\ \A d \in Callers \ {c} : caller'[d] = caller[d]
  BY <1>1, StepKeepsBasics
<1>3. topic \in [Queues -> Nat] /\ builders \in [Queues -> Seq(Messages)]
  BY DEF Basics, TypeOK
<1>4. builders' \in [Queues -> Seq(Messages)] /\ topic' \in [Queues -> Nat]
  <2>1. PICK q \in Queues : q = using[c]
    BY BuildMakes
  <2>2. builders[q] \in Seq(Messages) /\ topic[q] \in Nat
    BY <1>3
  <2>3. CASE /\ builders' = [builders EXCEPT ![q] =
                               Append(@, [topic |-> topic[q], callers |-> {c}])]
             /\ topic' = [topic EXCEPT ![q] = @ + 1]
             /\ [topic |-> topic[q], callers |-> {c}] \in Messages
    BY <1>3, <2>2, <2>3
  <2>4. ASSUME NEW m \in Messages, builders[q] # <<>>, UNCHANGED topic,
               builders' = [builders EXCEPT ![q] = [@ EXCEPT ![Len(builders[q])] = m]]
        PROVE  builders' \in [Queues -> Seq(Messages)] /\ topic' \in [Queues -> Nat]
    <3>1. [builders[q] EXCEPT ![Len(builders[q])] = m] \in Seq(Messages)
      BY <2>2, <2>4
    <3> QED BY <1>3, <2>4, <3>1
  <2> QED BY <2>1, <2>3, <2>4, BuildMakes
<1>5. TypeOK'
  BY <1>1, <1>2, <1>4 DEF Basics, TypeOK
<1>6. NotMadeIsIdle' /\ QueuesMatchConnections'
  BY <1>1 DEF Basics, NotMadeIsIdle, QueuesMatchConnections
<1>7. HasQueue'
  BY <1>1, <1>2 DEF Basics, HasQueue
<1> QED BY <1>2, <1>5, <1>6, <1>7 DEF Basics

\* The goroutine of a queue leaves the select, sends, or drains.
LEMMA RunQueueBasics ==
  ASSUME Basics, NEW q \in Queues, RunQueue(q)
  PROVE  Basics'
<1>0. /\ at \in [Queues -> {"none", "select", "sending", "drain", "leave", "released", "stopped"}]
      /\ builders \in [Queues -> Seq(Messages)] /\ builders[q] \in Seq(Messages)
      /\ sending \in [Queues -> Messages \union {Nothing}]
      /\ topic \in [Queues -> Nat]
  BY DEF Basics, TypeOK
<1>1. ASSUME NEW where \in {"select", "sending", "drain", "leave", "released", "stopped"},
             at[q] # "none", Go(q, where)
      PROVE  /\ at' \in [Queues -> {"none", "select", "sending", "drain", "leave", "released",
                                    "stopped"}]
             /\ \A p \in Queues : at'[p] = "none" <=> at[p] = "none"
  BY <1>0, <1>1 DEF Go
<1>2. builders[q] # <<>> => /\ Head(builders[q]) \in Messages
                            /\ [builders EXCEPT ![q] = Tail(@)] \in [Queues -> Seq(Messages)]
  BY <1>0
<1>3. CASE TakeMessage(q)
  <2>1. /\ at[q] = "select"
        /\ UNCHANGED <<registered, refcnt, made, up, unregistered, done, using, topic, caller,
                       granted, pending>>
    BY <1>3 DEF TakeMessage, manager, calls, memory
  <2>2. CASE UNCHANGED <<at, builders, sending>>
    BY <1>0, <2>1, <2>2, NobodyWoken, QueueKeepsBasics
  <2>3. CASE /\ builders[q] # <<>>
             /\ sending' = [sending EXCEPT ![q] = Head(builders[q])]
             /\ builders' = [builders EXCEPT ![q] = Tail(@)]
             /\ Go(q, "sending")
    <3>1. sending' \in [Queues -> Messages \union {Nothing}]
      BY <1>0, <1>2, <2>3
    <3> QED BY <1>0, <1>1, <1>2, <2>1, <2>3, <3>1, NobodyWoken, QueueKeepsBasics
  <2> QED BY <1>3, <2>2, <2>3 DEF TakeMessage
<1>4. ASSUME NEW event, Resolve(q, event) PROVE Basics'
  <2>1. /\ at[q] = "sending" /\ Release(Blocks(sending[q]))
        /\ sending' = [sending EXCEPT ![q] = Nothing]
        /\ Go(q, "select")
        /\ UNCHANGED <<registered, refcnt, made, up, unregistered, done, using, topic, builders>>
    BY <1>4 DEF Resolve, manager
  <2>2. Blocks(sending[q]) \in Nat
    BY <1>0, MessageFields, NothingFields
  <2>3. Woken
    BY <2>1, <2>2, ReleaseWakes DEF Basics
  <2>4. sending' \in [Queues -> Messages \union {Nothing}]
    BY <1>0, <2>1
  <2> QED BY <1>0, <1>1, <2>1, <2>3, <2>4, QueueKeepsBasics
<1>5. CASE TakeDone(q)
  <2>1. /\ at[q] = "select" /\ Go(q, AfterDone(q))
        /\ UNCHANGED <<registered, refcnt, made, up, unregistered, done, using, topic, caller,
                       granted, pending, builders, sending>>
    BY <1>5 DEF TakeDone, manager, calls, memory
  <2>2. AfterDone(q) \in {"drain", "leave"}
    BY DEF AfterDone
  <2> QED BY <1>0, <1>1, <2>1, <2>2, NobodyWoken, QueueKeepsBasics
<1>6. CASE Drain(q)
  <2>1. /\ at[q] = "drain"
        /\ UNCHANGED <<registered, refcnt, made, up, unregistered, done, using, topic, sending>>
    BY <1>6 DEF Drain, manager
  <2>2. CASE Go(q, "leave") /\ UNCHANGED <<builders, caller, granted, pending>>
    BY <1>0, <1>1, <2>1, <2>2, NobodyWoken, QueueKeepsBasics
  <2>3. CASE /\ builders[q] # <<>> /\ Release(Blocks(Head(builders[q])))
             /\ builders' = [builders EXCEPT ![q] = Tail(@)]
             /\ UNCHANGED at
    <3>1. Blocks(Head(builders[q])) \in Nat
      BY <1>2, <2>3, MessageFields
    <3>2. Woken
      BY <2>3, <3>1, ReleaseWakes DEF Basics
    <3> QED BY <1>0, <1>2, <2>1, <2>3, <3>2, QueueKeepsBasics
  <2> QED BY <1>6, <2>2, <2>3 DEF Drain, memory
<1>7. CASE LeaveMemory(q)
  <2>1. /\ at[q] = "leave" /\ ReleasePeerMemory /\ Go(q, "released")
        /\ UNCHANGED <<registered, refcnt, made, up, unregistered, done, using, topic, sending,
                       builders>>
    BY <1>7 DEF LeaveMemory, manager
  <2>2. Woken
    BY <2>1, ReleasePeerWakes DEF Basics
  <2> QED BY <1>0, <1>1, <2>1, <2>2, QueueKeepsBasics
<1>8. CASE LeavePublisher(q)
  <2>1. /\ at[q] = "released" /\ Go(q, "stopped")
        /\ UNCHANGED <<registered, refcnt, made, up, unregistered, done, using, topic, caller,
                       granted, pending, builders, sending>>
    BY <1>8 DEF LeavePublisher, manager, calls, memory
  <2> QED BY <1>0, <1>1, <2>1, NobodyWoken, QueueKeepsBasics
<1> QED BY <1>3, <1>4, <1>5, <1>6, <1>7, <1>8 DEF RunQueue

\* The manager is told of a connection.
LEMMA ConnectedBasics ==
  ASSUME Basics, NEW n \in Connections, Connected(n)
  PROVE  Basics'
<1>1. /\ n \notin up /\ up' = up \union {n} /\ GetOrCreate(References + 1)
      /\ UNCHANGED <<unregistered, done, builders, sending, topic, caller, using, granted,
                     pending>>
  BY DEF Connected, calls, memory
<1>2. References \in Nat /\ IsFiniteSet(up)
  BY DEF Basics, TypeOK, References
<1>3. /\ made' \in 0..MaxQueues /\ made <= made' /\ registered' \in 1..made'
      /\ refcnt' = References + 1
      /\ at' \in [Queues -> {"none", "select", "sending", "drain", "leave", "released",
                             "stopped"}]
      /\ registered # 0 => registered' = registered
      /\ \A q \in Queues : \/ at'[q] = at[q]
                           \/ at[q] = "none" /\ at'[q] = "select" /\ q = registered'
      /\ NotMadeIsIdle'
  BY <1>1, <1>2, GetOrCreateMakes DEF Basics
<1>4. IsFiniteSet(up') /\ Cardinality(up') = Cardinality(up) + 1
  BY <1>1, <1>2, FS_AddElement
<1>5. using' \in [Callers -> 0..made']
  <2>1. made \in Nat /\ made' \in Nat /\ using \in [Callers -> 0..made]
    BY <1>3, PeersAssumption DEF Basics, TypeOK
  <2> QED BY <1>1, <1>3, <2>1
<1>6. TypeOK'
  BY <1>1, <1>2, <1>3, <1>4, <1>5 DEF Basics, TypeOK
<1>7. PendingWait' /\ HasQueue'
  BY <1>1 DEF Basics, PendingWait, HasQueue
<1>8. QueuesMatchConnections'
  <2>1. registered' # 0 /\ refcnt' = Cardinality(up')
    <3>1. IF registered = 0 THEN up = {} ELSE refcnt = Cardinality(up)
      BY DEF Basics, QueuesMatchConnections
    <3>2. References = Cardinality(up)
      BY <3>1, FS_EmptySet DEF References
    <3> QED BY <1>3, <1>4, <3>2
  <2>2. ASSUME NEW q \in Queues, at'[q] # "none", q \notin done, q \notin unregistered
        PROVE  q = registered'
    <3>1. CASE at'[q] = at[q]
      <4>1. q = registered /\ q # 0
        BY <2>2, <3>1, SameSets DEF Basics, QueuesMatchConnections
      <4> QED BY <1>3, <4>1
    <3>2. CASE at'[q] # at[q]
      BY <1>3, <3>2
    <3> QED BY <3>1, <3>2
  <2> QED BY <1>1, <2>1, <2>2 DEF QueuesMatchConnections
<1> QED BY <1>3, <1>6, <1>7, <1>8 DEF Basics

\* The manager is told that a connection is gone.
LEMMA DisconnectedBasics ==
  ASSUME Basics, NEW n \in Connections, Disconnected(n)
  PROVE  Basics'
<1>1. /\ n \in up /\ up' = up \ {n}
      /\ UNCHANGED <<made, done, at, builders, sending, topic, caller, using, granted, pending>>
  BY DEF Disconnected, queue, calls, memory
<1>2. IsFiniteSet(up) /\ registered \in 0..made /\ made \in 0..MaxQueues /\ refcnt \in Nat
  BY DEF Basics, TypeOK
<1>3. /\ IsFiniteSet(up') /\ Cardinality(up') = Cardinality(up) - 1
      /\ Cardinality(up) \in Nat /\ Cardinality(up') \in Nat
      /\ Cardinality(up') = 0 <=> up' = {}
  BY <1>1, <1>2, FS_RemoveElement, FS_CardinalityType, FS_EmptySet
<1>4. registered # 0 /\ refcnt = Cardinality(up)
  BY <1>1 DEF Basics, QueuesMatchConnections
<1>5. NotMadeIsIdle' /\ PendingWait' /\ HasQueue'
  BY <1>1 DEF Basics, NotMadeIsIdle, PendingWait, HasQueue
<1>6. CASE /\ LastReference /\ registered' = 0 /\ refcnt' = 0
           /\ unregistered' = unregistered \union {registered}
  <2>1. up' = {}
    BY <1>3, <1>4, <1>6 DEF LastReference
  <2>2. registered \in Queues
    BY <1>2, <1>4, PeersAssumption DEF Queues
  <2>3. TypeOK'
    <3>1. registered' \in 0..made' /\ made' \in 0..MaxQueues /\ refcnt' \in Nat
      BY <1>1, <1>2, <1>6
    <3>2. IsFiniteSet(up') /\ unregistered' \subseteq Queues
      BY <1>3, <1>6, <2>2 DEF Basics, TypeOK
    <3> QED BY <1>1, <3>1, <3>2 DEF Basics, TypeOK
  <2>4. QueuesMatchConnections'
    BY <1>1, <1>6, <2>1 DEF Basics, QueuesMatchConnections
  <2> QED BY <1>5, <2>3, <2>4 DEF Basics
<1>7. CASE ~LastReference /\ refcnt' = refcnt - 1 /\ UNCHANGED <<registered, unregistered>>
  <2>1. TypeOK'
    BY <1>1, <1>2, <1>3, <1>7 DEF Basics, TypeOK, LastReference
  <2>2. QueuesMatchConnections'
    BY <1>1, <1>3, <1>4, <1>7 DEF Basics, QueuesMatchConnections
  <2> QED BY <1>5, <2>1, <2>2 DEF Basics
<1> QED BY <1>4, <1>6, <1>7 DEF Disconnected

\* A queue that was deleted is shut down.
LEMMA ShutdownBasics ==
  ASSUME Basics, NEW q \in Queues, Shutdown(q)
  PROVE  Basics'
<1>1. /\ unregistered' = unregistered \ {q} /\ done' = done \union {q}
      /\ UNCHANGED <<registered, refcnt, made, up, at, builders, sending, topic, caller, using,
                     granted, pending>>
  BY DEF Shutdown, calls, memory
<1>2. TypeOK'
  BY <1>1 DEF Basics, TypeOK
<1>3. QueuesMatchConnections'
  BY <1>1 DEF Basics, QueuesMatchConnections
<1>4. NotMadeIsIdle' /\ PendingWait' /\ HasQueue'
  BY <1>1 DEF Basics, NotMadeIsIdle, PendingWait, HasQueue
<1> QED BY <1>2, <1>3, <1>4 DEF Basics

\* What does not depend on the publishers holds in every state.
THEOREM BasicsHold == Spec => []Basics
<1>1. Init => Basics
  <2>1. SUFFICES ASSUME Init PROVE Basics
    OBVIOUS
  <2>2. TypeOK
    BY <2>1, PeersAssumption, FS_EmptySet DEF Init, TypeOK
  <2>3. NotMadeIsIdle /\ PendingWait /\ HasQueue /\ QueuesMatchConnections
    BY <2>1 DEF Init, NotMadeIsIdle, PendingWait, HasQueue, QueuesMatchConnections
  <2> QED BY <2>2, <2>3 DEF Basics
<1>2. Basics /\ [Next]_vars => Basics'
  <2>1. SUFFICES ASSUME Basics, [Next]_vars PROVE Basics'
    OBVIOUS
  <2>2. ASSUME UNCHANGED <<manager, queue, calls, memory>>
        PROVE  Basics'
    BY <2>1, <2>2 DEF manager, queue, calls, memory, Basics, TypeOK, NotMadeIsIdle,
       PendingWait, HasQueue, QueuesMatchConnections
  <2>3. ASSUME NEW c \in Callers, Call(c) PROVE Basics'
    BY <2>1, <2>3, GetProcessBasics, CreateProcessBasics, AllocateBasics, BuildMessageBasics,
       SignalWorkBasics DEF Call
  <2>4. ASSUME NEW q \in Queues, Shutdown(q) \/ RunQueue(q) \/ Notify(q) PROVE Basics'
    BY <2>1, <2>2, <2>4, ShutdownBasics, RunQueueBasics DEF Notify
  <2>5. ASSUME NEW n \in Connections, Connected(n) \/ Disconnected(n) PROVE Basics'
    BY <2>1, <2>5, ConnectedBasics, DisconnectedBasics
  <2> QED BY <2>1, <2>2, <2>3, <2>4, <2>5 DEF Next, vars
<1> QED BY <1>1, <1>2, PTL DEF Spec

\* Connected, Disconnected and getOrCreate for a peer, with any number of connections
\* and calls: the reference count of the registered queue is the number of connections
\* up, none is up without one, and no queue is left running that nobody stops.  A queue
\* made by GetProcess alone is registered with count 0.
THEOREM QueuesMatchConnectionsHolds == Spec => []QueuesMatchConnections
<1>1. Basics => QueuesMatchConnections
  BY DEF Basics
<1> QED BY <1>1, BasicsHold, PTL

-----------------------------------------------------------------------------
(* Sequences of commands *)

\* What is in two sequences together.
LEMMA RangeConcat ==
  ASSUME NEW S, NEW s \in Seq(S), NEW t \in Seq(S)
  PROVE  s \o t \in Seq(S) /\ Range(s \o t) = Range(s) \union Range(t)
<1>1. /\ s \o t \in Seq(S)
      /\ Len(s \o t) = Len(s) + Len(t)
      /\ \A i \in 1..Len(s) : (s \o t)[i] = s[i]
      /\ \A i \in 1..Len(t) : (s \o t)[Len(s) + i] = t[i]
  OBVIOUS
<1>2. /\ DOMAIN (s \o t) = 1..(Len(s) + Len(t)) /\ DOMAIN s = 1..Len(s)
      /\ DOMAIN t = 1..Len(t) /\ Len(s) \in Nat /\ Len(t) \in Nat
  OBVIOUS
<1> DEFINE u == s \o t
<1> HIDE DEF u
<1>3. \A x \in Range(u) : x \in Range(s) \union Range(t)
  <2>1. SUFFICES ASSUME NEW i \in 1..(Len(s) + Len(t))
                 PROVE  u[i] \in Range(s) \union Range(t)
    BY <1>2 DEF Range, u
  <2>2. CASE i \in 1..Len(s)
    BY <1>1, <1>2, <2>2 DEF Range, u
  <2>3. CASE i \notin 1..Len(s)
    <3>1. i - Len(s) \in 1..Len(t) /\ Len(s) + (i - Len(s)) = i
      BY <1>2, <2>3
    <3>2. u[i] = t[i - Len(s)]
      BY <1>1, <3>1 DEF u
    <3> QED BY <1>2, <3>1, <3>2 DEF Range
  <2> QED BY <2>2, <2>3
<1>4. \A x \in Range(s) : x \in Range(u)
  <2>1. \A i \in 1..Len(s) : i \in 1..(Len(s) + Len(t))
    BY <1>2
  <2> QED BY <1>1, <1>2, <2>1 DEF Range, u
<1>5. \A x \in Range(t) : x \in Range(u)
  <2>1. \A i \in 1..Len(t) : Len(s) + i \in 1..(Len(s) + Len(t))
    BY <1>2
  <2> QED BY <1>1, <1>2, <2>1 DEF Range, u
<1> QED BY <1>1, <1>3, <1>4, <1>5 DEF u

\* The first element and the others.
LEMMA RangeTail ==
  ASSUME NEW S, NEW s \in Seq(S), s # <<>>
  PROVE  /\ Tail(s) \in Seq(S) /\ Head(s) \in S /\ Head(s) \in Range(s)
         /\ Range(s) = Range(Tail(s)) \union {Head(s)}
<1>1. /\ Tail(s) \in Seq(S) /\ Len(Tail(s)) = Len(s) - 1 /\ Len(s) \in Nat \ {0}
      /\ \A i \in 1..(Len(s) - 1) : Tail(s)[i] = s[i + 1]
      /\ Head(s) = s[1] /\ Head(s) \in S
      /\ DOMAIN s = 1..Len(s) /\ DOMAIN Tail(s) = 1..(Len(s) - 1)
  OBVIOUS
<1> DEFINE u == Tail(s)
           h == Head(s)
<1> HIDE DEF u, h
<1>2. h \in Range(s)
  BY <1>1 DEF Range, h
<1>3. \A x \in Range(u) : x \in Range(s)
  <2>1. \A i \in 1..(Len(s) - 1) : i + 1 \in 1..Len(s)
    BY <1>1
  <2> QED BY <1>1, <2>1 DEF Range, u
<1>4. \A x \in Range(s) : x \in Range(u) \/ x = h
  <2>1. SUFFICES ASSUME NEW i \in 1..Len(s) PROVE s[i] \in Range(u) \/ s[i] = h
    BY <1>1 DEF Range
  <2>2. CASE i = 1
    BY <1>1, <2>2 DEF h
  <2>3. CASE i # 1
    <3>1. i - 1 \in 1..(Len(s) - 1) /\ (i - 1) + 1 = i
      BY <1>1, <2>3
    <3>2. u[i - 1] = s[i]
      BY <1>1, <3>1 DEF u
    <3> QED BY <1>1, <3>1, <3>2 DEF Range, u
  <2> QED BY <2>2, <2>3
<1> QED BY <1>1, <1>2, <1>3, <1>4 DEF u, h

\* One more command at the end of the queue, or several.
LEMMA OrderConcat ==
  ASSUME NEW S, NEW s \in Seq(S), NEW t \in Seq(S), InOrder(s), InOrder(t),
         \A x \in Range(s) : \A y \in Range(t) : Before(x, y)
  PROVE  InOrder(s \o t)
<1>1. /\ \A i \in 1..Len(s) : (s \o t)[i] = s[i]
      /\ \A i \in 1..Len(t) : (s \o t)[Len(s) + i] = t[i]
      /\ DOMAIN (s \o t) = 1..(Len(s) + Len(t)) /\ DOMAIN s = 1..Len(s)
      /\ DOMAIN t = 1..Len(t) /\ Len(s) \in Nat /\ Len(t) \in Nat
  OBVIOUS
<1> DEFINE u == s \o t
<1> HIDE DEF u
<1>2. SUFFICES ASSUME NEW i \in 1..(Len(s) + Len(t)), NEW j \in 1..(Len(s) + Len(t)), i < j
               PROVE  Before(u[i], u[j])
  BY <1>1 DEF InOrder, u
<1>3. CASE j \in 1..Len(s)
  <2>1. i \in 1..Len(s)
    BY <1>1, <1>2, <1>3
  <2> QED BY <1>1, <1>2, <1>3, <2>1 DEF InOrder, u
<1>4. CASE i \notin 1..Len(s)
  <2>1. /\ i - Len(s) \in 1..Len(t) /\ Len(s) + (i - Len(s)) = i
        /\ j - Len(s) \in 1..Len(t) /\ Len(s) + (j - Len(s)) = j
        /\ i - Len(s) < j - Len(s)
    BY <1>1, <1>2, <1>4
  <2>2. u[i] = t[i - Len(s)] /\ u[j] = t[j - Len(s)]
    BY <1>1, <2>1 DEF u
  <2> QED BY <1>1, <2>1, <2>2 DEF InOrder
<1>5. CASE i \in 1..Len(s) /\ j \notin 1..Len(s)
  <2>1. j - Len(s) \in 1..Len(t) /\ Len(s) + (j - Len(s)) = j
    BY <1>1, <1>2, <1>5
  <2>2. u[i] = s[i] /\ u[j] = t[j - Len(s)]
    BY <1>1, <1>5, <2>1 DEF u
  <2>3. u[i] \in Range(s) /\ u[j] \in Range(t)
    BY <1>1, <1>5, <2>1, <2>2 DEF Range
  <2> QED BY <2>3
<1> QED BY <1>3, <1>4, <1>5

\* The first command comes before the others, which are in order.
LEMMA OrderTail ==
  ASSUME NEW S, NEW s \in Seq(S), s # <<>>, InOrder(s)
  PROVE  InOrder(Tail(s)) /\ \A x \in Range(Tail(s)) : Before(Head(s), x)
<1>1. /\ Len(s) \in Nat \ {0}
      /\ \A i \in 1..(Len(s) - 1) : Tail(s)[i] = s[i + 1]
      /\ Head(s) = s[1]
      /\ DOMAIN s = 1..Len(s) /\ DOMAIN Tail(s) = 1..(Len(s) - 1)
  OBVIOUS
<1> DEFINE u == Tail(s)
           h == Head(s)
<1> HIDE DEF u, h
<1>2. \A i \in 1..(Len(s) - 1) : i + 1 \in 1..Len(s) /\ 1 < i + 1
  BY <1>1
<1>3. 1 \in 1..Len(s)
  BY <1>1
<1>4. \A i \in 1..(Len(s) - 1) : Before(h, u[i])
  BY <1>1, <1>2, <1>3 DEF InOrder, u, h
<1>5. \A i, j \in 1..(Len(s) - 1) : i < j => Before(u[i], u[j])
  <2>1. SUFFICES ASSUME NEW i \in 1..(Len(s) - 1), NEW j \in 1..(Len(s) - 1), i < j
                 PROVE  Before(u[i], u[j])
    OBVIOUS
  <2>2. i + 1 < j + 1
    BY <2>1
  <2> QED BY <1>1, <1>2, <2>2 DEF InOrder, u
<1> QED BY <1>1, <1>4, <1>5 DEF InOrder, Range, u, h

\* The messages of a queue in the same way: what is left is in order and younger than
\* what was taken.
LEMMA MessagesTail ==
  ASSUME NEW s \in Seq(Messages), s # <<>>,
         \A k, n \in DOMAIN s : k < n => s[k].topic < s[n].topic
  PROVE  /\ \A k, n \in DOMAIN Tail(s) : k < n => Tail(s)[k].topic < Tail(s)[n].topic
         /\ \A m \in Range(Tail(s)) : Head(s).topic < m.topic
<1>1. /\ Len(s) \in Nat \ {0}
      /\ \A i \in 1..(Len(s) - 1) : Tail(s)[i] = s[i + 1]
      /\ Head(s) = s[1]
      /\ DOMAIN s = 1..Len(s) /\ DOMAIN Tail(s) = 1..(Len(s) - 1)
  OBVIOUS
<1> DEFINE u == Tail(s)
           h == Head(s)
<1> HIDE DEF u, h
<1>2. \A i \in 1..(Len(s) - 1) : i + 1 \in 1..Len(s) /\ 1 < i + 1
  BY <1>1
<1>3. 1 \in 1..Len(s)
  BY <1>1
<1>4. \A i \in 1..(Len(s) - 1) : h.topic < u[i].topic
  BY <1>1, <1>2, <1>3 DEF u, h
<1>5. \A i, j \in 1..(Len(s) - 1) : i < j => u[i].topic < u[j].topic
  <2>1. SUFFICES ASSUME NEW i \in 1..(Len(s) - 1), NEW j \in 1..(Len(s) - 1), i < j
                 PROVE  u[i].topic < u[j].topic
    OBVIOUS
  <2>2. i + 1 < j + 1
    BY <2>1
  <2> QED BY <1>1, <1>2, <2>2 DEF u
<1> QED BY <1>1, <1>4, <1>5 DEF Range, u, h

-----------------------------------------------------------------------------
(* What a subscriber is told: the queues a step leaves alone *)

\* A step keeps what the queue and its publisher have.
SameQueue(p) ==
  /\ cmds'[p] = cmds[p] /\ topics'[p] = topics[p] /\ (p \in closed' <=> p \in closed)
  /\ builders'[p] = builders[p] /\ sending'[p] = sending[p] /\ topic'[p] = topic[p]
  /\ at'[p] = "sending" <=> at[p] = "sending"
  /\ at[p] = "stopped" => at'[p] = "stopped"

\* A call that has built its message has done so for good, in the same queue.
BuiltForGood ==
  \A c \in Callers : HasBuilt(c) => HasBuilt(c)' /\ using'[c] = using[c]

\* The messages and commands of the queue are in order as before.
LEMMA SameQueueInv ==
  ASSUME NEW p \in Queues, QueueInv(p), SameQueue(p)
  PROVE  QueueInv(p)'
BY DEF QueueInv, CommandInv, SameQueue

\* The subscribers of the queue are where they were.
LEMMA SameAttached ==
  ASSUME NEW p \in Queues, SameQueue(p)
  PROVE  \A t, c : Attached(p, t, c)' <=> Attached(p, t, c)
BY DEF Attached, SameQueue

\* Nothing is new for a subscriber of the queue.
LEMMA SameSubscriberInv ==
  ASSUME NEW p \in Queues, NEW c \in Callers, SubscriberInv(p, c), SameQueue(p),
         told'[c] = told[c], BuiltForGood
  PROVE  SubscriberInv(p, c)'
<1>1. \A t \in Nat : Attached(p, t, c)' <=> Attached(p, t, c)
  BY SameAttached
<1>2. Built(p, c)' <=> Built(p, c)
  BY DEF Built, SameQueue
<1>3. \A t \in Nat : AttachedInv(p, t, c) => AttachedInv(p, t, c)'
  BY DEF AttachedInv, SameQueue
<1>4. builders'[p] = builders[p]
  BY DEF SameQueue
<1> QED BY <1>1, <1>2, <1>3, <1>4 DEF SubscriberInv, BuiltForGood

\* A subscriber that is told nothing stays in order while no publisher loses it.
LEMMA SameToldIsWhole ==
  ASSUME NEW c \in Callers, ToldIsWhole(c), told'[c] = told[c], BuiltForGood,
         \A q \in Queues : \A t \in Nat : Attached(q, t, c) => Attached(q, t, c)'
  PROVE  ToldIsWhole(c)'
BY DEF ToldIsWhole, BuiltForGood

\* A step of the queue q that tells nobody anything.
LEMMA QueueStepKeeps ==
  ASSUME Pipeline, NEW q \in Queues, PublishersOK', BuiltForGood, told' = told,
         \A p \in Queues \ {q} : SameQueue(p),
         QueueInv(q)',
         \A c \in Callers : SubscriberInv(q, c)',
         \A c \in Callers : \A t \in Nat : Attached(q, t, c) => Attached(q, t, c)'
  PROVE  Pipeline'
<1>1. ASSUME NEW p \in Queues PROVE QueueInv(p)'
  BY <1>1, SameQueueInv DEF Pipeline
<1>2. ASSUME NEW p \in Queues, NEW c \in Callers PROVE SubscriberInv(p, c)'
  BY <1>2, SameSubscriberInv DEF Pipeline
<1>3. ASSUME NEW c \in Callers PROVE ToldIsWhole(c)'
  <2>1. \A p \in Queues : \A t \in Nat : Attached(p, t, c) => Attached(p, t, c)'
    BY SameAttached
  <2> QED BY <2>1, SameToldIsWhole DEF Pipeline
<1> QED BY <1>1, <1>2, <1>3 DEF Pipeline

\* A step that no queue and no publisher takes part in.
LEMMA NoQueueStepKeeps ==
  ASSUME Pipeline, PublishersOK', BuiltForGood, told' = told,
         \A p \in Queues : SameQueue(p)
  PROVE  Pipeline'
<1>1. ASSUME NEW p \in Queues PROVE QueueInv(p)'
  BY <1>1, SameQueueInv DEF Pipeline
<1>2. ASSUME NEW p \in Queues, NEW c \in Callers PROVE SubscriberInv(p, c)'
  BY <1>2, SameSubscriberInv DEF Pipeline
<1>3. ASSUME NEW c \in Callers PROVE ToldIsWhole(c)'
  <2>1. \A p \in Queues : \A t \in Nat : Attached(p, t, c) => Attached(p, t, c)'
    BY SameAttached
  <2> QED BY <2>1, SameToldIsWhole DEF Pipeline
<1> QED BY <1>1, <1>2, <1>3 DEF Pipeline

\* The queues, their publishers and what the calls have built stay; a call may go on
\* and the goroutine of a queue may move between states in which it sends nothing.
LEMMA QuietStep ==
  ASSUME Pipeline, UNCHANGED <<builders, sending, topic, publisherVars>>, BuiltForGood,
         \A p \in Queues : /\ at'[p] = "sending" <=> at[p] = "sending"
                           /\ at[p] = "stopped" => at'[p] = "stopped"
  PROVE  Pipeline'
<1>1. \A p \in Queues : SameQueue(p)
  BY DEF SameQueue, publisherVars
<1>2. PublishersOK'
  BY DEF Pipeline, PublishersOK, publisherVars
<1> QED BY <1>1, <1>2, NoQueueStepKeeps DEF publisherVars

\* Calls that are woken have built what they had built.
LEMMA WokenBuilt ==
  ASSUME Woken, UNCHANGED using
  PROVE  BuiltForGood
BY DEF Woken, BuiltForGood, HasBuilt

\* A call that goes on has built what it had built.
LEMMA StepBuilt ==
  ASSUME Basics, NEW c \in Callers, NEW where, Step(c, where),
         HasBuilt(c) => where = "signalled" /\ using'[c] = using[c],
         \A d \in Callers \ {c} : using'[d] = using[d]
  PROVE  BuiltForGood
<1>1. caller' = [caller EXCEPT ![c] = where]
  BY DEF Step
<1>2. \A d \in Callers : caller'[d] = IF d = c THEN where ELSE caller[d]
  BY <1>1 DEF Basics, TypeOK
<1> QED BY <1>2 DEF BuiltForGood, HasBuilt

\* getOrCreate starts a queue, and stops none.
LEMMA GetOrCreateQuiet ==
  ASSUME Basics, NEW count \in Nat, GetOrCreate(count)
  PROVE  \A p \in Queues : /\ at'[p] = "sending" <=> at[p] = "sending"
                           /\ at[p] = "stopped" => at'[p] = "stopped"
BY GetOrCreateMakes DEF Basics

\* The notifications of the network leave the messages alone.
LEMMA ManagerPipeline ==
  ASSUME Basics, Pipeline,
         \/ \E n \in Connections : Connected(n) \/ Disconnected(n)
         \/ \E q \in Queues : Shutdown(q)
  PROVE  Pipeline'
<1>1. UNCHANGED <<builders, sending, topic, publisherVars, caller, using>>
  BY DEF Connected, Disconnected, Shutdown, calls, queue, publisherVars
<1>2. BuiltForGood
  BY <1>1 DEF BuiltForGood, HasBuilt
<1>3. \A p \in Queues : /\ at'[p] = "sending" <=> at[p] = "sending"
                        /\ at[p] = "stopped" => at'[p] = "stopped"
  <2>1. ASSUME NEW n \in Connections, Connected(n)
        PROVE  \A p \in Queues : /\ at'[p] = "sending" <=> at[p] = "sending"
                                 /\ at[p] = "stopped" => at'[p] = "stopped"
    <3>1. References + 1 \in Nat /\ GetOrCreate(References + 1)
      BY <2>1 DEF Basics, TypeOK, References, Connected
    <3> QED BY <3>1, GetOrCreateQuiet
  <2>2. CASE UNCHANGED at
    BY <2>2
  <2> QED BY <2>1, <2>2 DEF Disconnected, Shutdown, queue
<1> QED BY <1>1, <1>2, <1>3, QuietStep

\* A call looks for its queue, asks for memory or signals.
LEMMA CallPipeline ==
  ASSUME Basics, Pipeline, NEW c \in Callers,
         GetProcess(c) \/ CreateProcess(c) \/ Allocate(c) \/ SignalWork(c)
  PROVE  Pipeline'
<1>0. UNCHANGED <<builders, sending, topic, publisherVars>>
  BY DEF GetProcess, CreateProcess, Allocate, SignalWork, queue, publisherVars
<1>1. using \in [Callers -> 0..made]
  BY DEF Basics, TypeOK
<1>2. CASE GetProcess(c)
  <2>1. UNCHANGED at
    BY <1>2 DEF GetProcess, queue
  <2>2. \A d \in Callers \ {c} : using'[d] = using[d]
    BY <1>1, <1>2 DEF GetProcess
  <2>3. ~HasBuilt(c) /\ (Step(c, "got") \/ Step(c, "missed"))
    BY <1>2 DEF GetProcess, HasBuilt
  <2>4. BuiltForGood
    BY <2>2, <2>3, StepBuilt
  <2> QED BY <1>0, <2>1, <2>4, QuietStep
<1>3. CASE CreateProcess(c)
  <2>1. \A d \in Callers \ {c} : using'[d] = using[d]
    BY <1>1, <1>3 DEF CreateProcess
  <2>2. ~HasBuilt(c) /\ Step(c, "got")
    BY <1>3 DEF CreateProcess, HasBuilt
  <2>3. BuiltForGood
    BY <2>1, <2>2, StepBuilt
  <2>4. References \in Nat /\ GetOrCreate(References)
    BY <1>3 DEF Basics, TypeOK, References, CreateProcess
  <2> QED BY <1>0, <2>3, <2>4, GetOrCreateQuiet, QuietStep
<1>4. CASE Allocate(c)
  <2>1. UNCHANGED <<at, using>>
    BY <1>4 DEF Allocate, queue
  <2>2. ~HasBuilt(c) /\ (Step(c, "granted") \/ Step(c, "waiting"))
    BY <1>4 DEF Allocate, HasBuilt
  <2>3. BuiltForGood
    BY <2>1, <2>2, StepBuilt
  <2> QED BY <1>0, <2>1, <2>3, QuietStep
<1>5. CASE SignalWork(c)
  <2>1. UNCHANGED <<at, using>> /\ Step(c, "signalled")
    BY <1>5 DEF SignalWork
  <2>2. BuiltForGood
    BY <2>1, StepBuilt
  <2> QED BY <1>0, <2>1, <2>2, QuietStep
<1> QED BY <1>2, <1>3, <1>4, <1>5

\* The goroutine of a queue finds nothing to send, is told to stop, or leaves.
LEMMA IdlePipeline ==
  ASSUME Basics, Pipeline, NEW q \in Queues,
         \/ TakeMessage(q) /\ builders[q] = <<>>
         \/ TakeDone(q)
         \/ Drain(q) /\ builders[q] = <<>>
         \/ LeaveMemory(q)
  PROVE  Pipeline'
<1>1. UNCHANGED <<builders, sending, topic, publisherVars, using>>
  BY DEF TakeMessage, TakeDone, Drain, LeaveMemory, calls, publisherVars
<1>2. Woken
  <2>1. CASE LeaveMemory(q)
    BY <2>1, ReleasePeerWakes DEF LeaveMemory, Basics
  <2>2. CASE UNCHANGED <<caller, granted, pending>>
    BY <2>2, NobodyWoken
  <2> QED BY <2>1, <2>2 DEF TakeMessage, TakeDone, Drain, calls, memory
<1>3. \A p \in Queues : /\ at'[p] = "sending" <=> at[p] = "sending"
                        /\ at[p] = "stopped" => at'[p] = "stopped"
  <2>1. at \in [Queues -> {"none", "select", "sending", "drain", "leave", "released", "stopped"}]
    BY DEF Basics, TypeOK
  <2>2. \/ at' = at
        \/ \E where \in {"drain", "leave", "released"} :
             at[q] \in {"select", "drain", "leave"} /\ at' = [at EXCEPT ![q] = where]
    BY DEF TakeMessage, TakeDone, AfterDone, Drain, LeaveMemory, Go
  <2> QED BY <2>1, <2>2
<1> QED BY <1>1, <1>2, <1>3, WokenBuilt, QuietStep

-----------------------------------------------------------------------------
(* What a subscriber is told: a message is taken *)

\* The commands by their fields.
LEMMA CommandFields ==
  ASSUME NEW t \in Nat
  PROVE  /\ \A c \in Callers : Subscribe(t, c) \in Commands /\ Subscribes(Subscribe(t, c), t, c)
         /\ \A e \in {"queued", "sent", "error"} :
              Publish(t, e) \in Commands /\ Publishes(Publish(t, e), t, e)
         /\ Close(t) \in Commands /\ Closes(Close(t), t)
BY DEF Subscribe, Publish, Close, Commands, Ops, Args, Subscribes, Publishes, Closes

\* A command of any queue has a topic that is a number.
LEMMA CommandTopic ==
  ASSUME NEW cmd \in Commands
  PROVE  cmd.topic \in Nat /\ cmd.op \in Ops
BY DEF Commands

\* Before a message's events come the subscriptions of its callers.
LEMMA SubscriptionsMake ==
  ASSUME NEW m \in Messages
  PROVE  /\ Subscriptions(m) \in Seq(Commands)
         /\ \A cmd \in Range(Subscriptions(m)) :
              \E c \in m.callers : cmd \in Commands /\ Subscribes(cmd, m.topic, c)
<1>0. m.topic \in Nat /\ m.callers \subseteq Callers /\ IsFiniteSet(m.callers)
  BY MessageFields
<1> DEFINE n == Cardinality(m.callers)
           s == SetToSeq(m.callers)
<1>1. n \in Nat /\ ExistsBijection(1..n, m.callers)
  BY <1>0, FS_CardinalityType
<1>2. PICK f \in Bijection(1..n, m.callers) : TRUE
  BY <1>1 DEF ExistsBijection
<1>3. f \in [1..n -> m.callers] /\ IsInjective(f)
  BY <1>2 DEF Bijection, Injection, IsInjective
<1>4. s \in [1..n -> m.callers]
  BY <1>3 DEF SetToSeq
<1> HIDE DEF s, n
<1>5. Subscriptions(m) = [i \in 1..n |-> Subscribe(m.topic, s[i])]
  BY <1>4 DEF Subscriptions, s
<1>6. \A i \in 1..n : s[i] \in Callers /\ s[i] \in m.callers
  BY <1>0, <1>4
<1>7. \A i \in 1..n : /\ Subscribe(m.topic, s[i]) \in Commands
                      /\ Subscribes(Subscribe(m.topic, s[i]), m.topic, s[i])
  BY <1>0, <1>6, CommandFields
<1>8. Subscriptions(m) \in Seq(Commands)
  BY <1>1, <1>5, <1>7
<1>9. \A cmd \in Range(Subscriptions(m)) : \E i \in 1..n : cmd = Subscribe(m.topic, s[i])
  BY <1>5 DEF Range
<1> QED BY <1>6, <1>7, <1>8, <1>9

\* The events of a message that was taken come after its subscriptions and concern it
\* alone; it was not sent already.
Events(m, R) ==
  /\ R \in Seq(Commands)
  /\ InOrder(R)
  /\ \A x \in Range(R) : Publishes(x, m.topic, "queued") \/ Publishes(x, m.topic, "error")
                         \/ Closes(x, m.topic)

\* What the publisher gets when the message m is taken.
LEMMA TakenCommands ==
  ASSUME NEW m \in Messages, NEW R, Events(m, R)
  PROVE  /\ Subscriptions(m) \o R \in Seq(Commands)
         /\ InOrder(Subscriptions(m) \o R)
         /\ \A x \in Range(Subscriptions(m) \o R) :
              \/ \E c \in m.callers : Subscribes(x, m.topic, c)
              \/ x \in Range(R)
         /\ Range(R) \subseteq Range(Subscriptions(m) \o R)
<1> DEFINE s == Subscriptions(m)
<1>1. /\ s \in Seq(Commands) /\ R \in Seq(Commands) /\ InOrder(R)
      /\ \A x \in Range(s) : \E c \in m.callers : Subscribes(x, m.topic, c)
      /\ \A x \in Range(R) : Publishes(x, m.topic, "queued") \/ Publishes(x, m.topic, "error")
                             \/ Closes(x, m.topic)
  BY SubscriptionsMake DEF Events
<1> HIDE DEF s
<1>2. s \o R \in Seq(Commands) /\ Range(s \o R) = Range(s) \union Range(R)
  BY <1>1, RangeConcat
<1>3. m.topic \in Nat
  BY MessageFields
<1>4. \A x, y \in Range(s) : Before(x, y)
  BY <1>1 DEF Subscribes, Before, Rank
<1>5. InOrder(s)
  BY <1>4 DEF InOrder, Range
<1>6. \A x \in Range(s) : \A y \in Range(R) : Before(x, y)
  BY <1>1 DEF Subscribes, Publishes, Closes, Before, Rank
<1>7. InOrder(s \o R)
  BY <1>1, <1>5, <1>6, OrderConcat
<1> QED BY <1>1, <1>2, <1>7 DEF s

\* The first message of a queue goes to the publisher: its callers are subscribed and
\* the events R are published.
Taken(q, m, R) ==
  /\ builders[q] # <<>> /\ m = Head(builders[q])
  /\ builders' = [builders EXCEPT ![q] = Tail(@)]
  /\ Queue(q, Subscriptions(m) \o R)
  /\ UNCHANGED <<topic, using>>
  /\ at[q] \in {"select", "drain"}
  /\ \A p \in Queues \ {q} : at'[p] = at[p] /\ sending'[p] = sending[p]

\* What is the same for a message that is sent and one that is failed.
LEMMA TakenFacts ==
  ASSUME Basics, Pipeline, NEW q \in Queues, NEW m, NEW R, Events(m, R), Taken(q, m, R)
  PROVE  /\ m \in Messages /\ m \in Range(builders[q]) /\ m.topic \in Nat
         /\ q \notin closed /\ sending[q] = Nothing /\ sending[q].topic = -1
         /\ cmds[q] \in Seq(Commands)
         /\ cmds' = [cmds EXCEPT ![q] = cmds[q] \o (Subscriptions(m) \o R)]
         /\ cmds'[q] \in Seq(Commands)
         /\ Range(cmds'[q]) = Range(cmds[q]) \union Range(Subscriptions(m) \o R)
         /\ InOrder(cmds'[q])
         /\ \A x \in Range(cmds[q]) : x.op # "shutdown" /\ x.topic < m.topic
         /\ builders'[q] = Tail(builders[q])
         /\ Range(builders[q]) = Range(builders'[q]) \union {m}
         /\ \A n \in Range(builders'[q]) : m.topic < n.topic
         /\ \A k, n \in DOMAIN builders'[q] : k < n => builders'[q][k].topic < builders'[q][n].topic
<1>1. /\ builders \in [Queues -> Seq(Messages)] /\ builders[q] \in Seq(Messages)
      /\ cmds \in [Queues -> Seq(Commands)] /\ cmds[q] \in Seq(Commands)
  BY DEF Basics, TypeOK, Pipeline, PublishersOK
<1>2. QueueInv(q) /\ at[q] \in {"select", "drain"}
  BY DEF Pipeline, Taken
<1>3. q \notin closed /\ sending[q] = Nothing /\ sending[q].topic = -1
  BY <1>2, NothingFields DEF QueueInv
<1>4. /\ builders[q] # <<>> /\ m = Head(builders[q])
      /\ builders' = [builders EXCEPT ![q] = Tail(@)]
      /\ cmds' = [cmds EXCEPT ![q] = cmds[q] \o (Subscriptions(m) \o R)]
  BY <1>3 DEF Taken, Queue
<1>5. builders'[q] = Tail(builders[q])
  BY <1>1, <1>4
<1>6. /\ m \in Messages /\ m \in Range(builders[q])
      /\ Range(builders[q]) = Range(builders'[q]) \union {m}
  BY <1>1, <1>4, <1>5, RangeTail
<1>7. m.topic \in Nat
  BY <1>6, MessageFields
<1>8. /\ \A n \in Range(builders'[q]) : m.topic < n.topic
      /\ \A k, n \in DOMAIN builders'[q] : k < n => builders'[q][k].topic < builders'[q][n].topic
  <2>1. \A k, n \in DOMAIN builders[q] : k < n => builders[q][k].topic < builders[q][n].topic
    BY <1>2 DEF QueueInv
  <2> QED BY <1>1, <1>4, <1>5, <2>1, MessagesTail
<1>9. \A x \in Range(cmds[q]) : x.op # "shutdown" /\ x.topic < m.topic
  BY <1>2, <1>3, <1>6 DEF QueueInv, CommandInv
<1> DEFINE N == Subscriptions(m) \o R
<1>10. /\ N \in Seq(Commands) /\ InOrder(N)
       /\ \A x \in Range(N) : \/ \E c \in m.callers : Subscribes(x, m.topic, c)
                              \/ x \in Range(R)
  BY <1>6, TakenCommands
<1> HIDE DEF N
<1>11. \A x \in Range(cmds[q]) : \A y \in Range(N) : Before(x, y)
  <2>1. \A y \in Range(N) : y.topic = m.topic
    BY <1>10 DEF Events, Subscribes, Publishes, Closes
  <2> QED BY <1>9, <2>1 DEF Before
<1>12. /\ cmds[q] \o N \in Seq(Commands)
       /\ Range(cmds[q] \o N) = Range(cmds[q]) \union Range(N)
  BY <1>1, <1>10, RangeConcat
<1>13. InOrder(cmds[q] \o N)
  BY <1>1, <1>2, <1>10, <1>11, OrderConcat DEF QueueInv
<1>14. cmds'[q] = cmds[q] \o N
  BY <1>1, <1>4 DEF N
<1>15. /\ cmds'[q] \in Seq(Commands) /\ InOrder(cmds'[q])
       /\ Range(cmds'[q]) = Range(cmds[q]) \union Range(N)
  BY <1>12, <1>13, <1>14
<1> QED BY <1>1, <1>3, <1>4, <1>5, <1>6, <1>7, <1>8, <1>9, <1>15 DEF N

\* The message is being sent and its subscribers hear that it was queued, or it has
\* failed and they hear that and that there is no more.
SentOrFailed(q, m, R) ==
  \/ /\ at'[q] = "sending" /\ sending'[q] = m
     /\ \A x \in Range(R) : Publishes(x, m.topic, "queued")
     /\ \E x \in Range(R) : Publishes(x, m.topic, "queued")
  \/ /\ at'[q] = "drain" /\ sending'[q] = Nothing
     /\ \E x \in Range(R) : Publishes(x, m.topic, "error")
     /\ \E x \in Range(R) : Closes(x, m.topic)

\* The queue's messages and commands are in order after a message was taken.
LEMMA TakenQueueInv ==
  ASSUME Basics, Pipeline, NEW q \in Queues, NEW m, NEW R, Events(m, R), Taken(q, m, R),
         SentOrFailed(q, m, R)
  PROVE  QueueInv(q)'
<1> DEFINE N == Subscriptions(m) \o R
<1>1. /\ m \in Messages /\ m \in Range(builders[q]) /\ m.topic \in Nat
      /\ q \notin closed /\ sending[q].topic = -1
      /\ cmds[q] \in Seq(Commands)
      /\ Range(cmds'[q]) = Range(cmds[q]) \union Range(N)
      /\ InOrder(cmds'[q])
      /\ \A x \in Range(cmds[q]) : x.op # "shutdown" /\ x.topic < m.topic
      /\ Range(builders[q]) = Range(builders'[q]) \union {m}
      /\ \A n \in Range(builders'[q]) : m.topic < n.topic
      /\ \A k, n \in DOMAIN builders'[q] : k < n => builders'[q][k].topic < builders'[q][n].topic
  BY TakenFacts
<1>2. \A x \in Range(N) : (\E c \in m.callers : Subscribes(x, m.topic, c)) \/ x \in Range(R)
  BY <1>1, TakenCommands
<1> HIDE DEF N
<1>3. UNCHANGED <<closed, topic>>
  BY DEF Taken, Queue
<1>4. QueueInv(q) /\ topic[q] \in Nat
  BY DEF Pipeline, Basics, TypeOK
<1>5. /\ \A n \in Range(builders[q]) : n.topic < topic[q]
      /\ \A x \in Range(cmds[q]) : CommandInv(q, x)
  BY <1>4 DEF QueueInv
<1>6. \A x \in Range(R) : Publishes(x, m.topic, "queued") \/ Publishes(x, m.topic, "error")
                          \/ Closes(x, m.topic)
  BY DEF Events
<1>7. ASSUME NEW x \in Range(cmds'[q]) PROVE CommandInv(q, x)'
  <2>1. CASE x \in Range(cmds[q])
    <3>1. /\ x.op = "pub" => x.arg \in {"queued", "sent", "error"}
          /\ x.op # "shutdown" /\ x.topic < topic[q] /\ x.topic < m.topic
          /\ \A n \in Range(builders[q]) : x.topic < n.topic
      BY <1>1, <1>5, <2>1 DEF CommandInv
    <3>2. at'[q] = "sending" => x.topic < sending'[q].topic
      BY <3>1 DEF SentOrFailed
    <3> QED BY <1>1, <1>3, <3>1, <3>2 DEF CommandInv
  <2>2. CASE x \in Range(N)
    <3>1. /\ x.op = "pub" => x.arg \in {"queued", "sent", "error"}
          /\ x.op # "shutdown" /\ x.topic = m.topic
      BY <1>2, <1>6, <2>2 DEF Subscribes, Publishes, Closes
    <3>2. at'[q] = "sending" => x.topic = sending'[q].topic /\ Rank(x) <= 1
      BY <1>2, <2>2, <3>1 DEF SentOrFailed, Subscribes, Publishes, Rank
    <3>3. x.topic < topic[q] /\ \A n \in Range(builders'[q]) : x.topic < n.topic
      BY <1>1, <1>5, <3>1
    <3> QED BY <1>3, <3>1, <3>2, <3>3 DEF CommandInv
  <2> QED BY <1>1, <2>1, <2>2
<1>8. IF at'[q] = "sending" THEN sending'[q] \in Messages ELSE sending'[q] = Nothing
  BY <1>1 DEF SentOrFailed
<1>9. sending'[q].topic < topic'[q] /\ \A n \in Range(builders'[q]) : sending'[q].topic < n.topic
  <2>1. \A n \in Range(builders'[q]) : n.topic > m.topic
    BY <1>1
  <2>2. m.topic < topic[q]
    BY <1>1, <1>5
  <2>3. CASE sending'[q] = m
    BY <1>1, <1>3, <2>2, <2>3
  <2>4. CASE sending'[q] = Nothing
    <3>1. sending'[q].topic = -1
      BY <2>4, NothingFields
    <3>2. \A n \in Range(builders'[q]) : n.topic \in Nat
      <4>1. \A n \in Range(builders[q]) : n \in Messages
        <5>1. builders[q] \in Seq(Messages)
          BY DEF Basics, TypeOK
        <5> QED BY <5>1 DEF Range
      <4> QED BY <1>1, <4>1, MessageFields
    <3> QED BY <1>3, <1>4, <3>1, <3>2
  <2> QED BY <2>3, <2>4 DEF SentOrFailed
<1>10. \A n \in Range(builders'[q]) : n.topic < topic'[q]
  BY <1>1, <1>3, <1>5
<1> QED BY <1>1, <1>3, <1>7, <1>8, <1>9, <1>10 DEF QueueInv

\* The subscribers of the message that was taken hear of it for the first time, and
\* those of the ones before it hear nothing new.
LEMMA TakenSubscriberInv ==
  ASSUME Basics, Pipeline, NEW q \in Queues, NEW m, NEW R, Events(m, R), Taken(q, m, R),
         SentOrFailed(q, m, R), BuiltForGood, NEW c \in Callers
  PROVE  SubscriberInv(q, c)' /\ \A t \in Nat : Attached(q, t, c) => Attached(q, t, c)'
<1> DEFINE N == Subscriptions(m) \o R
<1>1. /\ m \in Messages /\ m \in Range(builders[q]) /\ m.topic \in Nat
      /\ sending[q].topic = -1
      /\ Range(cmds'[q]) = Range(cmds[q]) \union Range(N)
      /\ \A x \in Range(cmds[q]) : x.op # "shutdown" /\ x.topic < m.topic
      /\ Range(builders[q]) = Range(builders'[q]) \union {m}
      /\ \A n \in Range(builders'[q]) : m.topic < n.topic
  BY TakenFacts
<1>2. /\ \A x \in Range(N) : (\E d \in m.callers : Subscribes(x, m.topic, d)) \/ x \in Range(R)
      /\ Range(R) \subseteq Range(N)
  BY <1>1, TakenCommands
<1> HIDE DEF N
<1>3. UNCHANGED <<topics, told, using>>
  BY DEF Taken, Queue
<1>4. \A x \in Range(R) : Publishes(x, m.topic, "queued") \/ Publishes(x, m.topic, "error")
                          \/ Closes(x, m.topic)
  BY DEF Events
<1>5. SubscriberInv(q, c)
  BY DEF Pipeline
<1>6. c \in m.callers => /\ q = using[c] /\ HasBuilt(c) /\ told[c] = <<>>
                         /\ \A t \in Nat : ~Attached(q, t, c)
  BY <1>1, <1>5 DEF SubscriberInv, Built
<1>7. \A t \in Nat : Attached(q, t, c) => Attached(q, t, c)'
  BY <1>1, <1>3 DEF Attached
<1>8. \A t \in Nat : Attached(q, t, c)' => Attached(q, t, c) \/ (t = m.topic /\ c \in m.callers)
  BY <1>1, <1>2, <1>3, <1>4 DEF Attached, Subscribes, Publishes, Closes
<1>9. \A t \in Nat : Attached(q, t, c) => t < m.topic
  BY <1>1, <1>5 DEF SubscriberInv, AttachedInv, Closes
<1>10. Built(q, c)' => /\ Built(q, c) /\ c \notin m.callers
  BY <1>1, <1>5 DEF SubscriberInv, Built
<1>11. \A x \in Range(N) : x.topic = m.topic
  BY <1>2, <1>4 DEF Subscribes, Publishes, Closes
<1>12. ASSUME NEW t \in Nat, Attached(q, t, c) PROVE AttachedInv(q, t, c)'
  <2>1. AttachedInv(q, t, c) /\ t < m.topic
    BY <1>5, <1>9, <1>12 DEF SubscriberInv
  <2>2. sending[q].topic # t /\ sending'[q].topic # t
    BY <1>1, <2>1, NothingFields DEF SentOrFailed
  <2>3. \A x \in Range(N) : x.topic # t
    BY <1>1, <1>11, <2>1
  <2> QED BY <1>1, <1>3, <2>1, <2>2, <2>3 DEF AttachedInv, Subscribes, Publishes, Judges, Closes
<1>13. ASSUME c \in m.callers PROVE AttachedInv(q, m.topic, c)'
  <2>1. told'[c] = <<>>
    BY <1>3, <1>6, <1>13
  <2>2. \A x \in Range(cmds'[q]) : ~Publishes(x, m.topic, "sent")
    BY <1>1, <1>2, <1>4 DEF Subscribes, Publishes, Closes
  <2>3. CASE /\ sending'[q] = m
             /\ \E x \in Range(R) : Publishes(x, m.topic, "queued")
    BY <1>1, <1>2, <2>1, <2>2, <2>3 DEF AttachedInv, Unjudged
  <2>4. CASE /\ sending'[q] = Nothing
             /\ \E x \in Range(R) : Publishes(x, m.topic, "error")
             /\ \E x \in Range(R) : Closes(x, m.topic)
    <3>1. sending'[q].topic # m.topic
      BY <1>1, <2>4, NothingFields
    <3> QED BY <1>1, <1>2, <2>1, <2>2, <2>4, <3>1 DEF AttachedInv, Unjudged, Judges
  <2> QED BY <2>3, <2>4 DEF SentOrFailed
<1>14. \A t \in Nat : Attached(q, t, c)' =>
         /\ q = using'[c] /\ HasBuilt(c)'
         /\ \A u \in Nat : Attached(q, u, c)' => u = t
         /\ AttachedInv(q, t, c)'
  <2>1. SUFFICES ASSUME NEW t \in Nat, Attached(q, t, c)'
                 PROVE  /\ q = using'[c] /\ HasBuilt(c)'
                        /\ \A u \in Nat : Attached(q, u, c)' => u = t
                        /\ AttachedInv(q, t, c)'
    OBVIOUS
  <2>2. CASE c \in m.callers
    BY <1>6, <1>8, <1>13, <2>1, <2>2 DEF BuiltForGood
  <2>3. CASE c \notin m.callers
    BY <1>5, <1>8, <1>12, <2>1, <2>3 DEF BuiltForGood, SubscriberInv
  <2> QED BY <2>2, <2>3
<1>15. Built(q, c)' => /\ q = using'[c] /\ HasBuilt(c)' /\ told'[c] = <<>>
                       /\ \A t \in Nat : ~Attached(q, t, c)'
  BY <1>3, <1>5, <1>8, <1>10 DEF BuiltForGood, SubscriberInv
<1>16. \A k, n \in Range(builders'[q]) : c \in k.callers /\ c \in n.callers => k.topic = n.topic
  BY <1>1, <1>5 DEF SubscriberInv
<1> QED BY <1>7, <1>14, <1>15, <1>16 DEF SubscriberInv

\* A message is taken from a queue.
LEMMA TakenPipeline ==
  ASSUME Basics, Pipeline, NEW q \in Queues, NEW m, NEW R, Events(m, R), Taken(q, m, R),
         SentOrFailed(q, m, R), BuiltForGood
  PROVE  Pipeline'
<1>1. QueueInv(q)'
  BY TakenQueueInv
<1>2. \A c \in Callers : /\ SubscriberInv(q, c)'
                         /\ \A t \in Nat : Attached(q, t, c) => Attached(q, t, c)'
  BY TakenSubscriberInv
<1>3. /\ cmds' = [cmds EXCEPT ![q] = cmds[q] \o (Subscriptions(m) \o R)]
      /\ cmds'[q] \in Seq(Commands)
  BY TakenFacts
<1>4. UNCHANGED <<closed, topics, told, topic>> /\ builders' = [builders EXCEPT ![q] = Tail(@)]
  BY DEF Taken, Queue
<1>5. cmds \in [Queues -> Seq(Commands)] /\ builders \in [Queues -> Seq(Messages)]
  BY DEF Basics, TypeOK, Pipeline, PublishersOK
<1>6. cmds' \in [Queues -> Seq(Commands)]
  BY <1>3, <1>5
<1>7. PublishersOK'
  BY <1>4, <1>6 DEF Pipeline, PublishersOK
<1>8. \A p \in Queues \ {q} : cmds'[p] = cmds[p] /\ builders'[p] = builders[p]
  BY <1>3, <1>4, <1>5
<1>9. \A p \in Queues \ {q} : SameQueue(p)
  BY <1>4, <1>8 DEF SameQueue, Taken
<1> QED BY <1>1, <1>2, <1>4, <1>7, <1>9, QueueStepKeeps

\* publishQueued alone, or the error and the end
LEMMA EventsMake ==
  ASSUME NEW m \in Messages
  PROVE  /\ Events(m, <<Publish(m.topic, "queued")>>)
         /\ Range(<<Publish(m.topic, "queued")>>) = {Publish(m.topic, "queued")}
         /\ Events(m, <<Publish(m.topic, "error"), Close(m.topic)>>)
         /\ Range(<<Publish(m.topic, "error"), Close(m.topic)>>)
              = {Publish(m.topic, "error"), Close(m.topic)}
<1>1. m.topic \in Nat
  BY MessageFields
<1> DEFINE a == Publish(m.topic, "queued")
           b == Publish(m.topic, "error")
           d == Close(m.topic)
<1>2. /\ a \in Commands /\ Publishes(a, m.topic, "queued")
      /\ b \in Commands /\ Publishes(b, m.topic, "error")
      /\ d \in Commands /\ Closes(d, m.topic)
  BY <1>1, CommandFields
<1> HIDE DEF a, b, d
<1>3. Range(<<a>>) = {a} /\ Range(<<b, d>>) = {b, d}
  BY DEF Range
<1>4. InOrder(<<a>>)
  BY DEF InOrder
<1>5. Before(b, d)
  BY <1>1, <1>2 DEF Before, Publishes, Closes, Rank
<1>6. InOrder(<<b, d>>)
  BY <1>5 DEF InOrder
<1> QED BY <1>2, <1>3, <1>4, <1>6 DEF Events, a, b, d

\* sendMessage takes the first message.
LEMMA TakeMessagePipeline ==
  ASSUME Basics, Pipeline, NEW q \in Queues, TakeMessage(q), builders[q] # <<>>
  PROVE  Pipeline'
<1>1. PICK m : m = Head(builders[q])
  OBVIOUS
<1>2. m \in Messages
  BY <1>1, RangeTail DEF Basics, TypeOK
<1>3. PICK R : R = <<Publish(m.topic, "queued")>>
  OBVIOUS
<1>4. /\ at[q] = "select" /\ sending' = [sending EXCEPT ![q] = m]
      /\ Queue(q, Subscriptions(m) \o R)
      /\ builders' = [builders EXCEPT ![q] = Tail(@)]
      /\ at' = [at EXCEPT ![q] = "sending"]
      /\ UNCHANGED <<topic, caller, using>>
  BY <1>1, <1>3 DEF TakeMessage, PublishQueued, Go, calls
<1>5. /\ at'[q] = "sending" /\ sending'[q] = m
      /\ \A p \in Queues \ {q} : at'[p] = at[p] /\ sending'[p] = sending[p]
  BY <1>4 DEF Basics, TypeOK
<1>6. Taken(q, m, R)
  BY <1>1, <1>4, <1>5 DEF Taken
<1>7. Events(m, R) /\ Range(R) = {Publish(m.topic, "queued")}
  BY <1>2, <1>3, EventsMake
<1>8. SentOrFailed(q, m, R)
  <2>1. Publishes(Publish(m.topic, "queued"), m.topic, "queued")
    BY <1>2, MessageFields, CommandFields
  <2> QED BY <1>5, <1>7, <2>1 DEF SentOrFailed
<1>9. BuiltForGood
  BY <1>4 DEF BuiltForGood, HasBuilt
<1> QED BY <1>6, <1>7, <1>8, <1>9, TakenPipeline

\* A queue that was shut down fails the first message.
LEMMA DrainPipeline ==
  ASSUME Basics, Pipeline, NEW q \in Queues, Drain(q), builders[q] # <<>>
  PROVE  Pipeline'
<1>1. PICK m : m = Head(builders[q])
  OBVIOUS
<1>2. m \in Messages
  BY <1>1, RangeTail DEF Basics, TypeOK
<1>3. PICK R : R = <<Publish(m.topic, "error"), Close(m.topic)>>
  OBVIOUS
<1>4. /\ at[q] = "drain"
      /\ Queue(q, Subscriptions(m) \o R)
      /\ Release(Blocks(m))
      /\ builders' = [builders EXCEPT ![q] = Tail(@)]
      /\ UNCHANGED <<at, sending, topic, using>>
  BY <1>1, <1>3 DEF Drain
<1>5. sending[q] = Nothing
  BY <1>4 DEF Pipeline, QueueInv
<1>6. Taken(q, m, R)
  BY <1>1, <1>4 DEF Taken
<1>7. Events(m, R) /\ Range(R) = {Publish(m.topic, "error"), Close(m.topic)}
  BY <1>2, <1>3, EventsMake
<1>8. SentOrFailed(q, m, R)
  <2>1. /\ Publishes(Publish(m.topic, "error"), m.topic, "error")
        /\ Closes(Close(m.topic), m.topic)
    BY <1>2, MessageFields, CommandFields
  <2> QED BY <1>4, <1>5, <1>7, <2>1 DEF SentOrFailed
<1>9. BuiltForGood
  <2>1. Blocks(m) \in Nat
    BY <1>2, MessageFields
  <2> QED BY <1>4, <2>1, ReleaseWakes, WokenBuilt DEF Basics
<1> QED BY <1>6, <1>7, <1>8, <1>9, TakenPipeline

-----------------------------------------------------------------------------
(* What a subscriber is told: a message is resolved, the publisher is shut down *)

\* A command is put at the end of the publisher's queue, or several.
LEMMA AppendedCommands ==
  ASSUME PublishersOK, NEW q \in Queues, NEW N \in Seq(Commands), InOrder(cmds[q]), InOrder(N),
         \A x \in Range(cmds[q]) : \A y \in Range(N) : Before(x, y),
         cmds' = [cmds EXCEPT ![q] = @ \o N]
  PROVE  /\ cmds' \in [Queues -> Seq(Commands)]
         /\ \A p \in Queues \ {q} : cmds'[p] = cmds[p]
         /\ InOrder(cmds'[q])
         /\ Range(cmds'[q]) = Range(cmds[q]) \union Range(N)
<1>1. cmds \in [Queues -> Seq(Commands)] /\ cmds[q] \in Seq(Commands)
  BY DEF PublishersOK
<1>2. cmds[q] \o N \in Seq(Commands) /\ Range(cmds[q] \o N) = Range(cmds[q]) \union Range(N)
  BY <1>1, RangeConcat
<1>3. InOrder(cmds[q] \o N)
  BY <1>1, OrderConcat
<1>4. cmds'[q] = cmds[q] \o N
  BY <1>1
<1>5. cmds' \in [Queues -> Seq(Commands)] /\ \A p \in Queues \ {q} : cmds'[p] = cmds[p]
  BY <1>1, <1>2
<1> QED BY <1>2, <1>3, <1>4, <1>5

\* The message was sent or has failed.
LEMMA ResolvePipeline ==
  ASSUME Basics, Pipeline, NEW q \in Queues, NEW event \in {"sent", "error"}, Resolve(q, event)
  PROVE  Pipeline'
<1>1. PICK t : t = sending[q].topic
  OBVIOUS
<1>2. PICK a, d : a = Publish(t, event) /\ d = Close(t)
  OBVIOUS
<1>3. /\ at[q] = "sending" /\ Queue(q, <<a, d>>) /\ Release(Blocks(sending[q]))
      /\ sending' = [sending EXCEPT ![q] = Nothing]
      /\ at' = [at EXCEPT ![q] = "select"]
      /\ UNCHANGED <<using, builders, topic>>
  BY <1>1, <1>2 DEF Resolve, Go
<1>4. QueueInv(q) /\ PublishersOK
  BY DEF Pipeline
<1>5. /\ sending[q] \in Messages /\ q \notin closed
      /\ \A m \in Range(builders[q]) : t < m.topic /\ m.topic < topic[q]
      /\ t < topic[q]
      /\ InOrder(cmds[q])
      /\ \A x \in Range(cmds[q]) : CommandInv(q, x)
      /\ \A k, n \in DOMAIN builders[q] : k < n => builders[q][k].topic < builders[q][n].topic
  BY <1>1, <1>3, <1>4 DEF QueueInv
<1>6. t \in Nat
  BY <1>1, <1>5, MessageFields
<1>7. a \in Commands /\ Publishes(a, t, event) /\ d \in Commands /\ Closes(d, t)
  BY <1>2, <1>6, CommandFields
<1>8. Range(<<a, d>>) = {a, d} /\ <<a, d>> \in Seq(Commands) /\ InOrder(<<a, d>>)
  <2>1. Before(a, d)
    BY <1>6, <1>7 DEF Before, Publishes, Closes, Rank
  <2>2. Range(<<a, d>>) = {a, d}
    BY DEF Range
  <2>3. InOrder(<<a, d>>)
    BY <2>1 DEF InOrder
  <2> QED BY <1>7, <2>2, <2>3
<1>9. PICK N : N = <<a, d>>
  OBVIOUS
<1>10. \A x \in Range(cmds[q]) : \A y \in Range(N) : Before(x, y)
  BY <1>1, <1>3, <1>5, <1>7, <1>8, <1>9 DEF CommandInv, Before, Publishes, Closes, Rank
<1>11. cmds' = [cmds EXCEPT ![q] = @ \o N] /\ UNCHANGED <<closed, topics, told>>
  BY <1>3, <1>5, <1>9 DEF Queue
<1>12. /\ cmds' \in [Queues -> Seq(Commands)]
       /\ \A p \in Queues \ {q} : cmds'[p] = cmds[p]
       /\ InOrder(cmds'[q])
       /\ Range(cmds'[q]) = Range(cmds[q]) \union {a, d}
  BY <1>4, <1>5, <1>8, <1>9, <1>10, <1>11, AppendedCommands
<1>13. /\ sending'[q] = Nothing /\ sending'[q].topic = -1 /\ at'[q] = "select"
       /\ \A p \in Queues \ {q} : sending'[p] = sending[p] /\ at'[p] = at[p]
  BY <1>3, NothingFields DEF Basics, TypeOK
<1>14. BuiltForGood
  <2>1. Blocks(sending[q]) \in Nat
    BY <1>5, MessageFields
  <2> QED BY <1>3, <2>1, ReleaseWakes, WokenBuilt DEF Basics
<1>15. PublishersOK'
  BY <1>4, <1>11, <1>12 DEF PublishersOK
<1>16. \A p \in Queues \ {q} : SameQueue(p)
  BY <1>3, <1>11, <1>12, <1>13 DEF SameQueue
<1>17. QueueInv(q)'
  <2>1. ASSUME NEW x \in Range(cmds'[q]) PROVE CommandInv(q, x)'
    <3>1. CASE x \in Range(cmds[q])
      BY <1>3, <1>5, <1>11, <1>13, <3>1 DEF CommandInv
    <3>2. CASE x \in {a, d}
      BY <1>3, <1>5, <1>7, <1>11, <1>13, <3>2 DEF CommandInv, Publishes, Closes
    <3> QED BY <1>12, <3>1, <3>2
  <2>2. \A m \in Range(builders[q]) : -1 < m.topic
    <3>1. \A m \in Range(builders[q]) : m \in Messages
      BY DEF Basics, TypeOK, Range
    <3> QED BY <3>1, MessageFields
  <2>3. -1 < topic[q]
    BY DEF Basics, TypeOK
  <2> QED BY <1>3, <1>5, <1>11, <1>12, <1>13, <2>1, <2>2, <2>3 DEF QueueInv
<1>18. ASSUME NEW c \in Callers, NEW u \in Nat
       PROVE  Attached(q, u, c)' <=> Attached(q, u, c)
  BY <1>7, <1>11, <1>12 DEF Attached, Subscribes, Publishes, Closes
<1>19. ASSUME NEW c \in Callers, NEW u \in Nat, AttachedInv(q, u, c)
       PROVE  AttachedInv(q, u, c)'
  <2>1. told'[c] = told[c] /\ sending'[q].topic # u
    BY <1>11, <1>13, <1>19
  <2>2. CASE u = t
    <3>1. /\ told[c] \in Unjudged
          /\ told[c] = <<>> => \E pub \in Range(cmds[q]) : Publishes(pub, t, "queued")
      BY <1>1, <1>19, <2>2 DEF AttachedInv
    <3>2. Judges(a, t) /\ Closes(d, t) /\ ~Subscribes(a, t, c) /\ ~Subscribes(d, t, c)
          /\ ~Publishes(a, t, "queued") /\ ~Publishes(d, t, "queued")
      BY <1>7 DEF Judges, Publishes, Closes, Subscribes
    <3> QED BY <1>12, <1>19, <2>1, <2>2, <3>1, <3>2 DEF AttachedInv
  <2>3. CASE u # t
    <3>1. a.topic # u /\ d.topic # u
      BY <1>7, <2>3 DEF Publishes, Closes
    <3>2. sending[q].topic # u
      BY <1>1, <2>3
    <3> QED BY <1>12, <1>19, <2>1, <3>1, <3>2 DEF AttachedInv, Subscribes, Publishes, Judges
  <2> QED BY <2>2, <2>3
<1>20. ASSUME NEW c \in Callers PROVE SubscriberInv(q, c)'
  <2>1. SubscriberInv(q, c)
    BY DEF Pipeline
  <2>2. Built(q, c)' <=> Built(q, c)
    BY <1>3 DEF Built
  <2> QED BY <1>3, <1>11, <1>14, <1>18, <1>19, <2>1, <2>2 DEF SubscriberInv, BuiltForGood
<1> QED BY <1>11, <1>14, <1>15, <1>16, <1>17, <1>18, <1>20, QueueStepKeeps

\* The publisher of a queue that has left is shut down.
LEMMA LeavePublisherPipeline ==
  ASSUME Basics, Pipeline, NEW q \in Queues, LeavePublisher(q)
  PROVE  Pipeline'
<1>1. PICK d : d = [op |-> "shutdown", topic |-> 0, arg |-> 0]
  OBVIOUS
<1>2. d \in Commands /\ d.op = "shutdown"
  BY <1>1 DEF Commands, Ops, Args
<1>3. QueueInv(q) /\ PublishersOK /\ at[q] = "released"
  BY DEF Pipeline, LeavePublisher
<1>4. /\ q \notin closed /\ sending[q] = Nothing
      /\ InOrder(cmds[q]) /\ \A x \in Range(cmds[q]) : CommandInv(q, x)
  BY <1>3 DEF QueueInv
<1>5. PICK N : N = <<d>>
  OBVIOUS
<1>6. cmds[q] \in Seq(Commands)
  BY <1>3 DEF PublishersOK
<1>7. Append(cmds[q], d) = cmds[q] \o N
  BY <1>2, <1>5, <1>6
<1>8. /\ cmds' = [cmds EXCEPT ![q] = @ \o N] /\ closed' = closed \union {q}
      /\ UNCHANGED <<topics, told, builders, sending, topic, caller, using>>
      /\ at' = [at EXCEPT ![q] = "stopped"]
  BY <1>1, <1>4, <1>7 DEF LeavePublisher, ShutdownPublisher, Go, calls
<1>9. N \in Seq(Commands) /\ Range(N) = {d} /\ InOrder(N)
  BY <1>2, <1>5 DEF Range, InOrder
<1>10. \A x \in Range(cmds[q]) : \A y \in Range(N) : Before(x, y)
  BY <1>2, <1>4, <1>9 DEF CommandInv, Before
<1>11. /\ cmds' \in [Queues -> Seq(Commands)]
       /\ \A p \in Queues \ {q} : cmds'[p] = cmds[p]
       /\ InOrder(cmds'[q])
       /\ Range(cmds'[q]) = Range(cmds[q]) \union {d}
  BY <1>3, <1>4, <1>8, <1>9, <1>10, AppendedCommands
<1>12. at'[q] = "stopped" /\ \A p \in Queues \ {q} : at'[p] = at[p]
  BY <1>8 DEF Basics, TypeOK
<1>13. BuiltForGood
  BY <1>8 DEF BuiltForGood, HasBuilt
<1>14. PublishersOK'
  BY <1>3, <1>8, <1>11 DEF PublishersOK
<1>15. \A p \in Queues \ {q} : SameQueue(p)
  BY <1>8, <1>11, <1>12 DEF SameQueue
<1>16. QueueInv(q)'
  <2>1. ASSUME NEW x \in Range(cmds'[q]) PROVE CommandInv(q, x)'
    <3>1. CASE x \in Range(cmds[q])
      BY <1>4, <1>8, <1>12, <3>1 DEF CommandInv
    <3>2. CASE x = d
      BY <1>2, <1>8, <3>2 DEF CommandInv
    <3> QED BY <1>11, <3>1, <3>2
  <2> QED BY <1>3, <1>4, <1>8, <1>11, <1>12, <2>1 DEF QueueInv
<1>17. ASSUME NEW c \in Callers, NEW u \in Nat
       PROVE  /\ Attached(q, u, c)' <=> Attached(q, u, c)
              /\ AttachedInv(q, u, c) => AttachedInv(q, u, c)'
  <2>1. Attached(q, u, c)' <=> Attached(q, u, c)
    BY <1>2, <1>8, <1>11 DEF Attached, Subscribes
  <2>2. AttachedInv(q, u, c) => AttachedInv(q, u, c)'
    BY <1>2, <1>8, <1>11 DEF AttachedInv, Subscribes, Publishes, Judges, Closes
  <2> QED BY <2>1, <2>2
<1>18. ASSUME NEW c \in Callers PROVE SubscriberInv(q, c)'
  <2>1. SubscriberInv(q, c)
    BY DEF Pipeline
  <2>2. Built(q, c)' <=> Built(q, c)
    BY <1>8 DEF Built
  <2> QED BY <1>8, <1>13, <1>17, <2>1, <2>2 DEF SubscriberInv, BuiltForGood
<1> QED BY <1>8, <1>13, <1>14, <1>15, <1>16, <1>17, <1>18, QueueStepKeeps

-----------------------------------------------------------------------------
(* What a subscriber is told: a message is built *)

\* The messages of the queue after a call has added to them: they are in order, each
\* is younger than what the queue has sent, and its callers are those it had, and the
\* call itself in one of them.
BuiltOnto(old, new, next, next2, c) ==
  /\ next2 \in Nat /\ next <= next2
  /\ \A k, n \in DOMAIN new : k < n => new[k].topic < new[n].topic
  /\ \A n \in Range(new) :
       /\ n.topic < next2
       /\ n.topic = next \/ \E m \in Range(old) : m.topic = n.topic
  /\ \E t \in Nat : \A n \in Range(new) : \A b \in n.callers :
       \/ b = c /\ n.topic = t
       \/ \E m \in Range(old) : m.topic = n.topic /\ b \in m.callers

\* buildMessage does this, with a new message or in the last one.
LEMMA BuildOntoMakes ==
  ASSUME Basics, Pipeline, NEW c \in Callers, BuildMessage(c), NEW q \in Queues, q = using[c]
  PROVE  /\ BuiltOnto(builders[q], builders'[q], topic[q], topic'[q], c)
         /\ \A p \in Queues \ {q} : builders'[p] = builders[p] /\ topic'[p] = topic[p]
<1>1. /\ builders \in [Queues -> Seq(Messages)] /\ topic \in [Queues -> Nat]
      /\ builders[q] \in Seq(Messages) /\ topic[q] \in Nat
  BY DEF Basics, TypeOK
<1>2. PICK s \in Seq(Messages) : s = builders[q]
  BY <1>1
<1>3. PICK l \in Nat : l = Len(s)
  BY <1>2
<1>4. DOMAIN s = 1..l /\ Range(s) = {s[i] : i \in 1..l} /\ \A i \in 1..l : s[i] \in Messages
  BY <1>2, <1>3 DEF Range
<1>5. /\ \A m \in Range(s) : m.topic < topic[q]
      /\ \A k, n \in DOMAIN s : k < n => s[k].topic < s[n].topic
  BY <1>2 DEF Pipeline, QueueInv
<1>6. \A i \in 1..l : s[i].topic \in Nat /\ s[i].topic < topic[q]
  BY <1>4, <1>5, MessageFields
<1>7. CASE /\ builders' = [builders EXCEPT ![q] =
                             Append(@, [topic |-> topic[q], callers |-> {c}])]
           /\ topic' = [topic EXCEPT ![q] = @ + 1]
           /\ [topic |-> topic[q], callers |-> {c}] \in Messages
  <2>1. PICK m \in Messages : m = [topic |-> topic[q], callers |-> {c}]
    BY <1>7
  <2>2. m.topic = topic[q] /\ m.callers = {c}
    BY <2>1
  <2>3. /\ builders'[q] = Append(s, m) /\ topic'[q] = topic[q] + 1
        /\ \A p \in Queues \ {q} : builders'[p] = builders[p] /\ topic'[p] = topic[p]
    BY <1>1, <1>2, <1>7, <2>1
  <2>4. PICK u : u = builders'[q]
    OBVIOUS
  <2>5. /\ DOMAIN u = 1..(l + 1) /\ u[l + 1] = m
        /\ \A i \in 1..l : u[i] = s[i]
    BY <1>2, <1>3, <2>3, <2>4
  <2>6. \A i \in 1..(l + 1) : i \in 1..l \/ i = l + 1
    BY <1>3
  <2>7. \A n \in Range(u) : n \in Range(s) \/ n = m
    BY <1>4, <2>5, <2>6 DEF Range
  <2>8. \A k, n \in DOMAIN u : k < n => u[k].topic < u[n].topic
    <3>1. SUFFICES ASSUME NEW k \in 1..(l + 1), NEW n \in 1..(l + 1), k < n
                   PROVE  u[k].topic < u[n].topic
      BY <2>5
    <3>2. k \in 1..l
      BY <1>3, <3>1
    <3>3. CASE n \in 1..l
      BY <1>4, <1>5, <2>5, <3>1, <3>2, <3>3
    <3>4. CASE n = l + 1
      BY <1>6, <2>2, <2>5, <3>2, <3>4
    <3> QED BY <2>6, <3>3, <3>4
  <2>9. \A n \in Range(u) : n.topic < topic[q] + 1 /\ (n.topic = topic[q] \/ n \in Range(s))
    <3>1. \A n \in Range(s) : n.topic < topic[q] + 1
      BY <1>1, <1>4, <1>6
    <3> QED BY <1>1, <2>2, <2>7, <3>1
  <2>10. \A n \in Range(u) : \A b \in n.callers : (b = c /\ n.topic = topic[q]) \/ n \in Range(s)
    BY <2>2, <2>7
  <2>11. topic'[q] \in Nat /\ topic[q] <= topic'[q]
    BY <1>1, <2>3
  <2>12. \A n \in Range(u) :
           /\ n.topic < topic'[q]
           /\ n.topic = topic[q] \/ \E k \in Range(s) : k.topic = n.topic
    BY <2>3, <2>9
  <2>13. \E t \in Nat : \A n \in Range(u) : \A b \in n.callers :
           \/ b = c /\ n.topic = t
           \/ \E k \in Range(s) : k.topic = n.topic /\ b \in k.callers
    BY <1>1, <2>10
  <2>14. BuiltOnto(s, u, topic[q], topic'[q], c)
    BY <2>8, <2>11, <2>12, <2>13 DEF BuiltOnto
  <2> QED BY <1>2, <2>3, <2>4, <2>14
<1>8. ASSUME builders[q] # <<>>, UNCHANGED topic,
             NEW m \in Messages,
             m.topic = builders[q][Len(builders[q])].topic,
             m.callers = builders[q][Len(builders[q])].callers \union {c},
             builders' = [builders EXCEPT ![q] = [@ EXCEPT ![Len(builders[q])] = m]]
      PROVE  /\ BuiltOnto(builders[q], builders'[q], topic[q], topic'[q], c)
             /\ \A p \in Queues \ {q} : builders'[p] = builders[p] /\ topic'[p] = topic[p]
  <2>1. l \in 1..l /\ m.topic = s[l].topic /\ m.callers = s[l].callers \union {c}
    BY <1>2, <1>3, <1>8
  <2>2. /\ builders'[q] = [s EXCEPT ![l] = m]
        /\ \A p \in Queues \ {q} : builders'[p] = builders[p] /\ topic'[p] = topic[p]
    BY <1>1, <1>2, <1>3, <1>8
  <2>3. PICK u : u = builders'[q]
    OBVIOUS
  <2>4. /\ DOMAIN u = 1..l /\ u[l] = m
        /\ \A i \in 1..l : i # l => u[i] = s[i]
    BY <1>2, <1>3, <1>4, <2>1, <2>2, <2>3
  <2>5. \A i \in 1..l : u[i].topic = s[i].topic
    BY <2>1, <2>4
  <2>6. \A k, n \in DOMAIN u : k < n => u[k].topic < u[n].topic
    BY <1>4, <1>5, <2>4, <2>5
  <2>7. \A n \in Range(u) : n.topic < topic[q] /\ \E k \in Range(s) : k.topic = n.topic
    BY <1>4, <1>6, <2>4, <2>5 DEF Range
  <2>8. \A n \in Range(u) : \A b \in n.callers :
          \/ b = c /\ n.topic = s[l].topic
          \/ \E k \in Range(s) : k.topic = n.topic /\ b \in k.callers
    <3>1. \A i \in 1..l : s[i] \in Range(s)
      BY <1>4
    <3>2. ASSUME NEW i \in 1..l, NEW b \in u[i].callers
          PROVE  \/ b = c /\ u[i].topic = s[l].topic
                 \/ \E k \in Range(s) : k.topic = u[i].topic /\ b \in k.callers
      BY <2>1, <2>4, <2>5, <3>1, <3>2
    <3> QED BY <2>4, <3>2 DEF Range
  <2>9. topic'[q] \in Nat /\ topic[q] <= topic'[q]
    BY <1>1, <1>8
  <2>10. \A n \in Range(u) :
           /\ n.topic < topic'[q]
           /\ n.topic = topic[q] \/ \E k \in Range(s) : k.topic = n.topic
    BY <1>8, <2>7
  <2>11. \E t \in Nat : \A n \in Range(u) : \A b \in n.callers :
           \/ b = c /\ n.topic = t
           \/ \E k \in Range(s) : k.topic = n.topic /\ b \in k.callers
    BY <1>6, <2>1, <2>8
  <2>12. BuiltOnto(s, u, topic[q], topic'[q], c)
    BY <2>6, <2>9, <2>10, <2>11 DEF BuiltOnto
  <2> QED BY <1>2, <2>2, <2>3, <2>12
<1> QED BY <1>7, <1>8, BuildMakes

\* A call puts its block into a message of its queue.
LEMMA BuildMessagePipeline ==
  ASSUME Basics, Pipeline, NEW c \in Callers, BuildMessage(c)
  PROVE  Pipeline'
<1>1. PICK q \in Queues : q = using[c]
  BY BuildMakes
<1>2. /\ caller[c] = "granted" /\ Step(c, "built")
      /\ UNCHANGED <<at, sending, using, cmds, closed, topics, told>>
  BY DEF BuildMessage, publisherVars
<1>3. /\ BuiltOnto(builders[q], builders'[q], topic[q], topic'[q], c)
      /\ \A p \in Queues \ {q} : builders'[p] = builders[p] /\ topic'[p] = topic[p]
  BY <1>1, BuildOntoMakes
<1>4. PICK old, new, next, next2 : /\ old = builders[q] /\ new = builders'[q]
                                   /\ next = topic[q] /\ next2 = topic'[q]
  OBVIOUS
<1>5. /\ next2 \in Nat /\ next <= next2
      /\ \A k, n \in DOMAIN new : k < n => new[k].topic < new[n].topic
      /\ \A n \in Range(new) :
           /\ n.topic < next2
           /\ n.topic = next \/ \E m \in Range(old) : m.topic = n.topic
  BY <1>3, <1>4 DEF BuiltOnto
<1>6. PICK t \in Nat : \A n \in Range(new) : \A b \in n.callers :
        \/ b = c /\ n.topic = t
        \/ \E m \in Range(old) : m.topic = n.topic /\ b \in m.callers
  BY <1>3, <1>4 DEF BuiltOnto
<1>7. ~HasBuilt(c)
  BY <1>2 DEF HasBuilt
<1>8. /\ \A d \in Callers : caller'[d] = IF d = c THEN "built" ELSE caller[d]
      /\ next \in Nat
  BY <1>2, <1>4 DEF Basics, TypeOK, Step
<1>9. BuiltForGood /\ HasBuilt(c)'
  BY <1>2, <1>7, <1>8 DEF BuiltForGood, HasBuilt
<1>10. PublishersOK'
  BY <1>2 DEF Pipeline, PublishersOK
<1>11. \A p \in Queues \ {q} : SameQueue(p)
  BY <1>2, <1>3 DEF SameQueue
<1>12. QueueInv(q)'
  <2>1. /\ InOrder(cmds[q]) /\ \A x \in Range(cmds[q]) : CommandInv(q, x)
        /\ IF at[q] = "sending" THEN sending[q] \in Messages ELSE sending[q] = Nothing
        /\ q \in closed => at[q] = "stopped"
        /\ sending[q].topic < next
        /\ \A m \in Range(old) : m.topic < next /\ sending[q].topic < m.topic
    BY <1>4 DEF Pipeline, QueueInv
  <2>2. sending[q].topic \in Int
    BY <2>1, MessageFields, NothingFields
  <2>3. \A n \in Range(new) : sending[q].topic < n.topic
    BY <1>5, <2>1
  <2>4. sending[q].topic < next2
    BY <1>5, <1>8, <2>1, <2>2
  <2>5. ASSUME NEW x \in Range(cmds[q]) PROVE CommandInv(q, x)'
    <3>1. CommandInv(q, x) /\ x \in Commands
      BY <2>1, <2>5 DEF Pipeline, PublishersOK, Range
    <3>2. x.topic \in Nat
      BY <3>1, CommandTopic
    <3>3. x.op # "shutdown" => x.topic < next /\ \A m \in Range(old) : x.topic < m.topic
      BY <1>4, <3>1 DEF CommandInv
    <3>4. x.op # "shutdown" => x.topic < next2 /\ \A n \in Range(new) : x.topic < n.topic
      BY <1>5, <1>8, <3>2, <3>3
    <3> QED BY <1>2, <1>4, <3>1, <3>4 DEF CommandInv
  <2> QED BY <1>2, <1>4, <1>5, <2>1, <2>3, <2>4, <2>5 DEF QueueInv
<1>13. ASSUME NEW d \in Callers
       PROVE  /\ SubscriberInv(q, d)'
              /\ \A u \in Nat : Attached(q, u, d) => Attached(q, u, d)'
  <2>1. SubscriberInv(q, d)
    BY DEF Pipeline
  <2>2. \A u \in Nat : /\ Attached(q, u, d)' <=> Attached(q, u, d)
                       /\ AttachedInv(q, u, d) => AttachedInv(q, u, d)'
    <3>1. \A u \in Nat : Attached(q, u, d)' <=> Attached(q, u, d)
      BY <1>2 DEF Attached
    <3>2. \A u \in Nat : AttachedInv(q, u, d) => AttachedInv(q, u, d)'
      BY <1>2 DEF AttachedInv
    <3> QED BY <3>1, <3>2
  <2>3. \A u \in Nat : Attached(q, u, d)' =>
          /\ q = using'[d] /\ HasBuilt(d)'
          /\ \A v \in Nat : Attached(q, v, d)' => v = u
          /\ AttachedInv(q, u, d)'
    BY <1>9, <2>1, <2>2 DEF SubscriberInv, BuiltForGood
  <2>4. CASE d = c
    <3>1. /\ \A m \in Range(old) : c \notin m.callers
          /\ \A u \in Nat : ~Attached(q, u, c)
      BY <1>4, <1>7, <2>1, <2>4 DEF SubscriberInv, Built
    <3>2. told'[c] = <<>>
      BY <1>2, <1>7 DEF Pipeline, ToldIsWhole
    <3>3. \A k, n \in Range(new) : c \in k.callers /\ c \in n.callers => k.topic = n.topic
      BY <1>6, <3>1
    <3> QED BY <1>1, <1>2, <1>4, <1>9, <2>2, <2>3, <2>4, <3>1, <3>2, <3>3 DEF SubscriberInv
  <2>5. CASE d # c
    <3>1. \A n \in Range(new) : d \in n.callers =>
            \E m \in Range(old) : m.topic = n.topic /\ d \in m.callers
      BY <1>6, <2>5
    <3>2. Built(q, d)' => Built(q, d)
      BY <1>4, <3>1 DEF Built
    <3>3. \A k, n \in Range(old) : d \in k.callers /\ d \in n.callers => k.topic = n.topic
      BY <1>4, <2>1 DEF SubscriberInv
    <3>4. \A k, n \in Range(new) : d \in k.callers /\ d \in n.callers => k.topic = n.topic
      BY <3>1, <3>3
    <3> QED BY <1>2, <1>4, <1>9, <2>1, <2>2, <2>3, <3>2, <3>4 DEF SubscriberInv, BuiltForGood
  <2> QED BY <2>2, <2>4, <2>5
<1> QED BY <1>2, <1>9, <1>10, <1>11, <1>12, <1>13, QueueStepKeeps

-----------------------------------------------------------------------------
(* What a subscriber is told: the publisher's goroutine *)

\* Short sequences, element by element.
LEMMA AppendMakes ==
  ASSUME NEW a \in Told, NEW b \in Told, NEW d \in Told
  PROVE  /\ Append(<<>>, a) = <<a>>
         /\ Append(<<a>>, b) = <<a, b>>
         /\ Append(<<a, b>>, d) = <<a, b, d>>
<1>1. Append(<<>>, a) = <<a>>
  OBVIOUS
<1>2. Append(<<a>>, b) = <<a, b>>
  <2> DEFINE s == Append(<<a>>, b)
             t == <<a, b>>
  <2>1. s \in Seq(Told) /\ t \in Seq(Told) /\ Len(s) = 2 /\ Len(t) = 2
    OBVIOUS
  <2>2. s[1] = a /\ s[2] = b /\ t[1] = a /\ t[2] = b
    OBVIOUS
  <2> HIDE DEF s, t
  <2>3. \A i \in 1..Len(s) : s[i] = t[i]
    BY <2>1, <2>2
  <2>4. s = t
    BY <2>1, <2>3, SeqEqual
  <2> QED BY <2>4 DEF s, t
<1>3. Append(<<a, b>>, d) = <<a, b, d>>
  <2> DEFINE s == Append(<<a, b>>, d)
             t == <<a, b, d>>
  <2>1. s \in Seq(Told) /\ t \in Seq(Told) /\ Len(s) = 3 /\ Len(t) = 3
    OBVIOUS
  <2>2. s[1] = a /\ s[2] = b /\ s[3] = d /\ t[1] = a /\ t[2] = b /\ t[3] = d
    OBVIOUS
  <2> HIDE DEF s, t
  <2>3. \A i \in 1..Len(s) : s[i] = t[i]
    BY <2>1, <2>2
  <2>4. s = t
    BY <2>1, <2>3, SeqEqual
  <2> QED BY <2>4 DEF s, t
<1> QED BY <1>1, <1>2, <1>3

\* What one more event makes of what a subscriber was told.
LEMMA ToldGrows ==
  /\ Append(<<>>, "queued") = <<"queued">> /\ Append(<<>>, "error") \in Judged
  /\ Append(<<"queued">>, "sent") \in Judged /\ Append(<<"queued">>, "error") \in Judged
  /\ \A s \in Judged : Append(s, "closed") \in Complete
  /\ \A s \in Judged : s \notin Unjudged
  /\ <<"queued">> # <<>> /\ \A s \in Judged : s # <<>>
<1>1. /\ Append(<<>>, "queued") = <<"queued">> /\ Append(<<>>, "error") = <<"error">>
      /\ Append(<<"queued">>, "sent") = <<"queued", "sent">>
      /\ Append(<<"queued">>, "error") = <<"queued", "error">>
      /\ Append(<<"queued", "sent">>, "closed") = <<"queued", "sent", "closed">>
      /\ Append(<<"queued", "error">>, "closed") = <<"queued", "error", "closed">>
      /\ Append(<<"error">>, "closed") = <<"error", "closed">>
  BY AppendMakes DEF Told
<1>2. /\ <<"queued">> # <<>> /\ <<"queued", "sent">> # <<>> /\ <<"queued", "error">> # <<>>
      /\ <<"error">> # <<>> /\ <<"queued">> # <<"queued", "sent">>
      /\ <<"queued">> # <<"queued", "error">> /\ <<"queued">> # <<"error">>
  OBVIOUS
<1> QED BY <1>1, <1>2 DEF Judged, Unjudged, Complete

\* The first command h of the queue is taken.
Processed(q, h) ==
  /\ h = Head(cmds[q]) /\ h \in Commands
  /\ CommandInv(q, h)
  /\ Range(cmds[q]) = Range(cmds'[q]) \union {h}
  /\ \A x \in Range(cmds'[q]) : x \in Commands /\ Before(h, x)
  /\ UNCHANGED <<builders, sending, topic, at, caller, using, closed>>

\* What ProcessCmd does to the queue, whatever the command is.
LEMMA ProcessedMakes ==
  ASSUME Basics, Pipeline, NEW q \in Queues, Notify(q), NEW h, h = Head(cmds[q])
  PROVE  /\ Processed(q, h)
         /\ cmds' \in [Queues -> Seq(Commands)]
         /\ QueueInv(q)'
         /\ \A p \in Queues \ {q} : cmds'[p] = cmds[p]
<1>1. /\ cmds[q] # <<>> /\ cmds' = [cmds EXCEPT ![q] = Tail(@)]
      /\ UNCHANGED <<builders, sending, topic, at, caller, using, closed>>
  BY DEF Notify, ProcessCmd, queue, calls
<1>2. cmds \in [Queues -> Seq(Commands)] /\ cmds[q] \in Seq(Commands) /\ QueueInv(q)
  BY DEF Pipeline, PublishersOK
<1>3. /\ Tail(cmds[q]) \in Seq(Commands) /\ h \in Commands /\ h \in Range(cmds[q])
      /\ Range(cmds[q]) = Range(Tail(cmds[q])) \union {h}
  BY <1>1, <1>2, RangeTail
<1>4. InOrder(Tail(cmds[q])) /\ \A x \in Range(Tail(cmds[q])) : Before(h, x)
  BY <1>1, <1>2, OrderTail DEF QueueInv
<1>5. cmds'[q] = Tail(cmds[q])
  BY <1>1, <1>2
<1>6. cmds' \in [Queues -> Seq(Commands)] /\ \A p \in Queues \ {q} : cmds'[p] = cmds[p]
  BY <1>1, <1>2, <1>3
<1>7. \A x \in Range(cmds[q]) : x \in Commands /\ CommandInv(q, x)
  BY <1>2 DEF Range, QueueInv
<1>8. Processed(q, h)
  BY <1>1, <1>3, <1>4, <1>5, <1>7 DEF Processed
<1>9. QueueInv(q)'
  <2>1. ASSUME NEW x \in Range(cmds'[q]) PROVE CommandInv(q, x)'
    BY <1>1, <1>3, <1>5, <1>7, <2>1 DEF CommandInv
  <2>2. InOrder(cmds'[q])
    BY <1>4, <1>5
  <2> QED BY <1>1, <1>2, <2>1, <2>2 DEF QueueInv
<1> QED BY <1>6, <1>8, <1>9

\* The commands of a topic that follow one of its events.
LEMMA WhatFollows ==
  ASSUME NEW q \in Queues, NEW h, Processed(q, h), NEW x \in Range(cmds'[q]), NEW c
  PROVE  /\ h.op # "shutdown"
         /\ h.op # "subscribe" => ~Subscribes(x, h.topic, c)
         /\ h.op # "subscribe" => ~Publishes(x, h.topic, "queued")
         /\ h.op = "pub" /\ h.arg # "queued" => ~Judges(x, h.topic)
         /\ h.op = "closeTopic" => ~Judges(x, h.topic) /\ ~Closes(x, h.topic)
<1>1. h \in Commands /\ Before(h, x)
  BY DEF Processed
<1>2. h.topic \in Nat /\ h.op \in Ops
  BY <1>1, CommandTopic
<1> QED BY <1>1, <1>2 DEF Before, Rank, Subscribes, Publishes, Judges, Closes, Ops

\* What a command may do to a subscriber c: it hears an event of the topic it is
\* attached to and stays attached, or it is told that there is no more, or nothing.
Heard(q, c) ==
  \/ /\ \A t \in Nat : /\ Attached(q, t, c)' <=> Attached(q, t, c)
                       /\ Attached(q, t, c) => AttachedInv(q, t, c)'
     /\ told'[c] = told[c] \/ \E t \in Nat : Attached(q, t, c)
  \/ /\ \E t \in Nat : Attached(q, t, c)
     /\ \A t \in Nat : ~Attached(q, t, c)'
     /\ told'[c] \in Complete

\* A subscriber is added.
LEMMA AddHeard ==
  ASSUME Basics, Pipeline, NEW q \in Queues, NEW h, Processed(q, h), Add(q, h), NEW c \in Callers
  PROVE  Heard(q, c) /\ topics' \in [Queues -> SUBSET (Nat \X Args)]
<1>1. /\ h.op = "subscribe" /\ topics' = [topics EXCEPT ![q] = @ \union {<<h.topic, h.arg>>}]
      /\ told' = told /\ sending' = sending
      /\ Range(cmds[q]) = Range(cmds'[q]) \union {h}
      /\ h \in Commands
  BY DEF Add, Processed
<1>2. topics \in [Queues -> SUBSET (Nat \X Args)] /\ h.topic \in Nat /\ h.arg \in Args
  BY <1>1 DEF Pipeline, PublishersOK, Commands
<1>3. /\ topics' \in [Queues -> SUBSET (Nat \X Args)]
      /\ topics'[q] = topics[q] \union {<<h.topic, h.arg>>}
  BY <1>1, <1>2
<1>4. ASSUME NEW t \in Nat
      PROVE  Attached(q, t, c)' <=> Attached(q, t, c)
  <2>1. <<t, c>> = <<h.topic, h.arg>> <=> Subscribes(h, t, c)
    BY <1>1 DEF Subscribes
  <2> QED BY <1>1, <1>3, <2>1 DEF Attached
<1>5. ASSUME NEW t \in Nat, AttachedInv(q, t, c)
      PROVE  AttachedInv(q, t, c)'
  <2>1. \A event : ~Publishes(h, t, event) /\ ~Judges(h, t) /\ ~Closes(h, t)
    BY <1>1 DEF Publishes, Judges, Closes
  <2> QED BY <1>1, <1>5, <2>1 DEF AttachedInv
<1>6. \A t \in Nat : Attached(q, t, c) => AttachedInv(q, t, c)
  BY DEF Pipeline, SubscriberInv
<1> QED BY <1>1, <1>3, <1>4, <1>5, <1>6 DEF Heard

\* A message's verdict and its end come after it was sent.
LEMMA SentBefore ==
  ASSUME Basics, Pipeline, NEW q \in Queues, NEW h, Processed(q, h),
         (h.op = "pub" /\ h.arg # "queued") \/ h.op = "closeTopic"
  PROVE  sending[q].topic # h.topic
<1>1. h \in Commands /\ CommandInv(q, h)
  BY DEF Processed
<1>2. h.topic \in Nat
  BY <1>1, CommandTopic
<1>3. IF at[q] = "sending" THEN sending[q] \in Messages ELSE sending[q] = Nothing
  BY DEF Pipeline, QueueInv
<1>4. CASE at[q] = "sending"
  <2>1. h.topic < sending[q].topic \/ (h.topic = sending[q].topic /\ Rank(h) <= 1)
    BY <1>1, <1>4 DEF CommandInv
  <2>2. ~(Rank(h) <= 1)
    BY DEF Rank
  <2>3. sending[q].topic \in Nat
    BY <1>3, <1>4, MessageFields
  <2> QED BY <1>2, <2>1, <2>2, <2>3
<1>5. CASE at[q] # "sending"
  BY <1>2, <1>3, <1>5, NothingFields
<1> QED BY <1>4, <1>5

\* Nothing of what a subscriber waits for is lost with a command of another topic.
LEMMA OtherTopic ==
  ASSUME NEW q \in Queues, NEW h, Processed(q, h), NEW c \in Callers, NEW t \in Nat,
         h.topic # t \/ h.op = "shutdown", told'[c] = told[c], AttachedInv(q, t, c)
  PROVE  AttachedInv(q, t, c)'
<1>1. Range(cmds[q]) = Range(cmds'[q]) \union {h} /\ sending' = sending
  BY DEF Processed
<1>2. /\ \A event : ~Publishes(h, t, event)
      /\ ~Judges(h, t) /\ ~Closes(h, t)
  BY DEF Publishes, Judges, Closes
<1> QED BY <1>1, <1>2 DEF AttachedInv

\* An event is sent to the subscribers of its topic.
LEMMA SendEventHeard ==
  ASSUME Basics, Pipeline, NEW q \in Queues, NEW h, Processed(q, h), SendEvent(q, h),
         NEW c \in Callers
  PROVE  Heard(q, c)
<1>1. /\ h.op = "pub" /\ topics' = topics /\ sending' = sending
      /\ Range(cmds[q]) = Range(cmds'[q]) \union {h}
      /\ h \in Commands /\ h.arg \in {"queued", "sent", "error"}
  BY DEF SendEvent, Processed, CommandInv
<1>2. told'[c] = IF <<h.topic, c>> \in topics[q] THEN Append(told[c], h.arg) ELSE told[c]
  BY SameSets DEF SendEvent, Tell, SubscribersOf
<1>3. h.topic \in Nat
  BY <1>1, CommandTopic
<1>4. \A t \in Nat : Attached(q, t, c)' <=> Attached(q, t, c)
  BY <1>1 DEF Attached, Subscribes
<1>5. \A t \in Nat : Attached(q, t, c) => /\ AttachedInv(q, t, c)
                                          /\ \A u \in Nat : Attached(q, u, c) => u = t
  BY DEF Pipeline, SubscriberInv
<1>6. \A x \in Range(cmds'[q]) : /\ ~Subscribes(x, h.topic, c)
                                 /\ ~Publishes(x, h.topic, "queued")
                                 /\ h.arg # "queued" => ~Judges(x, h.topic)
  BY <1>1, WhatFollows
<1>7. ~Subscribes(h, h.topic, c) /\ ~Closes(h, h.topic)
  BY <1>1 DEF Subscribes, Closes
<1>8. CASE <<h.topic, c>> \notin topics[q]
  <2>1. ~Attached(q, h.topic, c)
    BY <1>1, <1>6, <1>7, <1>8 DEF Attached
  <2>2. told'[c] = told[c]
    BY <1>2, <1>8
  <2>3. \A t \in Nat : Attached(q, t, c) => AttachedInv(q, t, c)'
    BY <1>5, <2>1, <2>2, OtherTopic
  <2> QED BY <1>4, <2>2, <2>3 DEF Heard
<1>9. CASE <<h.topic, c>> \in topics[q]
  <2>1. Attached(q, h.topic, c) /\ told'[c] = Append(told[c], h.arg)
    BY <1>2, <1>9 DEF Attached
  <2>2. /\ AttachedInv(q, h.topic, c)
        /\ \A t \in Nat : Attached(q, t, c) => t = h.topic
    BY <1>3, <1>5, <2>1
  <2>3. AttachedInv(q, h.topic, c)'
    <3>1. CASE h.arg = "queued"
      <4>1. told[c] = <<>> /\ told'[c] = <<"queued">>
        BY <1>1, <2>1, <2>2, <3>1, ToldGrows DEF AttachedInv, Publishes
      <4>2. told[c] \in Unjudged /\ told'[c] \in Unjudged /\ told'[c] # <<>>
        BY <4>1, ToldGrows DEF Unjudged
      <4>3. ~Judges(h, h.topic)
        BY <3>1 DEF Judges, Publishes
      <4>4. sending[q].topic # h.topic =>
              /\ \E cmd \in Range(cmds'[q]) : Closes(cmd, h.topic)
              /\ \E cmd \in Range(cmds'[q]) : Judges(cmd, h.topic)
        BY <1>1, <1>7, <2>2, <4>2, <4>3 DEF AttachedInv
      <4> QED BY <1>1, <1>6, <4>2, <4>4 DEF AttachedInv
    <3>2. CASE h.arg # "queued"
      <4>1. Judges(h, h.topic) /\ ~Publishes(h, h.topic, "queued")
        BY <1>1, <3>2 DEF Judges, Publishes
      <4>2. told[c] \in Unjudged
        BY <1>1, <2>2, <4>1 DEF AttachedInv
      <4>3. h.arg = "sent" => told[c] # <<>>
        BY <1>1, <1>6, <2>2, <4>1 DEF AttachedInv, Publishes
      <4>4. told'[c] \in Judged
        BY <1>1, <2>1, <3>2, <4>2, <4>3, ToldGrows DEF Unjudged
      <4>5. told'[c] \notin Unjudged /\ told'[c] # <<>>
        BY <4>4, ToldGrows
      <4>6. sending[q].topic # h.topic
        BY <1>1, <3>2, SentBefore
      <4>7. \E cmd \in Range(cmds'[q]) : Closes(cmd, h.topic)
        BY <1>1, <1>7, <2>2, <4>6 DEF AttachedInv
      <4> QED BY <1>1, <1>6, <3>2, <4>4, <4>5, <4>6, <4>7 DEF AttachedInv, Judges
    <3> QED BY <3>1, <3>2
  <2> QED BY <1>3, <1>4, <2>1, <2>2, <2>3 DEF Heard
<1> QED BY <1>8, <1>9

\* A topic is removed with its subscribers.
LEMMA RemoveTopicHeard ==
  ASSUME Basics, Pipeline, NEW q \in Queues, NEW h, Processed(q, h), RemoveTopic(q, h),
         NEW c \in Callers
  PROVE  Heard(q, c) /\ topics' \in [Queues -> SUBSET (Nat \X Args)]
<1>1. /\ h.op = "closeTopic" /\ sending' = sending
      /\ topics' = [topics EXCEPT ![q] = {t \in @ : t[1] # h.topic}]
      /\ Range(cmds[q]) = Range(cmds'[q]) \union {h}
      /\ h \in Commands
  BY DEF RemoveTopic, Processed
<1>2. told'[c] = IF <<h.topic, c>> \in topics[q] THEN Append(told[c], "closed") ELSE told[c]
  BY SameSets DEF RemoveTopic, Tell, SubscribersOf
<1>3. h.topic \in Nat /\ topics \in [Queues -> SUBSET (Nat \X Args)]
  BY <1>1, CommandTopic DEF Pipeline, PublishersOK
<1>4. /\ topics' \in [Queues -> SUBSET (Nat \X Args)]
      /\ topics'[q] = {t \in topics[q] : t[1] # h.topic}
  BY <1>1, <1>3
<1>5. \A t \in Nat : <<t, c>> \in topics'[q] <=> <<t, c>> \in topics[q] /\ t # h.topic
  BY <1>4
<1>6. \A t \in Nat : Attached(q, t, c) => /\ AttachedInv(q, t, c)
                                          /\ \A u \in Nat : Attached(q, u, c) => u = t
  BY DEF Pipeline, SubscriberInv
<1>7. \A x \in Range(cmds'[q]) : ~Subscribes(x, h.topic, c) /\ ~Judges(x, h.topic)
  BY <1>1, WhatFollows
<1>8. \A t \in Nat : ~Subscribes(h, t, c) /\ ~Judges(h, t)
  BY <1>1 DEF Subscribes, Judges, Publishes
<1>9. \A t \in Nat : Attached(q, t, c)' <=> Attached(q, t, c) /\ t # h.topic
  BY <1>1, <1>5, <1>7, <1>8 DEF Attached
<1>10. CASE <<h.topic, c>> \notin topics[q]
  <2>1. ~Attached(q, h.topic, c)
    BY <1>1, <1>3, <1>7, <1>8, <1>10 DEF Attached
  <2>2. told'[c] = told[c]
    BY <1>2, <1>10
  <2>3. \A t \in Nat : Attached(q, t, c) => AttachedInv(q, t, c)'
    BY <1>6, <2>1, <2>2, OtherTopic
  <2> QED BY <1>4, <1>9, <2>1, <2>2, <2>3 DEF Heard
<1>11. CASE <<h.topic, c>> \in topics[q]
  <2>1. Attached(q, h.topic, c) /\ told'[c] = Append(told[c], "closed")
    BY <1>2, <1>11 DEF Attached
  <2>2. sending[q].topic # h.topic
    BY <1>1, SentBefore
  <2>3. told[c] \in Judged
    BY <1>1, <1>3, <1>6, <1>7, <1>8, <2>1, <2>2 DEF AttachedInv
  <2>4. told'[c] \in Complete
    BY <2>1, <2>3, ToldGrows
  <2>5. \A t \in Nat : ~Attached(q, t, c)'
    BY <1>3, <1>6, <1>9, <2>1
  <2> QED BY <1>3, <1>4, <2>1, <2>4, <2>5 DEF Heard
<1> QED BY <1>10, <1>11

\* When the publisher stops, nobody is left: every topic was closed before.
LEMMA RemoveAllHeard ==
  ASSUME Basics, Pipeline, NEW q \in Queues, NEW h, Processed(q, h), RemoveAll(q, h),
         NEW c \in Callers
  PROVE  Heard(q, c) /\ topics' \in [Queues -> SUBSET (Nat \X Args)]
<1>1. /\ h.op = "shutdown" /\ topics' = [topics EXCEPT ![q] = {}]
      /\ Range(cmds[q]) = Range(cmds'[q]) \union {h}
      /\ CommandInv(q, h)
  BY DEF RemoveAll, Processed
<1>2. \A x : x \notin Range(cmds'[q])
  BY <1>1, WhatFollows
<1>3. topics \in [Queues -> SUBSET (Nat \X Args)]
  BY DEF Pipeline, PublishersOK
<1>4. topics' \in [Queues -> SUBSET (Nat \X Args)] /\ topics'[q] = {}
  BY <1>1, <1>3
<1>5. sending[q].topic = -1
  <2>1. q \in closed
    BY <1>1 DEF CommandInv
  <2>2. sending[q] = Nothing
    BY <2>1 DEF Pipeline, QueueInv
  <2> QED BY <2>2, NothingFields
<1>6. \A t \in Nat : ~Attached(q, t, c)
  <2>1. SUFFICES ASSUME NEW t \in Nat, Attached(q, t, c) PROVE FALSE
    OBVIOUS
  <2>2. AttachedInv(q, t, c) /\ sending[q].topic # t
    BY <1>5, <2>1 DEF Pipeline, SubscriberInv
  <2>3. \E x \in Range(cmds[q]) : Closes(x, t)
    BY <2>2 DEF AttachedInv
  <2> QED BY <1>1, <1>2, <2>3 DEF Closes
<1>7. \A t \in topics[q] : t[2] # c
  <2>1. SUFFICES ASSUME NEW t \in topics[q], t[2] = c PROVE FALSE
    OBVIOUS
  <2>2. t \in Nat \X Args
    BY <1>3
  <2>3. t[1] \in Nat /\ t = <<t[1], c>>
    BY <2>1, <2>2
  <2>4. Attached(q, t[1], c)
    BY <2>1, <2>3 DEF Attached
  <2> QED BY <1>6, <2>3, <2>4
<1>8. told'[c] = told[c]
  BY <1>7, SameSets DEF RemoveAll
<1>9. \A t \in Nat : ~Attached(q, t, c)'
  BY <1>2, <1>4 DEF Attached
<1> QED BY <1>4, <1>6, <1>8, <1>9 DEF Heard

\* The goroutine of a publisher processes a command.
LEMMA NotifyPipeline ==
  ASSUME Basics, Pipeline, NEW q \in Queues, Notify(q)
  PROVE  Pipeline'
<1>1. PICK h : h = Head(cmds[q])
  OBVIOUS
<1>2. /\ Processed(q, h)
      /\ cmds' \in [Queues -> Seq(Commands)]
      /\ QueueInv(q)'
      /\ \A p \in Queues \ {q} : cmds'[p] = cmds[p]
  BY <1>1, ProcessedMakes
<1>3. Add(q, h) \/ SendEvent(q, h) \/ RemoveTopic(q, h) \/ RemoveAll(q, h)
  BY <1>1 DEF Notify, ProcessCmd
<1>4. UNCHANGED <<builders, sending, topic, at, caller, using, closed>>
  BY <1>2 DEF Processed
<1>5. BuiltForGood
  BY <1>4 DEF BuiltForGood, HasBuilt
<1>6. \A c \in Callers : Heard(q, c)
  BY <1>2, <1>3, AddHeard, SendEventHeard, RemoveTopicHeard, RemoveAllHeard
<1>7. /\ topics \in [Queues -> SUBSET (Nat \X Args)]
      /\ told \in [Callers -> Seq(Told)]
  BY DEF Pipeline, PublishersOK
<1>8. \A p \in Queues \ {q} : topics'[p] = topics[p]
  BY <1>3, <1>7 DEF Add, SendEvent, RemoveTopic, RemoveAll
<1>9. \A p \in Queues \ {q} : SameQueue(p)
  BY <1>2, <1>4, <1>8 DEF SameQueue
<1>10. PublishersOK'
  <2>1. topics' \in [Queues -> SUBSET (Nat \X Args)]
    <3>1. CASE Add(q, h)
      <4>1. h.topic \in Nat /\ h.arg \in Args
        BY <1>2 DEF Processed, Commands
      <4> QED BY <1>7, <3>1, <4>1 DEF Add
    <3>2. CASE RemoveTopic(q, h) \/ RemoveAll(q, h)
      BY <1>7, <3>2 DEF RemoveTopic, RemoveAll
    <3>3. CASE SendEvent(q, h)
      BY <1>7, <3>3 DEF SendEvent
    <3> QED BY <1>3, <3>1, <3>2, <3>3
  <2>2. told' \in [Callers -> Seq(Told)]
    <3>1. CASE SendEvent(q, h)
      <4>1. h.arg \in Told
        BY <1>2, <3>1 DEF SendEvent, Processed, CommandInv, Told
      <4> QED BY <1>7, <3>1, <4>1, SameSets DEF SendEvent, Tell
    <3>2. CASE RemoveTopic(q, h)
      <4>1. "closed" \in Told
        BY DEF Told
      <4> QED BY <1>7, <3>2, <4>1, SameSets DEF RemoveTopic, Tell
    <3>3. CASE RemoveAll(q, h)
      <4>1. "closed" \in Told
        BY DEF Told
      <4> QED BY <1>7, <3>3, <4>1, SameSets DEF RemoveAll
    <3>4. CASE Add(q, h)
      BY <1>7, <3>4 DEF Add
    <3> QED BY <1>3, <3>1, <3>2, <3>3, <3>4
  <2> QED BY <1>2, <1>4, <2>1, <2>2 DEF Pipeline, PublishersOK
<1>11. ASSUME NEW p \in Queues PROVE QueueInv(p)'
  BY <1>2, <1>9, <1>11, SameQueueInv DEF Pipeline
<1>12. ASSUME NEW c \in Callers PROVE SubscriberInv(q, c)'
  <2>1. SubscriberInv(q, c) /\ Heard(q, c)
    BY <1>6 DEF Pipeline
  <2>2. Built(q, c)' <=> Built(q, c)
    BY <1>4 DEF Built
  <2> QED BY <1>4, <1>5, <2>1, <2>2 DEF SubscriberInv, Heard, BuiltForGood
<1>13. ASSUME NEW p \in Queues \ {q}, NEW c \in Callers PROVE SubscriberInv(p, c)'
  <2>1. SubscriberInv(p, c) /\ SubscriberInv(q, c) /\ Heard(q, c) /\ SameQueue(p)
    BY <1>6, <1>9 DEF Pipeline
  <2>2. CASE told'[c] = told[c]
    BY <1>5, <2>1, <2>2, SameSubscriberInv
  <2>3. CASE \E t \in Nat : Attached(q, t, c)
    <3>1. using[c] # p
      BY <2>1, <2>3 DEF SubscriberInv
    <3>2. ~Built(p, c) /\ \A t \in Nat : ~Attached(p, t, c)
      BY <2>1, <3>1 DEF SubscriberInv
    <3>3. ~Built(p, c)' /\ \A t \in Nat : ~Attached(p, t, c)'
      BY <1>4, <2>1, <3>2, SameAttached DEF Built
    <3> QED BY <1>4, <2>1, <3>3 DEF SubscriberInv
  <2> QED BY <2>1, <2>2, <2>3 DEF Heard
<1>14. ASSUME NEW c \in Callers PROVE ToldIsWhole(c)'
  <2>1. Heard(q, c) /\ ToldIsWhole(c) /\ SubscriberInv(q, c)
    BY <1>6 DEF Pipeline
  <2>2. \A p \in Queues \ {q} : \A t \in Nat : Attached(p, t, c) => Attached(p, t, c)'
    BY <1>9, SameAttached
  <2>3. CASE /\ \A t \in Nat : Attached(q, t, c)' <=> Attached(q, t, c)
             /\ told'[c] = told[c]
    BY <1>5, <2>1, <2>2, <2>3, SameToldIsWhole
  <2>4. CASE /\ \A t \in Nat : Attached(q, t, c)' <=> Attached(q, t, c)
             /\ \E t \in Nat : Attached(q, t, c)
    BY <1>5, <2>1, <2>4 DEF SubscriberInv, ToldIsWhole, BuiltForGood
  <2>5. CASE /\ \E t \in Nat : Attached(q, t, c)
             /\ told'[c] \in Complete
    BY <1>5, <2>1, <2>5 DEF SubscriberInv, ToldIsWhole, BuiltForGood
  <2> QED BY <2>1, <2>3, <2>4, <2>5 DEF Heard
<1> QED BY <1>10, <1>11, <1>12, <1>13, <1>14 DEF Pipeline

-----------------------------------------------------------------------------
(* What a subscriber is told: the theorems *)

\* In the beginning nothing is built and nobody is subscribed.
LEMMA InitPipeline ==
  ASSUME Init
  PROVE  Pipeline
<1>1. /\ cmds = [q \in Queues |-> <<>>] /\ closed = {} /\ topics = [q \in Queues |-> {}]
      /\ told = [c \in Callers |-> <<>>]
      /\ at = [q \in Queues |-> "none"] /\ builders = [q \in Queues |-> <<>>]
      /\ sending = [q \in Queues |-> Nothing] /\ topic = [q \in Queues |-> 0]
  BY SameSets DEF Init, PublisherInit
<1>2. PublishersOK
  BY <1>1 DEF PublishersOK
<1>3. Range(<<>>) = {} /\ InOrder(<<>>)
  BY DEF Range, InOrder
<1>4. ASSUME NEW q \in Queues PROVE QueueInv(q)
  BY <1>1, <1>3, NothingFields DEF QueueInv
<1>5. ASSUME NEW q \in Queues, NEW c \in Callers
      PROVE  ~Built(q, c) /\ \A t \in Nat : ~Attached(q, t, c)
  BY <1>1, <1>3 DEF Built, Attached
<1>6. ASSUME NEW q \in Queues, NEW c \in Callers PROVE SubscriberInv(q, c)
  BY <1>1, <1>3, <1>5 DEF SubscriberInv
<1>7. ASSUME NEW c \in Callers PROVE ToldIsWhole(c)
  BY <1>1 DEF ToldIsWhole
<1> QED BY <1>2, <1>4, <1>6, <1>7 DEF Pipeline

\* Every step of the callers, the network, the queues and the publishers keeps the
\* messages, the commands and what was told in order.
THEOREM PipelineHolds == Spec => []Pipeline
<1>1. Init => Pipeline
  BY InitPipeline
<1>2. Basics /\ Pipeline /\ [Next]_vars => Pipeline'
  <2>1. SUFFICES ASSUME Basics, Pipeline, [Next]_vars PROVE Pipeline'
    OBVIOUS
  <2>2. ASSUME NEW c \in Callers, Call(c) PROVE Pipeline'
    BY <2>1, <2>2, CallPipeline, BuildMessagePipeline DEF Call
  <2>3. ASSUME NEW q \in Queues, RunQueue(q) PROVE Pipeline'
    <3>1. CASE TakeMessage(q)
      BY <2>1, <3>1, IdlePipeline, TakeMessagePipeline
    <3>2. CASE Resolve(q, "sent") \/ Resolve(q, "error")
      BY <2>1, <3>2, ResolvePipeline
    <3>3. CASE Drain(q)
      BY <2>1, <3>3, IdlePipeline, DrainPipeline
    <3>4. CASE TakeDone(q) \/ LeaveMemory(q)
      BY <2>1, <3>4, IdlePipeline
    <3>5. CASE LeavePublisher(q)
      BY <2>1, <3>5, LeavePublisherPipeline
    <3> QED BY <2>3, <3>1, <3>2, <3>3, <3>4, <3>5 DEF RunQueue
  <2>4. ASSUME NEW q \in Queues, Shutdown(q) \/ Notify(q) PROVE Pipeline'
    BY <2>1, <2>4, ManagerPipeline, NotifyPipeline
  <2>5. ASSUME NEW n \in Connections, Connected(n) \/ Disconnected(n) PROVE Pipeline'
    BY <2>1, <2>5, ManagerPipeline
  <2>6. CASE UNCHANGED vars
    <3>1. UNCHANGED <<builders, sending, topic, publisherVars, at, caller, using>>
      BY <2>6 DEF vars, queue, calls
    <3>2. BuiltForGood
      BY <3>1 DEF BuiltForGood, HasBuilt
    <3> QED BY <2>1, <3>1, <3>2, QuietStep
  <2> QED BY <2>1, <2>2, <2>3, <2>4, <2>5, <2>6 DEF Next
<1> QED BY <1>1, <1>2, BasicsHold, PTL DEF Spec

\* A sequence is a prefix of one that starts with its elements.
LEMMA PrefixByElements ==
  ASSUME NEW S, NEW s \in Seq(S), NEW t \in Seq(S), Len(s) <= Len(t),
         \A i \in 1..Len(s) : s[i] = t[i]
  PROVE  IsPrefix(s, t)
<1>1. PICK n \in Nat : n = Len(s)
  OBVIOUS
<1>2. /\ SubSeq(s, 1, n) \in Seq(S) /\ SubSeq(t, 1, n) \in Seq(S)
      /\ Len(SubSeq(s, 1, n)) = n /\ Len(SubSeq(t, 1, n)) = n
      /\ \A i \in 1..n : SubSeq(s, 1, n)[i] = s[i] /\ SubSeq(t, 1, n)[i] = t[i]
  BY <1>1
<1>3. \A i \in 1..n : SubSeq(s, 1, n)[i] = SubSeq(t, 1, n)[i]
  BY <1>1, <1>2
<1>4. SubSeq(s, 1, n) = SubSeq(t, 1, n)
  BY <1>2, <1>3, SeqEqual
<1> QED BY <1>1, <1>4 DEF IsPrefix

\* Whatever a subscriber was told is the beginning of one of the three stories.
LEMMA ToldIsPrefix ==
  ASSUME NEW s \in Unjudged \union Judged \union Complete
  PROVE  \E full \in Complete : IsPrefix(s, full)
<1> DEFINE sent == <<"queued", "sent", "closed">>
           failed == <<"queued", "error", "closed">>
           drained == <<"error", "closed">>
<1>1. s \in Seq(Told)
  <2>1. /\ <<>> \in Seq(Told) /\ <<"queued">> \in Seq(Told) /\ <<"error">> \in Seq(Told)
        /\ <<"queued", "sent">> \in Seq(Told) /\ <<"queued", "error">> \in Seq(Told)
    BY DEF Told
  <2>2. /\ <<"queued", "sent", "closed">> \in Seq(Told) /\ <<"error", "closed">> \in Seq(Told)
        /\ <<"queued", "error", "closed">> \in Seq(Told)
    BY DEF Told
  <2> QED BY <2>1, <2>2 DEF Unjudged, Judged, Complete
<1>2. sent \in Seq(Told) /\ failed \in Seq(Told) /\ drained \in Seq(Told)
  BY DEF Told
<1>3. /\ Len(sent) = 3 /\ sent[1] = "queued" /\ sent[2] = "sent" /\ sent[3] = "closed"
      /\ Len(failed) = 3 /\ failed[1] = "queued" /\ failed[2] = "error" /\ failed[3] = "closed"
      /\ Len(drained) = 2 /\ drained[1] = "error" /\ drained[2] = "closed"
  OBVIOUS
<1>4. sent \in Complete /\ failed \in Complete /\ drained \in Complete
  BY DEF Complete
<1> HIDE DEF sent, failed, drained
<1>5. CASE s = sent \/ s = failed \/ s = drained
  BY <1>1, <1>2, <1>3, <1>4, <1>5, PrefixByElements
<1>6. CASE s = <<>>
  <2>1. Len(s) = 0
    BY <1>6
  <2>2. Len(s) <= Len(sent) /\ \A i \in 1..Len(s) : s[i] = sent[i]
    BY <1>3, <2>1
  <2> QED BY <1>1, <1>2, <1>4, <2>2, PrefixByElements
<1>7. CASE s = <<"queued">>
  <2>1. Len(s) = 1 /\ s[1] = "queued"
    BY <1>7
  <2> QED BY <1>1, <1>2, <1>3, <1>4, <2>1, PrefixByElements
<1>8. CASE s = <<"error">>
  <2>1. Len(s) = 1 /\ s[1] = "error"
    BY <1>8
  <2> QED BY <1>1, <1>2, <1>3, <1>4, <2>1, PrefixByElements
<1>9. CASE s = <<"queued", "sent">>
  <2>1. Len(s) = 2 /\ s[1] = "queued" /\ s[2] = "sent"
    BY <1>9
  <2>2. Len(s) <= Len(sent) /\ \A i \in 1..Len(s) : s[i] = sent[i]
    BY <1>3, <2>1
  <2> QED BY <1>1, <1>2, <1>4, <2>2, PrefixByElements
<1>10. CASE s = <<"queued", "error">>
  <2>1. Len(s) = 2 /\ s[1] = "queued" /\ s[2] = "error"
    BY <1>10
  <2>2. Len(s) <= Len(failed) /\ \A i \in 1..Len(s) : s[i] = failed[i]
    BY <1>3, <2>1
  <2> QED BY <1>1, <1>2, <1>4, <2>2, PrefixByElements
<1> QED BY <1>5, <1>6, <1>7, <1>8, <1>9, <1>10
    DEF Unjudged, Judged, Complete, sent, failed, drained

\* The publishers and the queues, for any number of callers, queues and connections and
\* however the queue is drained or shut down: a subscriber hears that its message was
\* queued, then one verdict, then the end, or only the verdict "error" and the end, each
\* once and in this order.
THEOREM OneVerdictInOrderHolds == Spec => []OneVerdictInOrder
<1>1. Pipeline => OneVerdictInOrder
  <2>1. SUFFICES ASSUME Pipeline, NEW c \in Callers
                 PROVE  \E full \in Complete : IsPrefix(told[c], full)
    BY DEF OneVerdictInOrder, Complete
  <2>2. told[c] \in Unjudged \union Judged \union Complete
    <3>1. CASE \E q \in Queues : \E t \in Nat : Attached(q, t, c)
      BY <2>1, <3>1 DEF Pipeline, SubscriberInv, AttachedInv
    <3>2. CASE \A q \in Queues : \A t \in Nat : ~Attached(q, t, c)
      BY <2>1, <3>2 DEF Pipeline, ToldIsWhole, Unjudged
    <3> QED BY <3>1, <3>2
  <2> QED BY <2>2, ToldIsPrefix
<1> QED BY <1>1, PipelineHolds, PTL

=============================================================================
