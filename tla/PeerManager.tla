----------------------------- MODULE PeerManager -----------------------------
(***************************************************************************)
(* The message queues of one peer over time: the peer manager              *)
(* (peermanager/peermanager.go, peermessagemanager.go) that makes a queue  *)
(* for a peer and shuts it down when the last connection is gone, the      *)
(* calls that get a queue and build a message into it, each queue's        *)
(* goroutine with its publisher (Publisher), and the memory of the peer,   *)
(* which all of its queues share: the allocator knows peers, not queues.   *)
(*                                                                         *)
(* MessageQueue has one queue in detail.  Here sending a message is a step *)
(* that succeeds or fails, and the points kept apart are those where a     *)
(* caller, a notification of the network and the goroutine of an old queue *)
(* can come between: looking the queue up, creating it, waiting for        *)
(* memory, building, signalling; deleting the queue and shutting it down;  *)
(* releasing the peer's memory and shutting the publisher down.            *)
(*                                                                         *)
(* The network tells of each connection that it is up before that it is    *)
(* down, in any order for different ones.  A caller makes one call.  A     *)
(* message holds one block.  MaxConnects bounds the connections that come  *)
(* up and MaxQueues the queues that are made; contexts are not cancelled.  *)
(***************************************************************************)
EXTENDS Integers, FiniteSets, SequencesExt, Publisher

CONSTANTS Callers, Connections, MaxConnects, MaxQueues, Limit

ASSUME PeersAssumption ==
  /\ {MaxConnects, MaxQueues} \subseteq Nat
  /\ Limit \in Nat \ {0}
  /\ Publishers = 1..MaxQueues
  /\ Subscribers = Callers

Queues == 1..MaxQueues

VARIABLES
  registered,  \* the queue in peerProcesses, or 0
  refcnt,      \* its reference count
  made,        \* how many queues were made
  up,          \* the connections the manager was told of
  connects,    \* how many connections have come up
  unregistered,\* the queues that were deleted and are not yet shut down
  done,        \* the queues whose channel done is closed
  at,          \* where the goroutine of a queue is
  work,        \* the queues with a signal in outgoingWork
  builders,    \* the messages of a queue, each a topic and its callers
  sending,     \* the message that a queue is sending
  topic,       \* nextBuilderTopic
  caller,      \* where a call is
  using,       \* the queue a call works with
  sized,       \* the calls that add a block of size 1; the others add a request only
  inTime,      \* the calls that signalled while the queue still looked for work
  granted,     \* the memory the allocator counts for the peer
  pending      \* the calls that wait for memory, in order

manager  == <<registered, refcnt, made, up, connects, unregistered>>
queue    == <<done, at, work, builders, sending, topic>>
calls    == <<caller, using, inTime, sized>>
memory   == <<granted, pending>>
vars     == <<manager, queue, calls, memory, publisherVars>>

Nothing == [topic |-> -1, callers |-> {}]

Init ==
  /\ PublisherInit
  /\ registered = 0 /\ refcnt = 0 /\ made = 0
  /\ up = {} /\ connects = 0 /\ unregistered = {}
  /\ done = {}
  /\ at = [q \in Queues |-> "none"]
  /\ work = {}
  /\ builders = [q \in Queues |-> <<>>]
  /\ sending = [q \in Queues |-> Nothing]
  /\ topic = [q \in Queues |-> 0]
  /\ caller = [c \in Callers |-> "idle"]
  /\ using = [c \in Callers |-> 0]
  /\ inTime = {}
  /\ sized \in SUBSET Callers
  /\ granted = 0 /\ pending = <<>>

-----------------------------------------------------------------------------
(* The allocator, as this peer sees it *)

\* processPendingAllocations grants from the front what fits.
Grants(free, n) == IF n < free THEN n ELSE free

\* ReleaseBlockMemory releases what the peer has at most.
Release(size) ==
  LET left == IF size < granted THEN granted - size ELSE 0
      n    == Grants(Limit - left, Len(pending))
  IN  /\ granted' = left + n
      /\ pending' = SubSeq(pending, n + 1, Len(pending))
      /\ caller' = [c \in Callers |->
                      IF \E i \in 1..n : pending[i] = c THEN "granted" ELSE caller[c]]

\* ReleasePeerMemory: everything the peer has is free, and everyone who waits gets
\* an error, which AllocateAndBuildMessage does not look at.
ReleasePeerMemory ==
  /\ granted' = 0
  /\ pending' = <<>>
  /\ caller' = [c \in Callers |-> IF caller[c] = "waiting" THEN "granted" ELSE caller[c]]

-----------------------------------------------------------------------------
(* The peer manager *)

\* Mutant: the process is made without looking for one again.
CreateAlways == made < MaxQueues

\* There is none in the map, under the lock.
MustCreate == registered = 0 /\ made < MaxQueues

\* getOrCreate, with the reference count that the caller leaves.
GetOrCreate(count) ==
  /\ refcnt' = count
  /\ \/ /\ MustCreate
        /\ made' = made + 1
        /\ registered' = made + 1
        /\ at' = [at EXCEPT ![made + 1] = "select"]
     \/ ~MustCreate /\ registered # 0 /\ UNCHANGED <<made, registered, at>>

References == IF registered = 0 THEN 0 ELSE refcnt

\* Connected, for a connection the network has set up
Connected(n) ==
  /\ n \notin up
  /\ connects < MaxConnects
  /\ connects' = connects + 1
  /\ up' = up \union {n}
  /\ GetOrCreate(References + 1)
  /\ UNCHANGED <<unregistered, done, work, builders, sending, topic, calls, memory,
                 publisherVars>>

LastReference == refcnt <= 1

\* Disconnected, under the lock: the process is deleted with its last reference.
Disconnected(n) ==
  /\ n \in up
  /\ up' = up \ {n}
  /\ \/ /\ registered # 0
        /\ LastReference
        /\ registered' = 0
        /\ refcnt' = 0
        /\ unregistered' = unregistered \union {registered}
     \/ /\ registered # 0
        /\ ~LastReference
        /\ refcnt' = refcnt - 1
        /\ UNCHANGED <<registered, unregistered>>
     \/ registered = 0 /\ UNCHANGED <<registered, refcnt, unregistered>>
  /\ UNCHANGED <<made, connects, queue, calls, memory, publisherVars>>

\* MessageQueue.Shutdown, after the lock was released
Shutdown(q) ==
  /\ q \in unregistered
  /\ unregistered' = unregistered \ {q}
  /\ done' = done \union {q}
  /\ UNCHANGED <<registered, refcnt, made, up, connects, at, work, builders, sending, topic,
                 calls, memory, publisherVars>>

-----------------------------------------------------------------------------
(* A call of AllocateAndBuildMessage *)

Step(c, where) == caller' = [caller EXCEPT ![c] = where]

\* GetProcess under the read lock
GetProcess(c) ==
  /\ caller[c] = "idle"
  /\ \/ registered # 0 /\ Step(c, "got") /\ using' = [using EXCEPT ![c] = registered]
     \/ registered = 0 /\ Step(c, "missed") /\ UNCHANGED using
  /\ UNCHANGED <<inTime, sized, manager, queue, memory, publisherVars>>

\* GetProcess under the write lock
CreateProcess(c) ==
  /\ caller[c] = "missed"
  /\ GetOrCreate(References)
  /\ Step(c, "got")
  /\ using' = [using EXCEPT ![c] = registered']
  /\ UNCHANGED <<inTime, sized, up, connects, unregistered, done, work, builders, sending, topic,
                 memory, publisherVars>>

\* AllocateBlockMemory, for a call with a block
Allocate(c) ==
  /\ caller[c] = "got"
  /\ \/ c \notin sized /\ Step(c, "granted") /\ UNCHANGED memory
     \/ /\ c \in sized
        /\ pending = <<>> /\ granted < Limit
        /\ granted' = granted + 1
        /\ Step(c, "granted")
        /\ UNCHANGED pending
     \/ /\ c \in sized
        /\ ~(pending = <<>> /\ granted < Limit)
        /\ pending' = Append(pending, c)
        /\ Step(c, "waiting")
        /\ UNCHANGED granted
  /\ UNCHANGED <<using, inTime, sized, manager, queue, publisherVars>>

\* shouldBeginNewResponse: a message holds one block.
BeginNew(q, c) ==
  builders[q] # <<>> => c \in sized /\ Last(builders[q]).callers \cap sized # {}

\* buildMessage: the queue is not asked whether it still runs.
BuildMessage(c) ==
  LET q == using[c] IN
  /\ caller[c] = "granted"
  /\ Step(c, "built")
  /\ \/ /\ BeginNew(q, c)
        /\ builders' = [builders EXCEPT ![q] = Append(@, [topic |-> topic[q], callers |-> {c}])]
        /\ topic' = [topic EXCEPT ![q] = @ + 1]
     \/ /\ ~BeginNew(q, c)
        /\ builders' = [builders EXCEPT ![q][Len(builders[q])].callers = @ \union {c}]
        /\ UNCHANGED topic
  /\ UNCHANGED <<using, inTime, sized, manager, done, at, work, sending, memory, publisherVars>>

\* signalWork
SignalWork(c) ==
  /\ caller[c] = "built"
  /\ Step(c, "signalled")
  /\ work' = work \union {using[c]}
  /\ inTime' = IF at[using[c]] \in {"select", "sending", "drain"} THEN inTime \union {c} ELSE inTime
  /\ UNCHANGED <<using, sized, manager, done, at, builders, sending, topic, memory, publisherVars>>

-----------------------------------------------------------------------------
(* The goroutine of a queue: runQueue *)

Go(q, where) == at' = [at EXCEPT ![q] = where]

\* The commands for which a message's callers are subscribed.
Subscriptions(m) ==
  LET s == SetToSeq(m.callers) IN [i \in DOMAIN s |-> Subscribe(m.topic, s[i])]

Blocks(m) == Cardinality(m.callers \cap sized)

\* Mutant: the topic is closed as soon as the message is on its way.
QueuedAndClosed(m) == <<Publish(m.topic, "queued"), Close(m.topic)>>

\* publishQueued
PublishQueued(m) == <<Publish(m.topic, "queued")>>

\* sendMessage up to SendMsg; extractOutgoingMessage signals again when it leaves
\* something.
TakeMessage(q) ==
  /\ at[q] = "select"
  /\ q \in work
  /\ work' = IF Len(builders[q]) > 1 THEN work ELSE work \ {q}
  /\ \/ builders[q] = <<>> /\ UNCHANGED <<at, builders, sending, publisherVars>>
     \/ /\ builders[q] # <<>>
        /\ LET m == Head(builders[q])
           IN  /\ sending' = [sending EXCEPT ![q] = m]
               /\ Queue(q, Subscriptions(m) \o PublishQueued(m))
        /\ builders' = [builders EXCEPT ![q] = Tail(@)]
        /\ Go(q, "sending")
  /\ UNCHANGED <<manager, done, topic, calls, memory>>

\* publishSent or publishError, the release of the memory and the deferred Close
Resolve(q, event) ==
  /\ at[q] = "sending"
  /\ Queue(q, <<Publish(sending[q].topic, event), Close(sending[q].topic)>>)
  /\ Release(Blocks(sending[q]))
  /\ sending' = [sending EXCEPT ![q] = Nothing]
  /\ Go(q, "select")
  /\ UNCHANGED <<using, inTime, sized, manager, done, work, builders, topic>>

\* Mutant: a queue that is shut down leaves at once.
LeaveAtOnce(q) == "leave"

\* done was chosen: the queue is drained if there is a signal.
AfterDone(q) == IF q \in work THEN "drain" ELSE "leave"

TakeDone(q) ==
  /\ at[q] = "select"
  /\ q \in done
  /\ Go(q, AfterDone(q))
  /\ work' = work \ {q}
  /\ UNCHANGED <<manager, done, builders, sending, topic, calls, memory, publisherVars>>

\* One round of the loop that fails what is left
Drain(q) ==
  /\ at[q] = "drain"
  /\ \/ /\ builders[q] = <<>>
        /\ Go(q, "leave")
        /\ UNCHANGED <<builders, caller, memory, publisherVars>>
     \/ /\ builders[q] # <<>>
        /\ LET m == Head(builders[q])
           IN  /\ Queue(q, Subscriptions(m) \o <<Publish(m.topic, "error"), Close(m.topic)>>)
               /\ Release(Blocks(m))
        /\ builders' = [builders EXCEPT ![q] = Tail(@)]
        /\ UNCHANGED at
  /\ UNCHANGED <<using, inTime, sized, manager, done, work, sending, topic>>

\* The deferred function: first the memory, then the publisher
LeaveMemory(q) ==
  /\ at[q] = "leave"
  /\ ReleasePeerMemory
  /\ Go(q, "released")
  /\ UNCHANGED <<using, inTime, sized, manager, done, work, builders, sending, topic, publisherVars>>

LeavePublisher(q) ==
  /\ at[q] = "released"
  /\ ShutdownPublisher(q)
  /\ Go(q, "stopped")
  /\ UNCHANGED <<calls, manager, done, work, builders, sending, topic, memory>>

\* The goroutine of the queue's publisher
Notify(q) ==
  /\ ProcessCmd(q)
  /\ UNCHANGED <<manager, queue, calls, memory>>

RunQueue(q) ==
  \/ TakeMessage(q)
  \/ Resolve(q, "sent")
  \/ Resolve(q, "error")
  \/ TakeDone(q)
  \/ Drain(q)
  \/ LeaveMemory(q)
  \/ LeavePublisher(q)

Call(c) ==
  \/ GetProcess(c)
  \/ CreateProcess(c)
  \/ Allocate(c)
  \/ BuildMessage(c)
  \/ SignalWork(c)

Next ==
  \/ \E n \in Connections : Connected(n) \/ Disconnected(n)
  \/ \E q \in Queues : Shutdown(q) \/ RunQueue(q) \/ Notify(q)
  \/ \E c \in Callers : Call(c)

\* Goroutines run and a message is sent or fails, as SendMsg has a timeout.
Fairness ==
  /\ \A q \in Queues : WF_vars(RunQueue(q)) /\ WF_vars(Notify(q)) /\ WF_vars(Shutdown(q))

Spec == Init /\ [][Next]_vars /\ Fairness

-----------------------------------------------------------------------------
(* Properties *)

\* The count of a registered queue is the number of connections the network has told
\* of, and without a queue there is none, although calls make queues too; and a queue
\* that runs is the registered one or is about to be shut down, so no goroutine with
\* its publisher and memory is left that nobody would ever stop.
QueuesMatchConnections ==
  /\ IF registered = 0 THEN up = {} ELSE refcnt = Cardinality(up)
  /\ \A q \in Queues :
       at[q] # "none" /\ q \notin done /\ q \notin unregistered => q = registered

\* Every subscriber of a message is told that it was queued and then one verdict, or
\* the verdict alone when the queue was drained, then nothing more.
OneVerdictInOrder ==
  \A c \in Callers :
    \E full \in {<<"queued", "sent", "closed">>, <<"queued", "error", "closed">>,
                 <<"error", "closed">>} :
      IsPrefix(told[c], full)

\* A message that was signalled while its queue still looked for work is not lost:
\* its subscriber is told a verdict, whatever happens to the connection.
InTimeIsTold ==
  \A c \in Callers :
    c \in inTime ~> \E i \in DOMAIN told[c] : told[c][i] \in {"sent", "error"}

=============================================================================
