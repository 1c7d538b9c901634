------------------------------ MODULE Publisher ------------------------------
(***************************************************************************)
(* The publishers of events (notifications/publisher.go), one for each     *)
(* message queue.  A call puts a command into a queue under the lock that  *)
(* Shutdown takes for writing, so nothing follows the command of Shutdown. *)
(* One goroutine takes the commands out, keeps the registry of subscribers *)
(* and calls OnNext and OnClose.  Nothing but tests calls Unsubscribe.     *)
(***************************************************************************)
EXTENDS Sequences

CONSTANTS Publishers, Subscribers

VARIABLES
  cmds,      \* the commands of a publisher that are not yet processed
  closed,    \* the publishers that are shut down
  topics,    \* the registry of a publisher: the pairs of a topic and a subscriber
  told       \* what a subscriber was told: its OnNext events, and "closed" for OnClose

publisherVars == <<cmds, closed, topics, told>>

PublisherInit ==
  /\ cmds = [p \in Publishers |-> <<>>]
  /\ closed = {}
  /\ topics = [p \in Publishers |-> {}]
  /\ told = [s \in Subscribers |-> <<>>]

-----------------------------------------------------------------------------
(* Commands *)

Subscribe(topic, sub)   == [op |-> "subscribe", topic |-> topic, arg |-> sub]
Publish(topic, event)   == [op |-> "pub", topic |-> topic, arg |-> event]
Close(topic)            == [op |-> "closeTopic", topic |-> topic, arg |-> 0]

\* queue, for calls made one after the other: each is refused once the publisher is
\* shut down.
Queue(p, calls) ==
  /\ cmds' = IF p \in closed THEN cmds ELSE [cmds EXCEPT ![p] = @ \o calls]
  /\ UNCHANGED <<closed, topics, told>>

\* Shutdown
ShutdownPublisher(p) ==
  /\ closed' = closed \union {p}
  /\ cmds' = IF p \in closed THEN cmds
             ELSE [cmds EXCEPT ![p] = Append(@, [op |-> "shutdown", topic |-> 0, arg |-> 0])]
  /\ UNCHANGED <<topics, told>>

-----------------------------------------------------------------------------
(* The goroutine *)

SubscribersOf(p, topic) == {s \in Subscribers : <<topic, s>> \in topics[p]}

\* OnNext of every subscriber of the topic
Tell(p, topic, event) ==
  told' = [s \in Subscribers |->
             IF s \in SubscribersOf(p, topic) THEN Append(told[s], event) ELSE told[s]]

\* subscriberRegistry.add
Add(p, cmd) ==
  /\ cmd.op = "subscribe"
  /\ topics' = [topics EXCEPT ![p] = @ \union {<<cmd.topic, cmd.arg>>}]
  /\ UNCHANGED told

\* subscriberRegistry.send
SendEvent(p, cmd) ==
  /\ cmd.op = "pub"
  /\ Tell(p, cmd.topic, cmd.arg)
  /\ UNCHANGED topics

\* subscriberRegistry.removeTopic
RemoveTopic(p, cmd) ==
  /\ cmd.op = "closeTopic"
  /\ topics' = [topics EXCEPT ![p] = {t \in @ : t[1] # cmd.topic}]
  /\ Tell(p, cmd.topic, "closed")

\* After the loop every subscription is removed.
RemoveAll(p, cmd) ==
  /\ cmd.op = "shutdown"
  /\ topics' = [topics EXCEPT ![p] = {}]
  /\ told' = [s \in Subscribers |->
                IF \E t \in topics[p] : t[2] = s THEN Append(told[s], "closed") ELSE told[s]]

\* start: one iteration of the loop.
ProcessCmd(p) ==
  /\ cmds[p] # <<>>
  /\ cmds' = [cmds EXCEPT ![p] = Tail(@)]
  /\ LET cmd == Head(cmds[p])
     IN  Add(p, cmd) \/ SendEvent(p, cmd) \/ RemoveTopic(p, cmd) \/ RemoveAll(p, cmd)
  /\ UNCHANGED closed

=============================================================================
