------------------------------ MODULE Network ------------------------------
(***************************************************************************)
(* One direction of the traffic between two peers: the messages that are   *)
(* built and sent by the message queue of a peer, the libp2p streams they  *)
(* travel on (network/libp2p_impl.go), and the goroutine per stream that   *)
(* hands them to the managers of the other peer (impl/graphsync.go).       *)
(*                                                                         *)
(* A stream delivers what was written on it in order.  It can break at any *)
(* time, and then loses what was not read yet; a write that fails may      *)
(* nevertheless have written the message.  Module MessageQueue has the     *)
(* memory and the notifications of the queue: here it has one builder, as  *)
(* a second one is begun only for the size of the blocks.                  *)
(*                                                                         *)
(* MaxOps bounds the calls of the managers, MaxFaults the writes and       *)
(* dials that fail and the streams that break.                             *)
(***************************************************************************)
EXTENDS Message, FiniteSetsExt

CONSTANTS Requests,      \* the requests, as NewRequest makes them
          Updates,       \* lists of extensions an update may carry
          Resumed,       \* the extensions a resumed request gets
          Transactions,  \* what a response stream may add to the message
          TooLarge,      \* the blocks that exceed MessageSizeMax
          MaxRetries,    \* maxRetries
          MaxOps,
          MaxFaults

ASSUME NetworkAssumption ==
  /\ MaxRetries \in Nat \ {0}
  /\ {MaxOps, MaxFaults} \subseteq Nat
  /\ \A r1, r2 \in Requests : r1.id = r2.id => r1 = r2
  /\ \A r \in Requests : IsMap(r.extensions) /\
       r = [id |-> r.id, type |-> "New", root |-> r.root, selector |-> r.selector,
            priority |-> r.priority, extensions |-> r.extensions]
  /\ \A list \in Updates \union {Resumed} : IsFiniteSet(DOMAIN list)
  /\ \A t \in Transactions :
       t.block # Nil => t.block = BlockFromIPLD(BlockToIPLD(t.block))

VARIABLES
  builder,     \* the message the managers add to
  pc,          \* where the goroutine runQueue is
  sending,     \* the message it sends
  attempts,    \* how often SendMsg has failed for it
  sender,      \* the stream it writes to, 0 if there is none
  done,        \* Shutdown was called on the queue
  ctxDone,     \* the context of the queue is cancelled
  closed,      \* the responses whose stream was closed by an error
  streams,     \* the libp2p streams, in the order they were opened
  responseManager,  \* what ProcessRequests was called with, in order
  requestManager,   \* what ProcessResponses was called with, in order
  told,        \* the requests handed to the queue, per request ID
  built,       \* the messages that were built
  sent,        \* the messages that were published as sent, in order
  givenUp,     \* some message was published as failed
  broken,      \* the streams that were reset for a fault, a failed write, an
               \* oversized message or the end of the context
  ops,         \* the calls so far
  faults       \* the faults so far

queueVars == <<pc, sending, attempts, sender>>
flags     == <<done, ctxDone>>
managers  == <<responseManager, requestManager>>
history   == <<told, built, sent, givenUp>>

vars == <<builder, queueVars, flags, closed, streams, managers, history, broken,
          ops, faults>>

NoMessage == [requests |-> NoEntries, responses |-> NoEntries, blocks |-> NoEntries]

IDs == {r.id : r \in Requests}

Init ==
  /\ builder = NewBuilder
  /\ pc = "select"
  /\ sending = NoMessage
  /\ attempts = 0
  /\ sender = 0
  /\ done = FALSE
  /\ ctxDone = FALSE
  /\ closed = {}
  /\ streams = <<>>
  /\ responseManager = <<>>
  /\ requestManager = <<>>
  /\ told = [id \in IDs |-> <<>>]
  /\ built = {}
  /\ sent = <<>>
  /\ givenUp = FALSE
  /\ broken = {}
  /\ ops = 0
  /\ faults = 0

-----------------------------------------------------------------------------
(* The managers add to the message *)

Call == ops < MaxOps /\ ops' = ops + 1

SendRequest(request) ==
  /\ Call
  /\ builder' = AddRequest(builder, request)
  /\ told' = [told EXCEPT ![request.id] = Append(@, request)]
  /\ UNCHANGED <<queueVars, flags, closed, streams, managers, built, sent, givenUp,
                 broken, faults>>

LastType(id) == IF told[id] = <<>> THEN "None" ELSE Last(told[id]).type

StartRequest(r)     == LastType(r.id) = "None" /\ SendRequest(r)
UpdateRequest(r, u) == LastType(r.id) \in {"New", "Update"}
                       /\ SendRequest(NewUpdateRequest(r.id, u))
CancelRequest(r)    == LastType(r.id) \in {"New", "Update"}
                       /\ SendRequest(NewCancelRequest(r.id))
ResumeRequest(r)    == LastType(r.id) = "Cancel"
                       /\ SendRequest(ReplaceExtensions(r, Resumed))

\* The operations of one transaction of a response stream: a link, whose block
\* may have been sent before, extension data and a status code.
WithLink(b, t) ==
  IF t.block = Nil THEN b
  ELSE LET c == t.block.cid
       IN  AddLink(IF t.sendBlock THEN AddBlock(b, t.block) ELSE b, t.id, c, "Present")

WithExtensions(b, t) == IF t.extension = Nil THEN b
                        ELSE AddExtensionData(b, t.id, t.extension)

WithStatus(b, t) == IF t.status = Nil THEN b ELSE AddResponseCode(b, t.id, t.status)

Transaction(t) ==
  /\ Call
  /\ t.id \notin closed
  /\ builder' = WithStatus(WithExtensions(WithLink(builder, t), t), t)
  /\ UNCHANGED <<queueVars, flags, closed, streams, managers, history, broken, faults>>

-----------------------------------------------------------------------------
(* The message queue *)

\* publishError: the responses of the message get no further part of any message.
PublishError ==
  /\ builder' = ScrubResponses(builder, DOMAIN sending.responses)
  /\ closed' = closed \union DOMAIN sending.responses
  /\ givenUp' = TRUE

\* sendMessage returns, and its message and loop counter are gone.
Return == pc' = "select" /\ sending' = NoMessage /\ attempts' = 0

TakeWork ==
  /\ pc = "select"
  /\ ~Empty(builder)
  /\ sending' = Build(builder)
  /\ built' = built \union {sending'}
  /\ builder' = NewBuilder
  /\ pc' = "open"
  /\ UNCHANGED <<attempts, sender, flags, closed, streams, managers, told, sent, givenUp, broken,
                 ops, faults>>

NewStream == [status |-> "open", wire |-> <<>>, reader |-> "reading",
              received |-> NoMessage]

\* handleNewStream runs at the other side as soon as a stream is opened.
OpenSender ==
  /\ streams' = Append(streams, NewStream)
  /\ sender' = Len(streams')

\* Mutant: every message is sent on a stream of its own.
OpenAlways == OpenSender

InitializeSender == IF sender # 0 THEN UNCHANGED <<sender, streams>> ELSE OpenSender

\* The sender is there, or opened; a message whose retries are used up fails
\* even so.
Open ==
  /\ pc = "open"
  /\ InitializeSender
  /\ \/ /\ attempts < MaxRetries
        /\ pc' = "send"
        /\ UNCHANGED <<builder, closed, givenUp, sending, attempts>>
     \/ /\ attempts >= MaxRetries
        /\ PublishError
        /\ Return
  /\ UNCHANGED <<flags, managers, told, built, sent, broken, ops,
                 faults>>

OpenFails ==
  /\ pc = "open"
  /\ sender = 0
  /\ faults < MaxFaults
  /\ faults' = faults + 1
  /\ PublishError
  /\ Return
  /\ UNCHANGED <<sender, flags, streams, managers, told, built, sent,
                 broken, ops>>

Write(s) == [streams EXCEPT ![s].wire = Append(@, ToIPLD(sending))]

\* What is written on a stream the other side has reset is lost.
SendMsg ==
  /\ pc = "send"
  /\ streams' = IF streams[sender].status = "open" THEN Write(sender) ELSE streams
  /\ sent' = Append(sent, [message |-> sending, stream |-> sender])
  /\ Return
  /\ UNCHANGED <<builder, sender, flags, closed, managers, told, built, givenUp, broken, ops, faults>>

Reset(s, strs) ==
  [strs EXCEPT ![s].status = IF @ = "open" THEN "reset" ELSE @]

Close(s, strs) ==
  [strs EXCEPT ![s].status = IF @ = "open" THEN "closed" ELSE @]

\* The stream is reset and, unless the queue stops, the next attempt made on a
\* new one.
SendMsgFails ==
  /\ pc = "send"
  /\ IF streams[sender].status = "reset" THEN UNCHANGED faults
     ELSE faults < MaxFaults /\ faults' = faults + 1
  /\ \/ streams' = Reset(sender, streams)
     \/ streams[sender].status = "open" /\ streams' = Reset(sender, Write(sender))
  /\ broken' = broken \union {sender}
  /\ sender' = 0
  /\ \/ /\ done \/ ctxDone
        /\ PublishError
        /\ Return
     \/ /\ ~done /\ ~ctxDone
        /\ attempts' = attempts + 1
        /\ pc' = "open"
        /\ UNCHANGED <<builder, closed, givenUp, sending>>
  /\ UNCHANGED <<flags, managers, told, built, sent, ops>>

Shutdown ==
  /\ ~done
  /\ done' = TRUE
  /\ UNCHANGED <<builder, queueVars, ctxDone, closed, streams, managers, history, broken,
                 ops, faults>>

CancelContext ==
  /\ ~ctxDone
  /\ ctxDone' = TRUE
  /\ UNCHANGED <<builder, queueVars, done, closed, streams, managers, history, broken,
                 ops, faults>>

\* What is left is failed, and the sender closed.
StopOnDone ==
  /\ pc = "select"
  /\ done
  /\ IF Empty(builder) THEN UNCHANGED <<builder, closed, givenUp>>
     ELSE /\ builder' = NewBuilder
          /\ closed' = closed \union DOMAIN builder.outgoingResponses
          /\ givenUp' = TRUE
  /\ streams' = IF sender = 0 THEN streams ELSE Close(sender, streams)
  /\ pc' = "stopped"
  /\ UNCHANGED <<sending, attempts, sender, flags, managers, told, built, sent, broken,
                 ops, faults>>

StopOnContext ==
  /\ pc = "select"
  /\ ctxDone
  /\ streams' = IF sender = 0 THEN streams ELSE Reset(sender, streams)
  /\ broken' = IF sender = 0 THEN broken ELSE broken \union {sender}
  /\ pc' = "stopped"
  /\ UNCHANGED <<builder, sending, attempts, sender, flags, closed, managers, history,
                 ops, faults>>

-----------------------------------------------------------------------------
(* The other side: handleNewStream *)

Oversized(w) == \E b \in Given(w.blocks, {}) : BlockFromIPLD(b).cid \in TooLarge

\* FromMsgReader returns a message.
Read(s) ==
  /\ streams[s].reader = "reading"
  /\ streams[s].wire # <<>>
  /\ ~Oversized(Head(streams[s].wire))
  /\ streams' = [streams EXCEPT ![s].wire = Tail(@),
                                ![s].received = FromIPLD(Head(streams[s].wire)),
                                ![s].reader = "received"]
  /\ UNCHANGED <<builder, queueVars, flags, closed, managers, history, broken, ops,
                 faults>>

\* FromMsgReader returns io.EOF: the stream was closed and is read to its end.
EndOfStream(s) ==
  /\ streams[s].reader = "reading"
  /\ streams[s].status = "closed"
  /\ streams[s].wire = <<>>
  /\ streams' = [streams EXCEPT ![s].reader = "ended"]
  /\ UNCHANGED <<builder, queueVars, flags, closed, managers, history, broken, ops,
                 faults>>

Fails(s) == \/ streams[s].status = "reset"
            \/ streams[s].wire # <<>> /\ Oversized(Head(streams[s].wire))

\* Mutant: every error is taken for the end of the stream.
AnyErrorIsEOF == "ended"

AfterReadError == "failed"

\* FromMsgReader returns another error.
ReadError(s) ==
  /\ streams[s].reader = "reading"
  /\ Fails(s)
  /\ streams' = [Reset(s, streams) EXCEPT ![s].reader = AfterReadError, ![s].wire = <<>>]
  /\ broken' = IF streams[s].status = "reset" THEN broken ELSE broken \union {s}
  /\ UNCHANGED <<builder, queueVars, flags, closed, managers, history, ops, faults>>

\* The goroutine that calls ReceiveError of the receiver.
ReceiveError(s) ==
  /\ streams[s].reader = "failed"
  /\ streams' = [streams EXCEPT ![s].reader = "reported"]
  /\ UNCHANGED <<builder, queueVars, flags, closed, managers, history, broken, ops,
                 faults>>

\* Mutant: handleNewStream returns after one message.
OneMessageOnly == "ended"

\* The loop of handleNewStream goes on with the next message.
AfterMessage == "reading"

\* graphSyncReceiver.ReceiveMessage
ReceiveMessage(s) ==
  LET m == streams[s].received
  IN  /\ streams[s].reader = "received"
      /\ responseManager' = IF DOMAIN m.requests = {} THEN responseManager
                            ELSE Append(responseManager, m.requests)
      /\ requestManager' = IF DOMAIN m.responses = {} /\ DOMAIN m.blocks = {}
                           THEN requestManager
                           ELSE Append(requestManager, <<m.responses, m.blocks>>)
      /\ streams' = [streams EXCEPT ![s].reader = AfterMessage, ![s].received = NoMessage]
      /\ UNCHANGED <<builder, queueVars, flags, closed, history, broken, ops, faults>>

\* The connection fails under a stream that is not read to its end yet.
BreakStream(s) ==
  /\ streams[s].status # "reset"
  /\ streams[s].reader \in {"reading", "received"}
  /\ faults < MaxFaults
  /\ faults' = faults + 1
  /\ streams' = [streams EXCEPT ![s].status = "reset"]
  /\ broken' = broken \union {s}
  /\ UNCHANGED <<builder, queueVars, flags, closed, managers, history, ops>>

-----------------------------------------------------------------------------
Send == TakeWork \/ Open \/ SendMsg \/ SendMsgFails \/ StopOnDone \/ StopOnContext

Receive(s) ==
  Read(s) \/ EndOfStream(s) \/ ReadError(s) \/ ReceiveError(s) \/ ReceiveMessage(s)

Managers ==
  \/ \E r \in Requests : \/ StartRequest(r) \/ CancelRequest(r) \/ ResumeRequest(r)
                         \/ \E u \in Updates : UpdateRequest(r, u)
  \/ \E t \in Transactions : Transaction(t)

Next ==
  \/ Managers
  \/ Send
  \/ OpenFails
  \/ Shutdown
  \/ CancelContext
  \/ \E s \in DOMAIN streams : Receive(s) \/ BreakStream(s)

\* The goroutines run on: runQueue with a send that ends within its timeout, and
\* the readers of the streams, of which it is enough that some one runs.
Fairness ==
  /\ WF_vars(Send)
  /\ WF_vars(\E s \in DOMAIN streams : Receive(s))

Spec == Init /\ [][Next]_vars /\ Fairness

-----------------------------------------------------------------------------
(* Properties *)

\* Of the first n messages that were sent, those with requests, and those with
\* responses or blocks.
WithRequests(n) == {i \in 1..n : DOMAIN sent[i].message.requests # {}}

WithResponses(n) ==
  {i \in 1..n : DOMAIN sent[i].message.responses # {} \/ DOMAIN sent[i].message.blocks # {}}

\* The k-th smallest number of a set.
Ranked(I, k) == CHOOSE i \in I : Cardinality({j \in I : j <= i}) = k

RequestsOf(n) ==
  [k \in 1..Cardinality(WithRequests(n)) |-> sent[Ranked(WithRequests(n), k)].message.requests]

ResponsesOf(n) ==
  [k \in 1..Cardinality(WithResponses(n)) |->
     LET m == sent[Ranked(WithResponses(n), k)].message IN <<m.responses, m.blocks>>]

(* What handleNewStream hands to the managers is, to the last field, a message *)
(* that was built: leaving out optional fields, reading only the fields of a   *)
(* request's type and computing the CIDs anew from the data loses nothing,     *)
(* with any faults.                                                            *)
DeliveredAsBuilt ==
  /\ \A i \in DOMAIN responseManager :
       \E m \in built : responseManager[i] = m.requests
  /\ \A i \in DOMAIN requestManager :
       \E m \in built : requestManager[i] = <<m.responses, m.blocks>>

(* As long as no stream broke, both managers get what was sent in the order    *)
(* runQueue sent it and without gaps: the loader of a request pairs responses  *)
(* with its traversal by order alone.  It needs the one stream that            *)
(* initializeSender keeps, as streams are read by goroutines of their own.     *)
DeliveredInSendOrder ==
  broken = {} =>
    /\ IsPrefix(responseManager, RequestsOf(Len(sent)))
    /\ IsPrefix(requestManager, ResponsesOf(Len(sent)))

\* Nothing is on its way, and nothing was lost.
Quiet ==
  /\ Empty(builder)
  /\ pc \in {"select", "stopped"}
  /\ \A s \in DOMAIN streams : streams[s].wire = <<>> /\ streams[s].reader # "received"
  /\ broken = {}
  /\ ~givenUp

\* The calls of ProcessRequests that brought something about a request.
Heard(id) == {i \in DOMAIN responseManager : id \in DOMAIN responseManager[i]}

\* The last one brought this.
HeardLast(id, request) ==
  \E i \in Heard(id) : responseManager[i][id] = request /\ \A j \in Heard(id) : j <= i

(* The last thing the requestor had to say of a request, that it starts it,    *)
(* changes it, cancels it or resumes it, is the last thing the responder heard *)
(* of it once everything has arrived, however AddRequest merged its requests   *)
(* into messages.                                                              *)
LastWordIsHeard ==
  Quiet => \A id \in IDs :
             told[id] # <<>> => HeardLast(id, Last(told[id]))

(* A message that was published as sent reaches the managers unless a stream   *)
(* breaks; a shutdown of the queue closes its stream, and what was written on  *)
(* it before is still read.                                                    *)
SentIsDelivered ==
  \A n \in 1..MaxOps :
    Len(sent) >= n ~>
      \/ broken # {}
      \/ /\ Len(sent) >= n
         /\ Len(responseManager) >= Len(RequestsOf(n))
         /\ Len(requestManager) >= Len(ResponsesOf(n))

Unreported == {s \in broken : streams[s].reader # "reported"}

(* A stream that is reset before it was read to its end, or that carries a     *)
(* message which cannot be read, is reported to the receiver's error           *)
(* listeners, whoever reset it and wherever its reader was.                    *)
BrokenIsReported ==
  Unreported # {} ~> Unreported = {}
=============================================================================
