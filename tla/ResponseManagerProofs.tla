------------------------ MODULE ResponseManagerProofs ------------------------
(***************************************************************************)
(* Proofs about the responder, for every set of requests, every length of  *)
(* a traversal, any number of workers, calls and hooks.                    *)
(***************************************************************************)
EXTENDS ResponseManager, SequenceTheorems, WellFoundedInduction, TLAPS

-----------------------------------------------------------------------------
(* The inductive invariant *)

\* The manager, the task queue and the worker agree about a response.  Only a worker
\* that has sent its final status may find that its response has ended meanwhile.
WorkerMatchesState(r) ==
  /\ r \in pending => state[r] = "Queued" /\ exec[r].at = "idle"
  /\ state[r] = "Queued" => r \in pending \/ exec[r].at = "start"
  /\ state[r] = "Running" => exec[r].at \notin {"idle", "start"}
  /\ exec[r].at \notin {"idle", "start", "done"} => state[r] = "Running"
  /\ exec[r].at = "done" => state[r] \in {"Running", "terminated"}
  /\ exec[r].at = "start" => state[r] \in {"Queued", "CompletingSend", "terminated"}

\* Where the final status of a response may be: in the message queue, in a message
\* whose event is on its way, or in the event that the subscriber handles.
FinalQueued(r) == \E i \in DOMAIN outbox[r] : outbox[r][i] \in {"completed", "failed"}

FinalEvent(r, i) == i \in DOMAIN events /\ events[i].request = r /\ events[i].terminal

FinalHandled(r) == subscriber # NoEvent /\ subscriber.request = r /\ subscriber.terminal

Final(r) == FinalQueued(r) \/ (\E i \in DOMAIN events : FinalEvent(r, i)) \/ FinalHandled(r)

\* Whoever has sent the final status has ended the response, or is the worker that
\* is about to.
FinalEnds(r) ==
  Final(r) =>
    \/ state[r] \in {"CompletingSend", "terminated"}
    \/ exec[r].at = "done" /\ exec[r].err \notin {"paused", "cancel", "network"}

\* In the message queue only PartialResponse follows the final status.
FinalIsLast(r) ==
  \A i, j \in DOMAIN outbox[r] :
    i < j /\ outbox[r][i] \in {"completed", "failed"} => outbox[r][j] = "partial"

\* The final status is in one place.
OneFinal(r) ==
  /\ FinalQueued(r) => ~FinalHandled(r) /\ \A i \in DOMAIN events : ~FinalEvent(r, i)
  /\ FinalHandled(r) => \A i \in DOMAIN events : ~FinalEvent(r, i)
  /\ \A i, j \in DOMAIN events : FinalEvent(r, i) /\ FinalEvent(r, j) => i = j

\* The listeners are told once, of a response that has ended and that nothing can
\* end again.
VerdictIsLast(r) ==
  listeners[r] # <<>> => Len(listeners[r]) = 1 /\ state[r] = "terminated" /\ ~Final(r)

\* The worker of a response that the hooks have refused is about to end it.
RefusedEnds(r) ==
  r \in refused =>
    /\ state[r] \in {"Running", "CompletingSend", "terminated"}
    /\ exec[r].at \notin {"idle", "start"} =>
         exec[r].at \in {"finish", "done"} /\ exec[r].err \notin {NoErr, "paused"}
    /\ \A i \in DOMAIN outbox[r] : outbox[r][i] # "completed"

\* What is known of one response, in every state.
ResponseInv(r) ==
  /\ WorkerMatchesState(r)
  /\ FinalEnds(r)
  /\ FinalIsLast(r)
  /\ OneFinal(r)
  /\ VerdictIsLast(r)
  /\ RefusedEnds(r)

\* The inductive invariant.
IInv == TypeOK /\ \A r \in Requests : ResponseInv(r)

-----------------------------------------------------------------------------
(* What the hooks return *)

\* A set of indexes that is not empty has a least one.
LEMMA LeastIndex ==
  ASSUME NEW T, T \subseteq Nat, T # {}
  PROVE  \E i \in T : \A j \in T : i <= j
<1> DEFINE Less == {p \in Nat \X Nat : p[1] < p[2]}
<1>1. IsWellFoundedOn(Less, Nat)
  BY NatLessThanWellFounded DEF OpToRel
<1>2. PICK i \in T : \A j \in T : <<j, i>> \notin Less
  <2> HIDE DEF Less
  <2> QED BY <1>1, WFMin
<1>3. ASSUME NEW j \in T PROVE i <= j
  <2>1. i \in Nat /\ j \in Nat /\ <<j, i>> \notin Less
    BY <1>2
  <2>2. j < i => <<j, i>> \in Less
    BY <2>1
  <2> HIDE DEF Less
  <2> QED BY <2>1, <2>2
<1> QED BY <1>3

\* If some hook makes one of the calls that set an error, then a hook that runs does.
LEMMA ErrorIsCalled ==
  ASSUME NEW hooks, NEW n \in Nat, DOMAIN hooks = 1..n, NEW errors,
         NEW i \in DOMAIN hooks, NEW call \in errors, call \in Range(hooks[i])
  PROVE  \E c \in errors : Called(hooks, errors, c)
<1> DEFINE T == {j \in DOMAIN hooks : Range(hooks[j]) \cap errors # {}}
<1>1. T \subseteq Nat /\ i \in T
  OBVIOUS
<1>2. PICK j \in T : \A k \in T : j <= k
  BY <1>1, LeastIndex
<1>3. PICK c \in Range(hooks[j]) : c \in errors
  BY <1>2
<1>4. ASSUME NEW k \in 1..(j - 1) PROVE Range(hooks[k]) \cap errors = {}
  BY <1>1, <1>2
<1> QED BY <1>2, <1>3, <1>4 DEF Called

\* A list of hooks is a finite sequence of sequences of calls.
LEMMA HookListShape ==
  ASSUME NEW calls, NEW hooks \in HookLists(calls)
  PROVE  \E n \in Nat : /\ DOMAIN hooks = 1..n
                        /\ \A i \in 1..n : \E m \in Nat : hooks[i] \in [1..m -> calls]
<1>1. PICK n \in 0..MaxHooks : hooks \in [1..n -> SeqOf(calls, MaxHookCalls)]
  BY DEF HookLists, SeqOf
<1>2. n \in Nat
  BY HookBoundsAssumption
<1>3. ASSUME NEW i \in 1..n
      PROVE  \E m \in Nat : hooks[i] \in [1..m -> calls]
  <2>1. hooks[i] \in SeqOf(calls, MaxHookCalls)
    BY <1>1
  <2>2. PICK m \in 0..MaxHookCalls : hooks[i] \in [1..m -> calls]
    BY <2>1 DEF SeqOf
  <2> QED BY <2>2, HookBoundsAssumption
<1> QED BY <1>1, <1>2, <1>3

\* prepareQuery fails a request that the hooks refuse.
LEMMA RequestRefused ==
  ASSUME NEW outcome \in RequestOutcomes, NEW decodes \in BOOLEAN, outcome.refused
  PROVE  PrepareQuery(outcome.result, decodes).err = TRUE
<1>1. PICK h \in HookLists(RequestCalls) :
        outcome = [result |-> ProcessRequestHooks(h), refused |-> Refuses(h)]
  BY DEF RequestOutcomes
<1>2. PICK n \in Nat : DOMAIN h = 1..n
  BY HookListShape
<1>3. CASE Terminates(h)
  <2>1. PICK i \in DOMAIN h, call \in RequestErrors : call \in Range(h[i])
    BY <1>3 DEF Terminates, RequestErrors, Range
  <2>2. \E c \in RequestErrors : Called(h, RequestErrors, c)
    BY <1>2, <2>1, ErrorIsCalled
  <2>3. outcome.result.err = "failed"
    BY <1>1, <2>2 DEF ProcessRequestHooks
  <2> QED BY <2>3 DEF PrepareQuery, NoErr
<1>4. CASE \A i \in DOMAIN h : \A k \in DOMAIN h[i] : h[i][k] # "ValidateRequest"
  <2>1. ~Called(h, RequestErrors, "ValidateRequest")
    BY <1>4 DEF Called, Range
  <2>2. ~outcome.result.isValidated
    BY <1>1, <2>1 DEF ProcessRequestHooks
  <2> QED BY <2>2 DEF PrepareQuery
<1> QED BY <1>1, <1>3, <1>4 DEF Refuses

\* The update hooks leave an error if one of them terminates the response.
LEMMA UpdateRefused ==
  ASSUME NEW outcome \in UpdateOutcomes, outcome.refused
  PROVE  outcome.result.err = "failed"
<1>1. PICK h \in HookLists(UpdateCalls) :
        outcome = [result |-> ProcessUpdateHooks(h), refused |-> Terminates(h)]
  BY DEF UpdateOutcomes
<1>2. PICK n \in Nat : /\ DOMAIN h = 1..n
                       /\ \A i \in 1..n : \E m \in Nat : h[i] \in [1..m -> UpdateCalls]
  BY HookListShape
<1>3. PICK i \in DOMAIN h : \E k \in DOMAIN h[i] :
        h[i][k] \in {"TerminateWithError", "UseUnknownPersistenceOption"}
  BY <1>1 DEF Terminates
<1>4. "TerminateWithError" \in Range(h[i])
  BY <1>2, <1>3 DEF Range, UpdateCalls
<1>5. \E c \in {"TerminateWithError"} : Called(h, {"TerminateWithError"}, c)
  <2> DEFINE errors == {"TerminateWithError"}
  <2>1. "TerminateWithError" \in errors /\ DOMAIN h = 1..n
    BY <1>2
  <2> HIDE DEF errors
  <2>2. \E c \in errors : Called(h, errors, c)
    BY <1>4, <2>1, ErrorIsCalled
  <2> QED BY <2>2 DEF errors
<1> QED BY <1>1, <1>5 DEF ProcessUpdateHooks

\* The block hooks leave the error of the user if the first of them that stops the
\* response terminates it.
LEMMA BlockRefused ==
  ASSUME NEW outcome \in BlockOutcomes, outcome.refused
  PROVE  outcome.err = "failed"
<1>1. PICK h \in HookLists(BlockCalls) :
        outcome = [err |-> ProcessBlockHooks(h), refused |-> TerminatesAtBlock(h)]
  BY DEF BlockOutcomes
<1>2. PICK n \in Nat : /\ DOMAIN h = 1..n
                       /\ \A i \in 1..n : \E m \in Nat : h[i] \in [1..m -> BlockCalls]
  BY HookListShape
<1>3. \A j \in 1..n : DOMAIN h[j] = 1..Len(h[j]) /\ Len(h[j]) \in Nat
  BY <1>2
<1> DEFINE stops(j) == {l \in 1..Len(h[j]) : h[j][l] \in BlockErrors}
<1>4. PICK i \in 1..n :
        /\ \A j \in 1..(i - 1) : stops(j) = {}
        /\ \E k \in stops(i) : h[i][k] = "TerminateWithError" /\ \A l \in stops(i) : l <= k
  <2>1. PICK i \in 1..n :
        /\ \A j \in 1..(i - 1) : {k \in DOMAIN h[j] : h[j][k] \in BlockErrors} = {}
        /\ \E k \in {l \in DOMAIN h[i] : h[i][l] \in BlockErrors} :
             /\ h[i][k] = "TerminateWithError"
             /\ \A l \in {m \in DOMAIN h[i] : h[i][m] \in BlockErrors} : l <= k
    BY <1>1, <1>2 DEF TerminatesAtBlock, BlockErrors
  <2> QED BY <1>3, <2>1
<1>5. PICK k \in stops(i) : h[i][k] = "TerminateWithError" /\ \A l \in stops(i) : l <= k
  BY <1>4
<1>6. HookError(h[i]) = "failed"
  <2>1. k # 0 /\ stops(i) # {} /\ stops(i) \subseteq Nat /\ k \in stops(i)
    BY <1>3, <1>4, <1>5
  <2>2. Max(stops(i)) = k
    <3> HIDE DEF stops
    <3> QED BY <1>5, <2>1 DEF Max
  <2> QED BY <1>5, <2>1, <2>2 DEF HookError, SelectLastInSeq
<1>7. \A j \in 1..(i - 1) : HookError(h[j]) = NoErr
  <2> SUFFICES ASSUME NEW j \in 1..(i - 1) PROVE HookError(h[j]) = NoErr
    OBVIOUS
  <2>1. stops(j) = {}
    BY <1>4
  <2> QED BY <2>1 DEF HookError, SelectLastInSeq
<1>8. Len(h) = n /\ i \in 1..n
  BY <1>2
<1> DEFINE first == {j \in 1..Len(h) : HookError(h[j]) # NoErr}
<1>9. i \in first /\ \A j \in first : i <= j
  BY <1>6, <1>7, <1>8 DEF NoErr
<1>10. first # {} /\ Min(first) = i
  BY <1>8, <1>9 DEF Min
<1>11. i # 0 /\ outcome.err = PublishBlock(h)
  BY <1>1, <1>8 DEF ProcessBlockHooks
<1> QED BY <1>6, <1>10, <1>11 DEF PublishBlock, SelectInSeq

\* The types of what the hooks return.
LEMMA HookTypes ==
  /\ \A outcome \in UpdateOutcomes :
       outcome.result.err \in {NoErr, "failed"} /\ outcome.result.extensions \in BOOLEAN
  /\ \A outcome \in BlockOutcomes : outcome.err \in {NoErr, "failed", "paused"}
<1>1. \A hook : HookError(hook) \in {NoErr, "failed", "paused"}
  BY DEF HookError, SelectLastInSeq
<1>2. \A hooks : PublishBlock(hooks) \in {NoErr, "failed", "paused"}
  BY <1>1 DEF PublishBlock, SelectInSeq
<1>3. \A outcome \in BlockOutcomes : outcome.err \in {NoErr, "failed", "paused"}
  BY <1>2 DEF BlockOutcomes, ProcessBlockHooks
<1>4. \A hooks : /\ ProcessUpdateHooks(hooks).err \in {NoErr, "failed"}
                 /\ ProcessUpdateHooks(hooks).extensions \in BOOLEAN
  BY DEF ProcessUpdateHooks, Called
<1>5. \A outcome \in UpdateOutcomes :
       outcome.result.err \in {NoErr, "failed"} /\ outcome.result.extensions \in BOOLEAN
  BY <1>4 DEF UpdateOutcomes
<1> QED BY <1>3, <1>5

-----------------------------------------------------------------------------
(* What the helpers of the model do *)

\* A worker's step changes where it is and the error it carries, and no other worker.
LEMMA AtFields ==
  ASSUME NEW r \in Requests, exec \in [Requests -> Executions],
         NEW at \in {"idle", "start", "traverse", "check", "updates", "send", "finish", "done"},
         NEW err \in Errors, At(r, at, err)
  PROVE  /\ exec' \in [Requests -> Executions]
         /\ exec'[r].at = at /\ exec'[r].err = err
         /\ \A q \in Requests \ {r} : exec'[q] = exec[q]
BY DEF At, Executions

\* A worker that has ended its task is idle.
LEMMA IdleFields ==
  ASSUME NEW r \in Requests, exec \in [Requests -> Executions],
         exec' = [exec EXCEPT ![r] = Idle]
  PROVE  /\ exec' \in [Requests -> Executions]
         /\ exec'[r].at = "idle" /\ exec'[r].err = NoErr
         /\ \A q \in Requests \ {r} : exec'[q] = exec[q]
BY DEF Executions, Idle, Errors, NoErr

\* What the model's transactions send, and which of them hold a final status.
Batches == {<<>>, <<"data">>, <<"partial">>, <<"completed">>, <<"failed">>, <<"data", "failed">>}

Ending == {<<"completed">>, <<"failed">>, <<"data", "failed">>}

\* Extension data before a failure, and either of them alone.
LEMMA BatchSums ==
  /\ <<>> \o <<"failed">> = <<"failed">>
  /\ <<"data">> \o <<>> = <<"data">>
  /\ <<"data">> \o <<"failed">> = <<"data", "failed">>
<1> DEFINE s == <<"data">> \o <<"failed">>
           t == <<"data", "failed">>
<1>1. <<"data">> \in Seq(Operations) /\ <<"failed">> \in Seq(Operations) /\ t \in Seq(Operations)
  BY DEF Operations
<1>2. <<>> \o <<"failed">> = <<"failed">> /\ <<"data">> \o <<>> = <<"data">>
  BY <1>1, ConcatEmptySeq
<1>3. Len(<<"data">>) = 1 /\ Len(<<"failed">>) = 1 /\ Len(t) = 2
  OBVIOUS
<1>4. s \in Seq(Operations) /\ Len(s) = 2 /\ s[1] = "data" /\ s[2] = "failed"
  BY <1>1, <1>3, ConcatProperties
<1>5. \A i \in 1..2 : s[i] = t[i]
  BY <1>4
<1>6. t \in Seq(Operations) /\ Len(s) = Len(t) /\ \A i \in 1..Len(s) : s[i] = t[i]
  BY <1>1, <1>3, <1>4, <1>5
<1> HIDE DEF s, t
<1>7. s = t
  BY <1>4, <1>6, SeqEqual
<1> QED BY <1>2, <1>7 DEF s, t

\* prepareQuery sends a final status only if it fails, and never "completed".
LEMMA QueryOps ==
  ASSUME NEW result, NEW decodes \in BOOLEAN
  PROVE  LET query == PrepareQuery(result, decodes)
         IN  /\ query.err \in BOOLEAN
             /\ query.ops \in Batches \ {<<"completed">>, <<"partial">>}
             /\ ~query.err => query.ops \in {<<>>, <<"data">>}
<1> DEFINE extensions == IF result.extensions THEN <<"data">> ELSE <<>>
           paused     == IF result.extensions \/ result.isPaused THEN <<"data">> ELSE <<>>
           Sent       == Batches \ {<<"completed">>, <<"partial">>}
<1>1. {<<>>, <<"data">>, <<"failed">>, <<"data", "failed">>} \subseteq Sent
  BY DEF Batches
<1> HIDE DEF Sent
<1>2. extensions \in {<<>>, <<"data">>} /\ paused \in {<<>>, <<"data">>}
  OBVIOUS
<1>3. extensions \o <<"failed">> \in Sent /\ paused \o <<"failed">> \in Sent /\ paused \in Sent
  <2> HIDE DEF extensions, paused
  <2> QED BY <1>1, <1>2, BatchSums
<1> HIDE DEF extensions, paused
<1>4. \/ PrepareQuery(result, decodes) = [err |-> TRUE, ops |-> extensions \o <<"failed">>]
      \/ PrepareQuery(result, decodes) = [err |-> FALSE, ops |-> paused]
      \/ PrepareQuery(result, decodes) = [err |-> TRUE, ops |-> paused \o <<"failed">>]
  BY DEF PrepareQuery, extensions, paused
<1> DEFINE failed == extensions \o <<"failed">>
           undecoded == paused \o <<"failed">>
<1> HIDE DEF failed, undecoded
<1>5. \E ops \in {failed, undecoded, paused}, err \in BOOLEAN :
        /\ PrepareQuery(result, decodes) = [err |-> err, ops |-> ops]
        /\ ~err => ops = paused
  BY <1>4 DEF failed, undecoded
<1>6. failed \in Sent /\ undecoded \in Sent /\ paused \in Sent
  BY <1>3 DEF failed, undecoded
<1> QED BY <1>2, <1>5, <1>6 DEF Sent

\* Extension data may go before the operations of a handler.
LEMMA ExtensionOps ==
  ASSUME NEW extensions
  PROVE  /\ WithExtensions(extensions, <<>>) \in {<<>>, <<"data">>}
         /\ WithExtensions(extensions, <<"failed">>) \in {<<"failed">>, <<"data", "failed">>}
BY BatchSums DEF WithExtensions

\* The operations of a batch: a final status is the last of them.
LEMMA BatchShape ==
  ASSUME NEW ops \in Batches
  PROVE  /\ ops \in Seq(Operations) /\ Len(ops) \in Nat
         /\ \A k \in 1..Len(ops) :
              /\ ops[k] \in {"completed", "failed"} => ops \in Ending /\ k = Len(ops)
              /\ ops[k] = "completed" => ops = <<"completed">>
         /\ ops = <<"partial">> => \A k \in 1..Len(ops) : ops[k] = "partial"
<1> USE DEF Operations, Ending
<1>1. CASE ops = <<>>
  BY <1>1
<1>2. CASE ops = <<"data">>
  BY <1>2
<1>3. CASE ops = <<"partial">>
  BY <1>3
<1>4. CASE ops = <<"completed">>
  BY <1>4
<1>5. CASE ops = <<"failed">>
  BY <1>5
<1>6. CASE ops = <<"data", "failed">>
  BY <1>6
<1> QED BY <1>1, <1>2, <1>3, <1>4, <1>5, <1>6 DEF Batches

\* A transaction adds its operations to one response, or drops them.
LEMMA TransactionFields ==
  ASSUME NEW r \in Requests, outbox \in [Requests -> Seq(Operations)],
         NEW ops \in Batches, Transaction(r, ops)
  PROVE  /\ outbox' \in [Requests -> Seq(Operations)]
         /\ \A q \in Requests \ {r} : outbox'[q] = outbox[q]
         /\ outbox'[r] = outbox[r] \/ outbox'[r] = outbox[r] \o ops
<1>1. ops \in Seq(Operations)
  BY BatchShape
<1>2. outbox[r] \in Seq(Operations) /\ outbox[r] \o ops \in Seq(Operations)
  BY <1>1, ConcatProperties
<1> QED BY <1>2 DEF Transaction

\* What a batch adds to the operations of a response.
LEMMA BatchAdded ==
  ASSUME NEW s \in Seq(Operations), NEW ops \in Batches
  PROVE  /\ DOMAIN s = 1..Len(s) /\ Len(s) \in Nat /\ Len(ops) \in Nat
         /\ DOMAIN (s \o ops) = 1..(Len(s) + Len(ops))
         /\ \A i \in DOMAIN s : (s \o ops)[i] = s[i]
         /\ \A i \in DOMAIN (s \o ops) \ DOMAIN s :
              \E k \in 1..Len(ops) : i = Len(s) + k /\ (s \o ops)[i] = ops[k]
<1>1. ops \in Seq(Operations) /\ Len(ops) \in Nat /\ Len(s) \in Nat
  BY BatchShape, LenProperties
<1>2. /\ Len(s \o ops) = Len(s) + Len(ops)
      /\ \A i \in 1..(Len(s) + Len(ops)) :
           (s \o ops)[i] = IF i <= Len(s) THEN s[i] ELSE ops[i - Len(s)]
      /\ s \o ops \in Seq(Operations)
  BY <1>1, ConcatProperties
<1>3. DOMAIN s = 1..Len(s) /\ DOMAIN (s \o ops) = 1..(Len(s) + Len(ops))
  BY <1>1, <1>2, LenProperties
<1>4. ASSUME NEW i \in DOMAIN (s \o ops) \ DOMAIN s
      PROVE  /\ i - Len(s) \in 1..Len(ops) /\ i = Len(s) + (i - Len(s))
             /\ (s \o ops)[i] = ops[i - Len(s)]
  BY <1>1, <1>2, <1>3, <1>4
<1> QED BY <1>1, <1>2, <1>3, <1>4

\* A transaction keeps what is known of the final status, if it has not been sent yet
\* or only PartialResponse is.
LEMMA Sends ==
  ASSUME NEW r \in Requests, outbox \in [Requests -> Seq(Operations)],
         NEW ops \in Batches, Transaction(r, ops), events' = events, subscriber' = subscriber,
         FinalIsLast(r), OneFinal(r), ~Final(r) \/ ops = <<"partial">>
  PROVE  /\ FinalIsLast(r)' /\ OneFinal(r)'
         /\ Final(r)' => Final(r) \/ ops \in Ending
         /\ ops # <<"completed">> =>
              \A i \in DOMAIN outbox'[r] : outbox'[r][i] = "completed" =>
                i \in DOMAIN outbox[r] /\ outbox[r][i] = "completed"
<1>1. outbox'[r] = outbox[r] \/ outbox'[r] = outbox[r] \o ops
  BY TransactionFields
<1>2. CASE outbox'[r] = outbox[r]
  BY <1>2 DEF FinalIsLast, OneFinal, Final, FinalQueued, FinalEvent, FinalHandled
<1>3. CASE outbox'[r] = outbox[r] \o ops
  <2> DEFINE s == outbox[r]
             u == outbox'[r]
             n == Len(s)
             m == Len(ops)
  <2>1. s \in Seq(Operations)
    OBVIOUS
  <2>2. /\ DOMAIN s = 1..n /\ n \in Nat /\ m \in Nat /\ DOMAIN u = 1..(n + m)
        /\ \A i \in 1..n : u[i] = s[i]
        /\ \A i \in 1..(n + m) : i \notin 1..n => \E k \in 1..m : i = n + k /\ u[i] = ops[k]
    <3>1. u = s \o ops
      BY <1>3
    <3> HIDE DEF s, u
    <3> QED BY <2>1, <3>1, BatchAdded
  <2> HIDE DEF s, u, n, m
  <2>3. /\ \A k \in 1..m : ops[k] \in {"completed", "failed"} => ops \in Ending /\ k = m
        /\ \A k \in 1..m : ops[k] = "completed" => ops = <<"completed">>
        /\ ops = <<"partial">> => \A k \in 1..m : ops[k] = "partial"
    BY BatchShape DEF m
  <2>4. ~FinalQueued(r) \/ ops = <<"partial">>
    BY DEF Final
  <2>5. FinalIsLast(r)'
    <3> SUFFICES ASSUME NEW i \in DOMAIN u, NEW j \in DOMAIN u, i < j,
                        u[i] \in {"completed", "failed"}
                 PROVE  u[j] = "partial"
      BY DEF FinalIsLast, u
    <3>1. CASE i \in 1..n /\ j \in 1..n
      BY <2>2, <3>1 DEF FinalIsLast, s
    <3>2. CASE i \in 1..n /\ j \notin 1..n
      <4>1. s[i] \in {"completed", "failed"} /\ i \in DOMAIN s
        BY <2>2, <3>2
      <4>2. FinalQueued(r)
        BY <4>1 DEF FinalQueued, s
      <4> QED BY <2>2, <2>3, <2>4, <3>2, <4>2
    <3>3. CASE i \notin 1..n
      <4>1. PICK k \in 1..m : i = n + k /\ u[i] = ops[k]
        BY <2>2, <3>3
      <4>2. k = m
        BY <2>3, <4>1
      <4> QED BY <2>2, <4>1, <4>2
    <3> QED BY <3>1, <3>2, <3>3
  <2>6. FinalQueued(r)' => FinalQueued(r) \/ ops \in Ending
    <3> SUFFICES ASSUME NEW i \in DOMAIN u, u[i] \in {"completed", "failed"}
                 PROVE  FinalQueued(r) \/ ops \in Ending
      BY DEF FinalQueued, u
    <3>1. CASE i \in 1..n
      <4>1. i \in DOMAIN s /\ s[i] \in {"completed", "failed"}
        BY <2>2, <3>1
      <4> QED BY <4>1 DEF FinalQueued, s
    <3>2. CASE i \notin 1..n
      BY <2>2, <2>3, <3>2
    <3> QED BY <3>1, <3>2
  <2>7. /\ FinalHandled(r)' <=> FinalHandled(r)
        /\ \A i : FinalEvent(r, i)' <=> FinalEvent(r, i)
    BY DEF FinalHandled, FinalEvent
  <2>8. Final(r)' => Final(r) \/ ops \in Ending
    BY <2>6, <2>7 DEF Final
  <2>9. ops \in Ending => ops # <<"partial">>
    BY DEF Ending
  <2>10. OneFinal(r)'
    BY <2>6, <2>7, <2>9 DEF OneFinal, Final
  <2>11. ops # <<"completed">> =>
           \A i \in DOMAIN u : u[i] = "completed" => i \in DOMAIN s /\ s[i] = "completed"
    BY <2>2, <2>3
  <2> QED BY <2>5, <2>8, <2>10, <2>11 DEF s, u
<1> QED BY <1>1, <1>2, <1>3

\* The listeners of one response are told once more.
LEMMA NotifyFields ==
  ASSUME NEW r \in Requests, listeners \in [Requests -> Seq({"cancelled", "completed"})],
         NEW verdict \in {"cancelled", "completed"}, Notify(r, verdict)
  PROVE  /\ listeners' \in [Requests -> Seq({"cancelled", "completed"})]
         /\ listeners'[r] = Append(listeners[r], verdict)
         /\ \A q \in Requests \ {r} : listeners'[q] = listeners[q]
         /\ listeners[r] = <<>> => Len(listeners'[r]) = 1
<1>1. listeners[r] \in Seq({"cancelled", "completed"})
  OBVIOUS
<1>2. Append(listeners[r], verdict) \in Seq({"cancelled", "completed"})
  BY <1>1, AppendProperties
<1>3. listeners' = [listeners EXCEPT ![r] = Append(listeners[r], verdict)]
  BY DEF Notify
<1>4. Len(Append(listeners[r], verdict)) = Len(listeners[r]) + 1
  BY <1>1, AppendProperties
<1> QED BY <1>2, <1>3, <1>4

-----------------------------------------------------------------------------
(* Type correctness *)

\* abortRequest keeps the types.
LEMMA AbortTypes ==
  ASSUME TypeOK, NEW r \in Requests, NEW err \in {"cancel", "network", "command"},
         AbortRequest(r, err)
  PROVE  /\ state' \in [Requests -> States]
         /\ pending' \in SUBSET Requests
         /\ errSignal' \in [Requests -> {NoErr, "cancel", "network", "command"}]
         /\ outbox' \in [Requests -> Seq(Operations)]
         /\ listeners' \in [Requests -> Seq({"cancelled", "completed"})]
<1> USE DEF TypeOK
<1>1. pending' \in SUBSET Requests
  BY DEF AbortRequest
<1>2. state' \in [Requests -> States]
  BY DEF AbortRequest, SetState, States
<1>3. errSignal' \in [Requests -> {NoErr, "cancel", "network", "command"}]
  BY DEF AbortRequest
<1>4. outbox' \in [Requests -> Seq(Operations)]
  <2>1. <<"failed">> \in Batches
    BY DEF Batches
  <2>2. outbox' = outbox \/ Transaction(r, <<"failed">>)
    BY DEF AbortRequest
  <2> QED BY <2>1, <2>2, TransactionFields
<1>5. listeners' \in [Requests -> Seq({"cancelled", "completed"})]
  <2>1. listeners' = listeners \/ Notify(r, "cancelled")
    BY DEF AbortRequest
  <2> QED BY <2>1, NotifyFields
<1> QED BY <1>1, <1>2, <1>3, <1>4, <1>5

\* A call or a message of the requestor is counted.
LEMMA CommandTypes ==
  ASSUME TypeOK, NEW r \in Requests, Command(r)
  PROVE  commands' \in [Requests -> 0..MaxCommands]
BY BoundsAssumption DEF TypeOK, Command

\* The handlers for the requestor's messages keep the types.
LEMMA RemoteTypes ==
  ASSUME TypeOK, NEW r \in Requests, Remote(r)
  PROVE  TypeOK'
<1> USE DEF TypeOK
<1>1. CASE NewRequest(r)
  <2>1. PICK outcome \in RequestOutcomes, decodes \in BOOLEAN :
          /\ Transaction(r, PrepareQuery(outcome.result, decodes).ops)
          /\ Refuse(r, outcome.refused)
    BY <1>1 DEF NewRequest
  <2>2. outbox' \in [Requests -> Seq(Operations)]
    <3> DEFINE ops == PrepareQuery(outcome.result, decodes).ops
    <3>1. ops \in Batches /\ Transaction(r, ops)
      BY <2>1, QueryOps
    <3> HIDE DEF ops
    <3> QED BY <3>1, TransactionFields
  <2>3. refused' \in SUBSET Requests
    BY <2>1 DEF Refuse
  <2>4. state' \in [Requests -> States] /\ pending' \in SUBSET Requests
    BY <1>1 DEF NewRequest, SetState, PushTask, States
  <2> QED BY <1>1, <2>2, <2>3, <2>4 DEF NewRequest, signals, delivery
<1>2. CASE ProcessCancel(r)
  <2>1. commands' \in [Requests -> 0..MaxCommands]
    BY <1>2, CommandTypes DEF ProcessCancel
  <2> QED BY <1>2, <2>1, AbortTypes DEF ProcessCancel
<1>3. CASE ProcessUpdateLater(r)
  <2>1. commands' \in [Requests -> 0..MaxCommands]
    BY <1>3, CommandTypes DEF ProcessUpdateLater
  <2> QED BY <1>3, <2>1 DEF ProcessUpdateLater, delivery
<1>4. CASE ProcessUpdatePaused(r)
  <2>1. commands' \in [Requests -> 0..MaxCommands]
    BY <1>4, CommandTypes DEF ProcessUpdatePaused
  <2>2. PICK outcome \in UpdateOutcomes :
          /\ Refuse(r, outcome.refused)
          /\ Transaction(r, WithExtensions(outcome.result.extensions,
                              IF outcome.result.err = NoErr THEN <<>> ELSE <<"failed">>))
    BY <1>4 DEF ProcessUpdatePaused
  <2>3. outbox' \in [Requests -> Seq(Operations)]
    <3> DEFINE ops == WithExtensions(outcome.result.extensions,
                        IF outcome.result.err = NoErr THEN <<>> ELSE <<"failed">>)
    <3>1. ops \in Batches /\ Transaction(r, ops)
      BY <2>2, ExtensionOps DEF Batches
    <3> HIDE DEF ops
    <3> QED BY <3>1, TransactionFields
  <2>4. refused' \in SUBSET Requests
    BY <2>2 DEF Refuse
  <2>5. state' \in [Requests -> States] /\ pending' \in SUBSET Requests
    BY <1>4 DEF ProcessUpdatePaused, SetState, PushTask, States
  <2> QED BY <1>4, <2>1, <2>3, <2>4, <2>5 DEF ProcessUpdatePaused, signals, delivery
<1> QED BY <1>1, <1>2, <1>3, <1>4 DEF Remote

\* The user's calls keep the types.
LEMMA LocalTypes ==
  ASSUME TypeOK, NEW r \in Requests, Local(r)
  PROVE  TypeOK'
<1> USE DEF TypeOK
<1>1. commands' \in [Requests -> 0..MaxCommands]
  BY CommandTypes DEF Local, PauseResponse, UnpauseResponse, CancelResponse, UpdateResponse
<1>2. CASE PauseResponse(r)
  BY <1>1, <1>2 DEF PauseResponse, delivery
<1>3. CASE UnpauseResponse(r)
  <2>1. PICK extensions \in BOOLEAN : Transaction(r, WithExtensions(extensions, <<>>))
    BY <1>3 DEF UnpauseResponse
  <2>2. outbox' \in [Requests -> Seq(Operations)]
    <3> DEFINE ops == WithExtensions(extensions, <<>>)
    <3>1. ops \in Batches /\ Transaction(r, ops)
      BY <2>1, ExtensionOps DEF Batches
    <3> HIDE DEF ops
    <3> QED BY <3>1, TransactionFields
  <2>3. state' \in [Requests -> States] /\ pending' \in SUBSET Requests
    BY <1>3 DEF UnpauseResponse, SetState, PushTask, States
  <2> QED BY <1>1, <1>3, <2>2, <2>3 DEF UnpauseResponse, signals, delivery
<1>4. CASE CancelResponse(r)
  BY <1>1, <1>4, AbortTypes DEF CancelResponse
<1>5. CASE UpdateResponse(r)
  <2>1. <<"partial">> \in Batches
    BY DEF Batches
  <2>2. outbox' \in [Requests -> Seq(Operations)]
    BY <1>5, <2>1, TransactionFields DEF UpdateResponse
  <2> QED BY <1>1, <1>5, <2>2 DEF UpdateResponse, signals, delivery
<1> QED BY <1>2, <1>3, <1>4, <1>5 DEF Local

\* What sendResponse leaves behind is a worker that goes on or finishes.
LEMMA SendFields ==
  ASSUME NEW r \in Requests, exec \in [Requests -> Executions],
         NEW err \in Errors,
         exec' = [exec EXCEPT ![r] = [at |-> IF err = NoErr THEN "traverse" ELSE "finish",
                                      err |-> err, extensions |-> FALSE]]
  PROVE  /\ exec' \in [Requests -> Executions]
         /\ exec'[r].at = IF err = NoErr THEN "traverse" ELSE "finish"
         /\ exec'[r].err = err
         /\ \A q \in Requests \ {r} : exec'[q] = exec[q]
BY DEF Executions

\* Extension data of an update hook is kept for the block.
LEMMA CollectFields ==
  ASSUME NEW r \in Requests, exec \in [Requests -> Executions], NEW extensions \in BOOLEAN,
         exec' = [exec EXCEPT ![r] = [@ EXCEPT !.at = "check", !.extensions = extensions]]
  PROVE  /\ exec' \in [Requests -> Executions]
         /\ exec'[r].at = "check" /\ exec'[r].err = exec[r].err
         /\ \A q \in Requests \ {r} : exec'[q] = exec[q]
BY DEF Executions

\* The update hooks have nothing to say of no update.
LEMMA NoUpdateFields ==
  /\ NoUpdate.result.err = NoErr
  /\ NoUpdate.result.extensions \in BOOLEAN
  /\ NoUpdate.refused = FALSE
<1>1. \A errors, call : Called(<<>>, errors, call) = FALSE
  BY DEF Called
<1>2. /\ ProcessUpdateHooks(<<>>).err = NoErr
      /\ ProcessUpdateHooks(<<>>).extensions \in BOOLEAN
  BY <1>1 DEF ProcessUpdateHooks
<1>3. NoUpdate.result = ProcessUpdateHooks(<<>>) /\ NoUpdate.refused = FALSE
  BY DEF NoUpdate
<1> QED BY <1>2, <1>3

\* What the update hooks may say in getUpdates.
LEMMA UpdateFields ==
  ASSUME NEW r, NEW outcome \in IF r \in updates THEN UpdateOutcomes ELSE {NoUpdate}
  PROVE  /\ outcome.result.err \in {NoErr, "failed"}
         /\ outcome.result.extensions \in BOOLEAN
         /\ outcome.refused => outcome.result.err = "failed"
BY HookTypes, NoUpdateFields, UpdateRefused DEF NoErr

\* The final status of executeQuery.
LEMMA StatusOps ==
  ASSUME NEW err \in Errors
  PROVE  /\ FinalStatus(err) \in Batches
         /\ FinalStatus(err) \in Ending => err \notin {"paused", "cancel", "network"}
         /\ FinalStatus(err) = <<"completed">> => err = NoErr
<1>1. <<>> \notin Ending
  BY DEF Ending
<1>2. <<>> # <<"completed">> /\ <<"failed">> # <<"completed">>
  OBVIOUS
<1> QED BY <1>1, <1>2 DEF FinalStatus, Batches, NoErr

\* A worker's steps keep the types.
LEMMA WorkerTypes ==
  ASSUME TypeOK, NEW r \in Requests, Worker(r)
  PROVE  TypeOK'
<1> USE DEF TypeOK
<1>1. /\ exec[r].err \in Errors /\ NoErr \in Errors
      /\ exec[r].extensions \in BOOLEAN /\ errSignal[r] \in Errors
  BY DEF Executions, Errors
<1>2. CASE PopTask(r)
  <2>1. exec' \in [Requests -> Executions]
    BY <1>1, <1>2, AtFields DEF PopTask
  <2> QED BY <1>2, <2>1 DEF PopTask, signals, delivery
<1>3. CASE StartTask(r)
  <2>1. exec' \in [Requests -> Executions]
    BY <1>1, <1>3, AtFields, IdleFields DEF StartTask
  <2>2. state' \in [Requests -> States]
    BY <1>3 DEF StartTask, SetState, States
  <2> QED BY <1>3, <2>1, <2>2 DEF StartTask, signals, delivery
<1>4. CASE Traverse(r)
  <2>1. exec' \in [Requests -> Executions]
    <3>1. \E at \in {"finish", "check"}, err \in {NoErr, "failed"} : At(r, at, err)
      BY <1>4 DEF Traverse
    <3> QED BY <1>1, <3>1, AtFields DEF Errors
  <2>2. blocksLeft' \in [Requests -> 0..MaxBlocks]
    <3>1. blocksLeft[r] \in 0..MaxBlocks
      OBVIOUS
    <3>2. CASE blocksLeft[r] # 0 /\ blocksLeft' = [blocksLeft EXCEPT ![r] = @ - 1]
      <4>1. blocksLeft[r] - 1 \in 0..MaxBlocks
        BY <3>1, <3>2, BoundsAssumption
      <4> QED BY <3>2, <4>1
    <3>3. CASE blocksLeft' = blocksLeft
      BY <3>3
    <3> QED BY <1>4, <3>2, <3>3 DEF Traverse, IsComplete
  <2> QED BY <1>4, <2>1, <2>2 DEF Traverse, signals, delivery
<1>5. CASE CheckForUpdates(r)
  <2>1. exec' \in [Requests -> Executions]
    <3>1. \E at \in {"send", "finish", "updates"}, err \in {"paused", NoErr, errSignal[r]} :
            At(r, at, err)
      BY <1>5 DEF CheckForUpdates
    <3> QED BY <1>1, <3>1, AtFields DEF Errors
  <2>2. outbox' \in [Requests -> Seq(Operations)]
    <3> DEFINE ops == WithExtensions(exec[r].extensions, <<>>)
    <3>1. ops \in Batches /\ (Transaction(r, ops) \/ outbox' = outbox)
      BY <1>5, ExtensionOps DEF CheckForUpdates, Batches
    <3> HIDE DEF ops
    <3> QED BY <3>1, TransactionFields
  <2>3. /\ errSignal' \in [Requests -> {NoErr, "cancel", "network", "command"}]
        /\ {pauseSignal', updateSignal'} \subseteq SUBSET Requests
    BY <1>5 DEF CheckForUpdates
  <2> QED BY <1>5, <2>1, <2>2, <2>3 DEF CheckForUpdates, delivery
<1>6. CASE GetUpdates(r)
  <2>1. PICK outcome \in IF r \in updates THEN UpdateOutcomes ELSE {NoUpdate} :
          LET extensions == exec[r].extensions \/ outcome.result.extensions
          IN  /\ Refuse(r, outcome.refused)
              /\ \/ /\ exec' = [exec EXCEPT ![r] = [@ EXCEPT !.at = "check",
                                                            !.extensions = extensions]]
                    /\ UNCHANGED outbox
                 \/ /\ At(r, "finish", outcome.result.err)
                    /\ Transaction(r, WithExtensions(extensions, <<>>))
    BY <1>6, Zenon DEF GetUpdates
  <2> DEFINE extensions == exec[r].extensions \/ outcome.result.extensions
             ops == WithExtensions(extensions, <<>>)
  <2>2. extensions \in BOOLEAN /\ outcome.result.err \in Errors /\ ops \in Batches
    BY <1>1, UpdateFields, ExtensionOps DEF Errors, Batches
  <2>3. \/ /\ exec' = [exec EXCEPT ![r] = [@ EXCEPT !.at = "check", !.extensions = extensions]]
           /\ UNCHANGED outbox
        \/ At(r, "finish", outcome.result.err) /\ Transaction(r, ops)
    BY <2>1
  <2> HIDE DEF extensions, ops
  <2>4. exec' \in [Requests -> Executions]
    BY <2>2, <2>3, AtFields, CollectFields, Zenon
  <2>5. outbox' \in [Requests -> Seq(Operations)]
    BY <2>2, <2>3, TransactionFields
  <2>6. refused' \in SUBSET Requests /\ updates' \in SUBSET Requests
    BY <1>6, <2>1 DEF Refuse, GetUpdates
  <2> QED BY <1>6, <2>4, <2>5, <2>6 DEF GetUpdates, delivery
<1>7. CASE SendResponse(r)
  <2>1. PICK outcome \in BlockOutcomes :
          LET err == BlockError(r, outcome.err)
          IN  /\ Refuse(r, outcome.refused)
              /\ exec' = [exec EXCEPT ![r] = [at |-> IF err = NoErr THEN "traverse" ELSE "finish",
                                              err |-> err, extensions |-> FALSE]]
    BY <1>7 DEF SendResponse
  <2> DEFINE err == BlockError(r, outcome.err)
  <2>2. err \in Errors
    BY <1>1, HookTypes DEF BlockError, Errors
  <2>3. exec' = [exec EXCEPT ![r] = [at |-> IF err = NoErr THEN "traverse" ELSE "finish",
                                     err |-> err, extensions |-> FALSE]]
    BY <2>1
  <2> HIDE DEF err
  <2>4. exec' \in [Requests -> Executions]
    BY <2>2, <2>3, SendFields
  <2>5. <<"data">> \in Batches
    BY DEF Batches
  <2>6. outbox' \in [Requests -> Seq(Operations)] /\ refused' \in SUBSET Requests
    BY <1>7, <2>1, <2>5, TransactionFields DEF SendResponse, Refuse
  <2> QED BY <1>7, <2>4, <2>6 DEF SendResponse, signals, delivery
<1>8. CASE CloseOut(r)
  <2>1. exec' \in [Requests -> Executions]
    BY <1>1, <1>8, AtFields DEF CloseOut
  <2>2. outbox' \in [Requests -> Seq(Operations)]
    <3> DEFINE ops == FinalStatus(exec[r].err)
    <3>1. ops \in Batches /\ Transaction(r, ops)
      BY <1>1, <1>8, StatusOps DEF CloseOut
    <3> HIDE DEF ops
    <3> QED BY <3>1, TransactionFields
  <2> QED BY <1>8, <2>1, <2>2 DEF CloseOut, signals, delivery
<1>9. CASE FinishTask(r)
  <2>1. exec' \in [Requests -> Executions]
    BY <1>9, IdleFields DEF FinishTask
  <2>2. state' \in [Requests -> States]
    BY <1>9 DEF FinishTask, SetState, States
  <2>3. listeners' \in [Requests -> Seq({"cancelled", "completed"})]
    <3>1. listeners' = listeners \/ Notify(r, "cancelled")
      BY <1>9 DEF FinishTask
    <3> QED BY <3>1, NotifyFields
  <2> QED BY <1>9, <2>1, <2>2, <2>3 DEF FinishTask, signals
<1> QED BY <1>2, <1>3, <1>4, <1>5, <1>6, <1>7, <1>8, <1>9 DEF Worker

\* The numbers up to k are among those up to a larger one.
LEMMA ShorterInterval ==
  ASSUME NEW L \in Nat, NEW k \in 1..L
  PROVE  1..k \subseteq 1..L
OBVIOUS

\* A message takes the first operations of a response; the rest stays.
LEMMA Cut ==
  ASSUME NEW s \in Seq(Operations), NEW n \in 1..Len(s)
  PROVE  /\ Len(s) \in Nat /\ DOMAIN s = 1..Len(s)
         /\ SubSeq(s, n + 1, Len(s)) \in Seq(Operations)
         /\ DOMAIN SubSeq(s, n + 1, Len(s)) = 1..(Len(s) - n)
         /\ \A i \in 1..(Len(s) - n) : SubSeq(s, n + 1, Len(s))[i] = s[n + i]
         /\ DOMAIN SubSeq(s, 1, n) = 1..n
         /\ \A i \in 1..n : SubSeq(s, 1, n)[i] = s[i]
<1>1. Len(s) \in Nat /\ DOMAIN s = 1..Len(s) /\ n \in Int /\ n + 1 \in Int /\ Len(s) \in Int
  BY LenProperties
<1>2. \A i \in 1..Len(s) : s[i] \in Operations
  BY ElementOfSeq
<1> DEFINE rest == SubSeq(s, n + 1, Len(s))
           sent == SubSeq(s, 1, n)
<1>3. /\ rest \in Seq(Operations)
      /\ Len(rest) = IF n + 1 <= Len(s) THEN Len(s) - (n + 1) + 1 ELSE 0
      /\ \A i \in 1..(Len(s) - (n + 1) + 1) : rest[i] = s[(n + 1) + i - 1]
  <2> HIDE DEF rest
  <2>1. \A i \in (n + 1)..Len(s) : s[i] \in Operations
    BY <1>1, <1>2
  <2> QED BY <1>1, <2>1, SubSeqProperties DEF rest
<1>4. /\ sent \in Seq(Operations)
      /\ Len(sent) = IF 1 <= n THEN n - 1 + 1 ELSE 0
      /\ \A i \in 1..(n - 1 + 1) : sent[i] = s[1 + i - 1]
  <2> HIDE DEF sent
  <2>1. \A i \in 1..n : s[i] \in Operations
    <3>1. 1..n \subseteq 1..Len(s)
      BY <1>1, ShorterInterval
    <3> QED BY <1>2, <3>1
  <2> QED BY <1>1, <2>1, SubSeqProperties DEF sent
<1> HIDE DEF rest, sent
<1>5. Len(rest) = Len(s) - n /\ Len(sent) = n
  <2>1. \A l \in Nat : \A k \in 1..l :
          /\ (IF k + 1 <= l THEN l - (k + 1) + 1 ELSE 0) = l - k
          /\ (IF 1 <= k THEN k - 1 + 1 ELSE 0) = k
    OBVIOUS
  <2> QED BY <1>1, <1>3, <1>4, <2>1, Zenon
<1>6. DOMAIN rest = 1..(Len(s) - n) /\ DOMAIN sent = 1..n
  BY <1>3, <1>4, <1>5, LenProperties
<1>7. \A i \in 1..(Len(s) - n) : rest[i] = s[n + i]
  <2>1. \A l \in Nat : \A k \in 1..l : l - (k + 1) + 1 = l - k
    OBVIOUS
  <2>2. Len(s) - (n + 1) + 1 = Len(s) - n
    BY <1>1, <2>1
  <2>3. \A i \in 1..(Len(s) - n) : (n + 1) + i - 1 = n + i
    BY <1>1
  <2> QED BY <1>3, <2>2, <2>3
<1>8. \A i \in 1..n : sent[i] = s[i]
  BY <1>1, <1>4
<1> QED BY <1>1, <1>3, <1>6, <1>7, <1>8 DEF rest, sent

\* The event of a message joins the notification queue.
LEMMA EventAdded ==
  ASSUME TypeOK, NEW e \in Events({"Sent", "Error"}), events' = Append(events, e)
  PROVE  /\ events' \in Seq(Events({"Sent", "Error"}))
         /\ \A q, i : FinalEvent(q, i)' <=>
              FinalEvent(q, i) \/ (i = Len(events) + 1 /\ e.request = q /\ e.terminal)
         /\ \A q, i : FinalEvent(q, i) => i # Len(events) + 1
<1>1. events \in Seq(Events({"Sent", "Error"}))
  BY DEF TypeOK
<1>2. /\ events' \in Seq(Events({"Sent", "Error"}))
      /\ Len(events') = Len(events) + 1
      /\ \A i \in 1..Len(events) : events'[i] = events[i]
      /\ events'[Len(events) + 1] = e
  BY <1>1, AppendProperties
<1>3. /\ Len(events) \in Nat /\ DOMAIN events = 1..Len(events)
      /\ DOMAIN events' = 1..(Len(events) + 1)
  BY <1>1, <1>2, LenProperties
<1> QED BY <1>2, <1>3 DEF FinalEvent

\* The publisher takes the first event off the notification queue.
LEMMA EventTaken ==
  ASSUME TypeOK, events # <<>>, events' = Tail(events)
  PROVE  /\ events' \in Seq(Events({"Sent", "Error"}))
         /\ Head(events) \in Events({"Sent", "Error"})
         /\ Head(events) = events[1] /\ 1 \in DOMAIN events
         /\ \A q, i : FinalEvent(q, i)' => i \in Nat \ {0} /\ FinalEvent(q, i + 1)
<1>1. events \in Seq(Events({"Sent", "Error"}))
  BY DEF TypeOK
<1>2. /\ events' \in Seq(Events({"Sent", "Error"}))
      /\ Head(events) \in Events({"Sent", "Error"})
      /\ Len(events') = Len(events) - 1
      /\ \A i \in 1..Len(events') : events'[i] = events[i + 1]
  BY <1>1, HeadTailProperties
<1>3. /\ Len(events) \in Nat /\ DOMAIN events = 1..Len(events)
      /\ Len(events') \in Nat /\ DOMAIN events' = 1..Len(events')
  BY <1>1, <1>2, LenProperties
<1>4. 1 \in DOMAIN events
  BY <1>2, <1>3
<1>5. Head(events) = events[1]
  OBVIOUS
<1>6. \A q, i : FinalEvent(q, i)' => i \in Nat \ {0} /\ FinalEvent(q, i + 1)
  BY <1>2, <1>3 DEF FinalEvent
<1> QED BY <1>2, <1>4, <1>5, <1>6

\* The message queue and the publisher keep the types.
LEMMA DeliveryTypes ==
  ASSUME TypeOK,
         (\E r \in Requests : MessageSent(r) \/ MessageFailed(r)) \/ Publisher
  PROVE  TypeOK'
<1> USE DEF TypeOK
<1>1. ASSUME NEW r \in Requests, NEW name \in {"Sent", "Error"}, NEW batch
      PROVE  [name |-> name, request |-> r, terminal |-> Terminal(batch)]
               \in Events({"Sent", "Error"})
  <2>1. Terminal(batch) \in BOOLEAN
    BY DEF Terminal
  <2> QED BY <2>1 DEF Events
<1>2. ASSUME NEW r \in Requests, MessageSent(r) PROVE TypeOK'
  <2>1. PICK n \in 1..Len(outbox[r]) :
          /\ outbox' = [outbox EXCEPT ![r] = SubSeq(outbox[r], n + 1, Len(outbox[r]))]
          /\ events' = Append(events, [name |-> "Sent", request |-> r,
                                       terminal |-> Terminal(SubSeq(outbox[r], 1, n))])
    BY <1>2 DEF MessageSent
  <2>2. SubSeq(outbox[r], n + 1, Len(outbox[r])) \in Seq(Operations)
    <3> DEFINE s == outbox[r]
    <3>1. s \in Seq(Operations) /\ n \in 1..Len(s)
      OBVIOUS
    <3> HIDE DEF s
    <3>2. SubSeq(s, n + 1, Len(s)) \in Seq(Operations)
      BY <3>1, Cut
    <3> QED BY <3>2 DEF s
  <2>3. outbox' \in [Requests -> Seq(Operations)]
    BY <2>1, <2>2
  <2>4. events' \in Seq(Events({"Sent", "Error"}))
    BY <1>1, <2>1, EventAdded
  <2> QED BY <1>2, <2>3, <2>4 DEF MessageSent, signals
<1>3. ASSUME NEW r \in Requests, MessageFailed(r) PROVE TypeOK'
  <2>1. PICK n \in 1..Len(outbox[r]) :
          events' = Append(events, [name |-> "Error", request |-> r,
                                    terminal |-> Terminal(SubSeq(outbox[r], 1, n))])
    BY <1>3 DEF MessageFailed
  <2>2. outbox' \in [Requests -> Seq(Operations)] /\ closed' \in SUBSET Requests
    BY <1>3 DEF MessageFailed
  <2>3. events' \in Seq(Events({"Sent", "Error"}))
    BY <1>1, <2>1, EventAdded
  <2> QED BY <1>3, <2>2, <2>3 DEF MessageFailed, signals
<1>4. CASE OnNextSent
  <2> DEFINE r == Head(events).request
  <2>1. events' \in Seq(Events({"Sent", "Error"})) /\ r \in Requests
    BY <1>4, EventTaken DEF OnNextSent, Events
  <2>2. \/ UNCHANGED <<state, listeners>>
        \/ TerminateRequest(r) /\ Notify(r, "completed")
    BY <1>4 DEF OnNextSent
  <2> HIDE DEF r
  <2>3. state' \in [Requests -> States]
    BY <2>1, <2>2 DEF TerminateRequest, States
  <2>4. listeners' \in [Requests -> Seq({"cancelled", "completed"})]
    BY <2>1, <2>2, NotifyFields
  <2> QED BY <1>4, <2>1, <2>3, <2>4 DEF OnNextSent, signals
<1>5. CASE OnNextError
  <2> DEFINE r == Head(events).request
  <2>1. /\ events' \in Seq(Events({"Sent", "Error"})) /\ r \in Requests
        /\ Head(events) \in Events({"Error"})
    BY <1>5, EventTaken DEF OnNextError, Events
  <2>2. AbortRequest(r, "network") /\ subscriber' = Head(events)
    BY <1>5 DEF OnNextError
  <2> HIDE DEF r
  <2>3. /\ state' \in [Requests -> States]
        /\ pending' \in SUBSET Requests
        /\ errSignal' \in [Requests -> {NoErr, "cancel", "network", "command"}]
        /\ outbox' \in [Requests -> Seq(Operations)]
        /\ listeners' \in [Requests -> Seq({"cancelled", "completed"})]
    BY <2>1, <2>2, AbortTypes
  <2> QED BY <1>5, <2>1, <2>2, <2>3 DEF OnNextError
<1>6. CASE OnNextErrorTerminate
  <2>1. subscriber.request \in Requests
    BY <1>6 DEF OnNextErrorTerminate, Events
  <2>2. state' \in [Requests -> States]
    BY <1>6, <2>1 DEF OnNextErrorTerminate, TerminateIfTerminal, TerminateRequest, States
  <2> QED BY <1>6, <2>1, <2>2 DEF OnNextErrorTerminate, signals
<1> QED BY <1>2, <1>3, <1>4, <1>5, <1>6 DEF Publisher

-----------------------------------------------------------------------------
(* The steps of the manager keep the invariant *)

\* A step that leaves a response alone, and at most moves its events up in the
\* queue, keeps what is known of it.
LEMMA OthersKeep ==
  ASSUME NEW q \in Requests, ResponseInv(q),
         state'[q] = state[q], exec'[q] = exec[q], outbox'[q] = outbox[q],
         listeners'[q] = listeners[q],
         q \in pending' <=> q \in pending, q \in refused' <=> q \in refused,
         FinalHandled(q)' => FinalHandled(q),
         NEW d \in {0, 1},
         \A i : FinalEvent(q, i)' => i \in Nat /\ FinalEvent(q, i + d)
  PROVE  ResponseInv(q)'
<1> USE DEF ResponseInv
<1>1. FinalQueued(q)' <=> FinalQueued(q)
  BY DEF FinalQueued
<1>2. \A i : FinalEvent(q, i) => i \in DOMAIN events
  BY DEF FinalEvent
<1>3. Final(q)' => Final(q)
  BY <1>1, <1>2 DEF Final
<1>4. WorkerMatchesState(q)'
  BY DEF WorkerMatchesState
<1>5. FinalEnds(q)' /\ VerdictIsLast(q)'
  BY <1>3 DEF FinalEnds, VerdictIsLast
<1>6. FinalIsLast(q)'
  BY DEF FinalIsLast
<1>7. RefusedEnds(q)'
  BY DEF RefusedEnds
<1>8. OneFinal(q)'
  <2>1. FinalQueued(q)' => ~FinalHandled(q)' /\ \A i : ~FinalEvent(q, i)'
    BY <1>1, <1>2 DEF OneFinal
  <2>2. FinalHandled(q)' => \A i : ~FinalEvent(q, i)'
    BY <1>2 DEF OneFinal
  <2>3. ASSUME NEW i, NEW j, FinalEvent(q, i)', FinalEvent(q, j)' PROVE i = j
    <3>1. i \in Nat /\ j \in Nat /\ FinalEvent(q, i + d) /\ FinalEvent(q, j + d)
      BY <2>3
    <3>2. i + d = j + d
      BY <1>2, <3>1 DEF OneFinal
    <3> QED BY <3>1, <3>2
  <2> QED BY <2>1, <2>2, <2>3 DEF OneFinal
<1> QED BY <1>4, <1>5, <1>6, <1>7, <1>8

\* The same, where the notification queue is left alone.
LEMMA OthersKeepStill ==
  ASSUME TypeOK, NEW q \in Requests, ResponseInv(q), events' = events, subscriber' = subscriber,
         state'[q] = state[q], exec'[q] = exec[q], outbox'[q] = outbox[q],
         listeners'[q] = listeners[q],
         q \in pending' <=> q \in pending, q \in refused' <=> q \in refused
  PROVE  ResponseInv(q)'
<1>1. FinalHandled(q)' => FinalHandled(q)
  BY DEF FinalHandled
<1>2. ASSUME NEW i, FinalEvent(q, i)' PROVE i \in Nat /\ FinalEvent(q, i + 0)
  <2>1. FinalEvent(q, i) /\ i \in DOMAIN events
    BY <1>2 DEF FinalEvent
  <2>2. DOMAIN events = 1..Len(events) /\ Len(events) \in Nat
    BY LenProperties DEF TypeOK
  <2>3. i \in Nat /\ i + 0 = i
    BY <2>1, <2>2
  <2> QED BY <2>1, <2>3
<1>3. 0 \in {0, 1}
  OBVIOUS
<1> QED BY <1>1, <1>2, <1>3, OthersKeep

\* Nobody has sent the final status of a response that waits, is paused or runs.
LEMMA NotYetFinal ==
  ASSUME NEW r \in Requests, ResponseInv(r),
         state[r] \in {"new", "Queued", "Paused"}
           \/ (state[r] = "Running" /\ exec[r].at # "done")
  PROVE  /\ ~Final(r)
         /\ \A i \in DOMAIN outbox[r] : outbox[r][i] # "completed"
         /\ listeners[r] = <<>>
<1>1. ~Final(r)
  BY DEF ResponseInv, FinalEnds, WorkerMatchesState
<1>2. \A i \in DOMAIN outbox[r] : outbox[r][i] # "completed"
  BY <1>1 DEF Final, FinalQueued
<1>3. listeners[r] = <<>>
  BY DEF ResponseInv, VerdictIsLast
<1> QED BY <1>1, <1>2, <1>3

\* A handler that sends a batch for a response that has not ended yet, and tells no
\* listener, keeps what is known of its final status.
LEMMA SendStep ==
  ASSUME TypeOK, NEW r \in Requests, ResponseInv(r), NEW ops \in Batches, Transaction(r, ops),
         events' = events, subscriber' = subscriber, listeners' = listeners,
         state[r] \in {"new", "Queued", "Paused"}
           \/ (state[r] = "Running" /\ exec[r].at # "done")
  PROVE  /\ FinalIsLast(r)' /\ OneFinal(r)' /\ VerdictIsLast(r)'
         /\ Final(r)' => ops \in Ending
         /\ ops # <<"completed">> =>
              \A i \in DOMAIN outbox'[r] : outbox'[r][i] # "completed"
         /\ \A q \in Requests \ {r} : outbox'[q] = outbox[q]
<1>1. /\ ~Final(r) /\ listeners[r] = <<>>
      /\ \A i \in DOMAIN outbox[r] : outbox[r][i] # "completed"
  BY NotYetFinal
<1>2. FinalIsLast(r) /\ OneFinal(r) /\ outbox \in [Requests -> Seq(Operations)]
  BY DEF ResponseInv, TypeOK
<1>3. /\ FinalIsLast(r)' /\ OneFinal(r)'
      /\ Final(r)' => Final(r) \/ ops \in Ending
      /\ ops # <<"completed">> =>
           \A i \in DOMAIN outbox'[r] : outbox'[r][i] = "completed" =>
             i \in DOMAIN outbox[r] /\ outbox[r][i] = "completed"
  BY <1>1, <1>2, Sends
<1>4. \A q \in Requests \ {r} : outbox'[q] = outbox[q]
  BY <1>2, TransactionFields
<1>5. VerdictIsLast(r)'
  BY <1>1 DEF VerdictIsLast
<1> QED BY <1>1, <1>3, <1>4, <1>5

\* The batches that hold no final status.
LEMMA NotEnding ==
  /\ {<<>>, <<"data">>} \subseteq Batches
  /\ \A ops \in {<<>>, <<"data">>} : ops \notin Ending /\ ops # <<"completed">>
  /\ <<"failed">> # <<"completed">> /\ <<"data", "failed">> # <<"completed">>
<1>1. <<>> \notin Ending /\ <<"data">> \notin Ending
  BY DEF Ending
<1> QED BY <1>1 DEF Batches

\* abortRequest keeps what is known of its response, whatever it finds; the event
\* that leads to it may move from the queue to the subscriber.
LEMMA AbortStep ==
  ASSUME TypeOK, NEW r \in Requests, ResponseInv(r),
         NEW err \in {"cancel", "network", "command"}, AbortRequest(r, err),
         exec' = exec, refused' = refused,
         err = "command" => events' = events /\ subscriber' = subscriber,
         outbox'[r] = outbox[r] => OneFinal(r)' /\ (Final(r)' => Final(r))
  PROVE  /\ ResponseInv(r)'
         /\ \A q \in Requests \ {r} :
              /\ state'[q] = state[q] /\ outbox'[q] = outbox[q]
              /\ listeners'[q] = listeners[q] /\ (q \in pending' <=> q \in pending)
<1>1. pending' = pending \ {r}
  BY DEF AbortRequest
<1>2. CASE ~Abortable(r) /\ UNCHANGED <<state, errSignal, outbox, listeners>>
  <2>1. state[r] # "Queued"
    BY <1>2 DEF Abortable, InProgress
  <2>2. WorkerMatchesState(r)'
    BY <1>1, <1>2, <2>1 DEF ResponseInv, WorkerMatchesState
  <2>3. FinalEnds(r)' /\ FinalIsLast(r)' /\ OneFinal(r)' /\ VerdictIsLast(r)' /\ RefusedEnds(r)'
    BY <1>2 DEF ResponseInv, FinalEnds, FinalIsLast, VerdictIsLast, RefusedEnds
  <2> QED BY <1>1, <1>2, <2>2, <2>3 DEF ResponseInv
<1>3. CASE state[r] = "Running" /\ UNCHANGED <<state, outbox, listeners>>
  <2>1. WorkerMatchesState(r)'
    BY <1>1, <1>3 DEF ResponseInv, WorkerMatchesState
  <2>2. FinalEnds(r)' /\ FinalIsLast(r)' /\ OneFinal(r)' /\ VerdictIsLast(r)' /\ RefusedEnds(r)'
    BY <1>3 DEF ResponseInv, FinalEnds, FinalIsLast, VerdictIsLast, RefusedEnds
  <2> QED BY <1>1, <1>3, <2>1, <2>2 DEF ResponseInv
<1>4. CASE Abortable(r) /\ state[r] # "Running"
  <2>1. state[r] \in {"Queued", "Paused"}
    BY <1>4 DEF Abortable, InProgress, TypeOK, States
  <2>2. /\ ~Final(r) /\ listeners[r] = <<>> /\ exec[r].at \in {"idle", "start"}
        /\ r \notin refused
        /\ state[r] = "Paused" => exec[r].at = "idle"
    BY <2>1, NotYetFinal DEF ResponseInv, WorkerMatchesState, RefusedEnds
  <2>3. CASE err \in {"cancel", "network"}
    <3>1. /\ state'[r] = "terminated" /\ outbox' = outbox
          /\ \A q \in Requests \ {r} : state'[q] = state[q]
          /\ listeners' = listeners \/ Notify(r, "cancelled")
      BY <1>4, <2>3 DEF AbortRequest, SetState, TypeOK
    <3>2. /\ \A q \in Requests \ {r} : listeners'[q] = listeners[q]
          /\ listeners'[r] # <<>> => Len(listeners'[r]) = 1
      BY <2>2, <3>1, NotifyFields DEF TypeOK
    <3>3. ~Final(r)'
      BY <2>2, <3>1
    <3>4. WorkerMatchesState(r)'
      BY <1>1, <2>2, <3>1 DEF WorkerMatchesState
    <3>5. FinalEnds(r)' /\ FinalIsLast(r)' /\ OneFinal(r)' /\ RefusedEnds(r)'
      BY <2>2, <3>1 DEF ResponseInv, FinalEnds, FinalIsLast, RefusedEnds
    <3>6. VerdictIsLast(r)'
      BY <3>1, <3>2, <3>3 DEF VerdictIsLast
    <3> QED BY <1>1, <3>1, <3>2, <3>4, <3>5, <3>6 DEF ResponseInv
  <2>4. CASE err = "command"
    <3>1. /\ state'[r] = "CompletingSend" /\ Transaction(r, <<"failed">>)
          /\ \A q \in Requests \ {r} : state'[q] = state[q]
          /\ listeners' = listeners
      BY <1>4, <2>4 DEF AbortRequest, SetState, TypeOK
    <3>2. <<"failed">> \in Batches
      BY DEF Batches
    <3>3. /\ FinalIsLast(r)' /\ OneFinal(r)' /\ VerdictIsLast(r)'
          /\ \A q \in Requests \ {r} : outbox'[q] = outbox[q]
      BY <2>1, <2>4, <3>1, <3>2, SendStep
    <3>4. WorkerMatchesState(r)' /\ FinalEnds(r)' /\ RefusedEnds(r)'
      BY <1>1, <2>2, <3>1 DEF WorkerMatchesState, FinalEnds, RefusedEnds
    <3> QED BY <1>1, <3>1, <3>3, <3>4 DEF ResponseInv
  <2> QED BY <2>3, <2>4
<1> QED BY <1>2, <1>3, <1>4 DEF AbortRequest

\* An abort that leaves the notification queue alone keeps the invariant.
LEMMA AbortKeeps ==
  ASSUME TypeOK, NEW r \in Requests, \A q \in Requests : ResponseInv(q),
         NEW err \in {"cancel", "network", "command"}, AbortRequest(r, err),
         exec' = exec, refused' = refused, events' = events, subscriber' = subscriber
  PROVE  \A q \in Requests : ResponseInv(q)'
<1>1. outbox'[r] = outbox[r] => OneFinal(r)' /\ (Final(r)' => Final(r))
  BY DEF ResponseInv, OneFinal, Final, FinalQueued, FinalEvent, FinalHandled
<1>2. /\ ResponseInv(r)'
      /\ \A q \in Requests \ {r} :
           /\ state'[q] = state[q] /\ outbox'[q] = outbox[q]
           /\ listeners'[q] = listeners[q] /\ (q \in pending' <=> q \in pending)
  BY <1>1, AbortStep
<1>3. ASSUME NEW q \in Requests \ {r} PROVE ResponseInv(q)'
  BY <1>2, OthersKeepStill
<1> QED BY <1>2, <1>3

\* A request is accepted, left paused or refused.
LEMMA NewRequestStep ==
  ASSUME TypeOK, NEW r \in Requests, ResponseInv(r), NewRequest(r)
  PROVE  /\ ResponseInv(r)'
         /\ \A q \in Requests \ {r} :
              /\ state'[q] = state[q] /\ outbox'[q] = outbox[q]
              /\ (q \in pending' <=> q \in pending) /\ (q \in refused' <=> q \in refused)
<1>1. /\ state[r] = "new" /\ exec' = exec
      /\ events' = events /\ subscriber' = subscriber /\ listeners' = listeners
  BY DEF NewRequest, delivery
<1>2. /\ exec[r].at = "idle" /\ r \notin refused /\ r \notin pending
  BY <1>1 DEF ResponseInv, WorkerMatchesState, RefusedEnds
<1>3. PICK outcome \in RequestOutcomes, decodes \in BOOLEAN :
        LET query == PrepareQuery(outcome.result, decodes)
        IN  /\ Transaction(r, query.ops)
            /\ Refuse(r, outcome.refused)
            /\ \/ query.err /\ SetState(r, "CompletingSend") /\ UNCHANGED pending
               \/ ~query.err /\ SetState(r, "Paused") /\ UNCHANGED pending
               \/ ~query.err /\ SetState(r, "Queued") /\ PushTask(r)
  BY DEF NewRequest
<1> DEFINE ops == PrepareQuery(outcome.result, decodes).ops
           err == PrepareQuery(outcome.result, decodes).err
<1>4. /\ err \in BOOLEAN /\ ops \in Batches /\ ops # <<"completed">>
      /\ ~err => ops \in {<<>>, <<"data">>}
      /\ outcome.refused => err = TRUE
  BY QueryOps, RequestRefused
<1>5. /\ Transaction(r, ops) /\ Refuse(r, outcome.refused)
      /\ \/ err /\ SetState(r, "CompletingSend") /\ UNCHANGED pending
         \/ ~err /\ SetState(r, "Paused") /\ UNCHANGED pending
         \/ ~err /\ SetState(r, "Queued") /\ PushTask(r)
  BY <1>3
<1> HIDE DEF ops, err
<1>6. /\ FinalIsLast(r)' /\ OneFinal(r)' /\ VerdictIsLast(r)'
      /\ Final(r)' => ops \in Ending
      /\ \A i \in DOMAIN outbox'[r] : outbox'[r][i] # "completed"
      /\ \A q \in Requests \ {r} : outbox'[q] = outbox[q]
  BY <1>1, <1>4, <1>5, SendStep
<1>7. /\ \A q \in Requests \ {r} : /\ state'[q] = state[q]
                                   /\ (q \in pending' <=> q \in pending)
                                   /\ (q \in refused' <=> q \in refused)
      /\ r \in refused' => outcome.refused
      /\ \/ err /\ state'[r] = "CompletingSend" /\ r \notin pending'
         \/ ~err /\ state'[r] = "Paused" /\ r \notin pending'
         \/ ~err /\ state'[r] = "Queued" /\ r \in pending'
  BY <1>2, <1>5 DEF SetState, PushTask, Refuse, TypeOK
<1>8. WorkerMatchesState(r)'
  BY <1>1, <1>2, <1>7 DEF WorkerMatchesState
<1>9. FinalEnds(r)'
  BY <1>4, <1>6, <1>7, NotEnding DEF FinalEnds
<1>10. RefusedEnds(r)'
  BY <1>1, <1>2, <1>4, <1>6, <1>7 DEF RefusedEnds
<1> QED BY <1>6, <1>7, <1>8, <1>9, <1>10 DEF ResponseInv

\* The update hooks run for a paused response.
LEMMA UpdatePausedStep ==
  ASSUME TypeOK, NEW r \in Requests, ResponseInv(r), ProcessUpdatePaused(r)
  PROVE  /\ ResponseInv(r)'
         /\ \A q \in Requests \ {r} :
              /\ state'[q] = state[q] /\ outbox'[q] = outbox[q]
              /\ (q \in pending' <=> q \in pending) /\ (q \in refused' <=> q \in refused)
<1>1. /\ state[r] = "Paused" /\ exec' = exec
      /\ events' = events /\ subscriber' = subscriber /\ listeners' = listeners
  BY DEF ProcessUpdatePaused, delivery
<1>2. /\ exec[r].at = "idle" /\ r \notin refused /\ r \notin pending
  BY <1>1 DEF ResponseInv, WorkerMatchesState, RefusedEnds
<1>3. PICK outcome \in UpdateOutcomes :
        /\ Refuse(r, outcome.refused)
        /\ Transaction(r, WithExtensions(outcome.result.extensions,
                            IF outcome.result.err = NoErr THEN <<>> ELSE <<"failed">>))
        /\ \/ outcome.result.err # NoErr /\ SetState(r, "CompletingSend") /\ UNCHANGED pending
           \/ outcome.result.err = NoErr /\ SetState(r, "Queued") /\ PushTask(r)
           \/ outcome.result.err = NoErr /\ UNCHANGED <<state, pending>>
  BY DEF ProcessUpdatePaused
<1> DEFINE ops == WithExtensions(outcome.result.extensions,
                    IF outcome.result.err = NoErr THEN <<>> ELSE <<"failed">>)
           err == outcome.result.err
<1>4. /\ ops \in Batches /\ ops # <<"completed">>
      /\ err = NoErr => ops \in {<<>>, <<"data">>}
      /\ outcome.refused => err # NoErr
  <2>1. outcome.refused => err # NoErr
    BY UpdateRefused DEF NoErr
  <2>2. CASE err = NoErr
    BY <2>1, <2>2, ExtensionOps, NotEnding
  <2>3. CASE err # NoErr
    <3>1. ops \in {<<"failed">>, <<"data", "failed">>}
      BY <2>3, ExtensionOps
    <3> QED BY <2>1, <2>3, <3>1, NotEnding DEF Batches
  <2> QED BY <2>2, <2>3
<1>5. /\ Transaction(r, ops) /\ Refuse(r, outcome.refused)
      /\ \/ err # NoErr /\ SetState(r, "CompletingSend") /\ UNCHANGED pending
         \/ err = NoErr /\ SetState(r, "Queued") /\ PushTask(r)
         \/ err = NoErr /\ UNCHANGED <<state, pending>>
  BY <1>3
<1> HIDE DEF ops, err
<1>6. /\ FinalIsLast(r)' /\ OneFinal(r)' /\ VerdictIsLast(r)'
      /\ Final(r)' => ops \in Ending
      /\ \A i \in DOMAIN outbox'[r] : outbox'[r][i] # "completed"
      /\ \A q \in Requests \ {r} : outbox'[q] = outbox[q]
  BY <1>1, <1>4, <1>5, SendStep
<1>7. /\ \A q \in Requests \ {r} : /\ state'[q] = state[q]
                                   /\ (q \in pending' <=> q \in pending)
                                   /\ (q \in refused' <=> q \in refused)
      /\ r \in refused' => outcome.refused
      /\ \/ err # NoErr /\ state'[r] = "CompletingSend" /\ r \notin pending'
         \/ err = NoErr /\ state'[r] = "Queued" /\ r \in pending'
         \/ err = NoErr /\ state'[r] = "Paused" /\ r \notin pending'
  BY <1>1, <1>2, <1>5 DEF SetState, PushTask, Refuse, TypeOK
<1>8. WorkerMatchesState(r)'
  BY <1>1, <1>2, <1>7 DEF WorkerMatchesState
<1>9. FinalEnds(r)'
  BY <1>4, <1>6, <1>7, NotEnding DEF FinalEnds
<1>10. RefusedEnds(r)'
  BY <1>1, <1>2, <1>4, <1>6, <1>7 DEF RefusedEnds
<1> QED BY <1>6, <1>7, <1>8, <1>9, <1>10 DEF ResponseInv

\* The handlers for the requestor's messages keep the invariant.
LEMMA RemoteStep ==
  ASSUME TypeOK, NEW r \in Requests, \A q \in Requests : ResponseInv(q), Remote(r)
  PROVE  \A q \in Requests : ResponseInv(q)'
<1>1. CASE NewRequest(r)
  <2>1. /\ exec' = exec /\ events' = events /\ subscriber' = subscriber
        /\ listeners' = listeners
    BY <1>1 DEF NewRequest, delivery
  <2> QED BY <1>1, <2>1, NewRequestStep, OthersKeepStill
<1>2. CASE ProcessCancel(r)
  BY <1>2, AbortKeeps DEF ProcessCancel
<1>3. CASE ProcessUpdateLater(r)
  BY <1>3, OthersKeepStill DEF ProcessUpdateLater, delivery
<1>4. CASE ProcessUpdatePaused(r)
  <2>1. /\ exec' = exec /\ events' = events /\ subscriber' = subscriber
        /\ listeners' = listeners
    BY <1>4 DEF ProcessUpdatePaused, delivery
  <2> QED BY <1>4, <2>1, UpdatePausedStep, OthersKeepStill
<1> QED BY <1>1, <1>2, <1>3, <1>4 DEF Remote

\* The user's calls keep the invariant.
LEMMA LocalStep ==
  ASSUME TypeOK, NEW r \in Requests, \A q \in Requests : ResponseInv(q), Local(r)
  PROVE  \A q \in Requests : ResponseInv(q)'
<1>1. CASE PauseResponse(r)
  BY <1>1, OthersKeepStill DEF PauseResponse, delivery
<1>2. CASE UnpauseResponse(r)
  <2>1. /\ state[r] = "Paused" /\ exec' = exec /\ refused' = refused
        /\ events' = events /\ subscriber' = subscriber /\ listeners' = listeners
    BY <1>2 DEF UnpauseResponse, delivery
  <2>2. /\ exec[r].at = "idle" /\ r \notin refused /\ r \notin pending
    BY <2>1 DEF ResponseInv, WorkerMatchesState, RefusedEnds
  <2>3. PICK extensions \in BOOLEAN : Transaction(r, WithExtensions(extensions, <<>>))
    BY <1>2 DEF UnpauseResponse
  <2> DEFINE ops == WithExtensions(extensions, <<>>)
  <2>4. ops \in Batches /\ ops \notin Ending /\ Transaction(r, ops)
    BY <2>3, ExtensionOps, NotEnding
  <2> HIDE DEF ops
  <2>5. /\ FinalIsLast(r)' /\ OneFinal(r)' /\ VerdictIsLast(r)' /\ ~Final(r)'
        /\ \A q \in Requests \ {r} : outbox'[q] = outbox[q]
    BY <2>1, <2>4, SendStep
  <2>6. /\ state'[r] = "Queued" /\ r \in pending'
        /\ \A q \in Requests \ {r} : state'[q] = state[q] /\ (q \in pending' <=> q \in pending)
    BY <1>2 DEF UnpauseResponse, SetState, PushTask, TypeOK
  <2>7. WorkerMatchesState(r)' /\ FinalEnds(r)' /\ RefusedEnds(r)'
    BY <2>1, <2>2, <2>5, <2>6 DEF WorkerMatchesState, FinalEnds, RefusedEnds
  <2>8. ASSUME NEW q \in Requests \ {r} PROVE ResponseInv(q)'
    BY <2>1, <2>5, <2>6, OthersKeepStill
  <2> QED BY <2>5, <2>7, <2>8 DEF ResponseInv
<1>3. CASE CancelResponse(r)
  BY <1>3, AbortKeeps DEF CancelResponse
<1>4. CASE UpdateResponse(r)
  <2>1. /\ InProgress(r) /\ exec' = exec /\ refused' = refused /\ state' = state
        /\ events' = events /\ subscriber' = subscriber /\ listeners' = listeners
        /\ pending' = pending /\ Transaction(r, <<"partial">>)
    BY <1>4 DEF UpdateResponse, delivery
  <2>2. <<"partial">> \in Batches /\ <<"partial">> \notin Ending /\ <<"partial">> # <<"completed">>
    BY DEF Batches, Ending
  <2>3. FinalIsLast(r) /\ OneFinal(r) /\ outbox \in [Requests -> Seq(Operations)]
    BY DEF ResponseInv, TypeOK
  <2>4. /\ FinalIsLast(r)' /\ OneFinal(r)' /\ (Final(r)' => Final(r))
        /\ \A i \in DOMAIN outbox'[r] : outbox'[r][i] = "completed" =>
             i \in DOMAIN outbox[r] /\ outbox[r][i] = "completed"
    <3> DEFINE ops == <<"partial">>
    <3>1. ops \in Batches /\ ops \notin Ending /\ ops # <<"completed">> /\ Transaction(r, ops)
          /\ ops = <<"partial">>
      BY <2>1, <2>2
    <3> HIDE DEF ops
    <3> QED BY <2>1, <2>3, <3>1, Sends
  <2>5. \A q \in Requests \ {r} : outbox'[q] = outbox[q]
    BY <2>1, <2>2, <2>3, TransactionFields
  <2>6. /\ WorkerMatchesState(r)' /\ FinalEnds(r)' /\ VerdictIsLast(r)'
    BY <2>1, <2>4 DEF ResponseInv, WorkerMatchesState, FinalEnds, VerdictIsLast
  <2>7. RefusedEnds(r)'
    BY <2>1, <2>4 DEF ResponseInv, RefusedEnds
  <2>8. ASSUME NEW q \in Requests \ {r} PROVE ResponseInv(q)'
    BY <2>1, <2>5, OthersKeepStill
  <2> QED BY <2>4, <2>6, <2>7, <2>8 DEF ResponseInv
<1> QED BY <1>1, <1>2, <1>3, <1>4 DEF Local

\* A worker that runs its response, as it sends a batch without a final status and
\* goes on or finishes.
LEMMA RunningStep ==
  ASSUME TypeOK, NEW r \in Requests, ResponseInv(r), state[r] = "Running", state' = state,
         pending' = pending, NEW ops \in {<<>>, <<"data">>},
         Transaction(r, ops) \/ outbox' = outbox,
         events' = events, subscriber' = subscriber, listeners' = listeners,
         exec[r].at \in {"traverse", "check", "updates", "send"},
         exec'[r].at \in {"traverse", "check", "updates", "send", "finish"},
         r \in refused' => r \in refused \/ (/\ exec'[r].at = "finish"
                                             /\ exec'[r].err \notin {NoErr, "paused"})
  PROVE  /\ ResponseInv(r)'
         /\ \A q \in Requests \ {r} : outbox'[q] = outbox[q]
<1>1. ops \in Batches /\ ops \notin Ending /\ ops # <<"completed">>
  BY NotEnding
<1>2. r \notin refused /\ r \notin pending
  BY DEF ResponseInv, RefusedEnds, WorkerMatchesState
<1>3. /\ FinalIsLast(r)' /\ OneFinal(r)' /\ VerdictIsLast(r)' /\ ~Final(r)'
      /\ \A i \in DOMAIN outbox'[r] : outbox'[r][i] # "completed"
      /\ \A q \in Requests \ {r} : outbox'[q] = outbox[q]
  <2>1. CASE Transaction(r, ops)
    BY <1>1, <2>1, SendStep
  <2>2. CASE outbox' = outbox
    <3>1. /\ ~Final(r) /\ \A i \in DOMAIN outbox[r] : outbox[r][i] # "completed"
      BY NotYetFinal
    <3>2. FinalIsLast(r)' /\ OneFinal(r)' /\ ~Final(r)'
      BY <2>2, <3>1 DEF ResponseInv, FinalIsLast, OneFinal, Final, FinalQueued, FinalEvent,
                        FinalHandled
    <3>3. VerdictIsLast(r)'
      BY <3>2 DEF ResponseInv, VerdictIsLast
    <3> QED BY <2>2, <3>1, <3>2, <3>3
  <2> QED BY <2>1, <2>2
<1>4. WorkerMatchesState(r)' /\ FinalEnds(r)'
  BY <1>2, <1>3 DEF WorkerMatchesState, FinalEnds
<1>5. RefusedEnds(r)'
  BY <1>2, <1>3 DEF RefusedEnds
<1> QED BY <1>3, <1>4, <1>5 DEF ResponseInv

\* A worker's steps keep what is known of its response, and touch no other.
LEMMA WorkerStep ==
  ASSUME TypeOK, NEW r \in Requests, ResponseInv(r), Worker(r)
  PROVE  /\ ResponseInv(r)'
         /\ events' = events /\ subscriber' = subscriber
         /\ \A q \in Requests \ {r} :
              /\ state'[q] = state[q] /\ exec'[q] = exec[q] /\ outbox'[q] = outbox[q]
              /\ listeners'[q] = listeners[q]
              /\ (q \in pending' <=> q \in pending) /\ (q \in refused' <=> q \in refused)
<1>1. /\ exec \in [Requests -> Executions] /\ exec[r].err \in Errors /\ NoErr \in Errors
      /\ exec[r].extensions \in BOOLEAN /\ errSignal[r] \in Errors
      /\ exec[r].at \in {"idle", "start", "traverse", "check", "updates", "send", "finish",
                         "done"}
  BY DEF TypeOK, Executions, Errors
<1>2. exec[r].at \notin {"idle", "start", "done"} => state[r] = "Running"
  BY DEF ResponseInv, WorkerMatchesState
<1>3. CASE PopTask(r)
  <2>1. /\ UNCHANGED <<state, outbox, events, subscriber, listeners, refused>>
        /\ r \in pending /\ pending' = pending \ {r} /\ At(r, "start", NoErr)
    BY <1>3 DEF PopTask, delivery
  <2>2. /\ exec'[r].at = "start" /\ \A q \in Requests \ {r} : exec'[q] = exec[q]
    BY <1>1, <2>1, AtFields
  <2>3. state[r] = "Queued"
    BY <2>1 DEF ResponseInv, WorkerMatchesState
  <2>4. ~Final(r) /\ r \notin refused
    BY <2>3, NotYetFinal DEF ResponseInv, RefusedEnds
  <2>5. FinalIsLast(r)' /\ OneFinal(r)' /\ ~Final(r)'
    BY <2>1, <2>4 DEF ResponseInv, FinalIsLast, OneFinal, Final, FinalQueued, FinalEvent,
                      FinalHandled
  <2>6. WorkerMatchesState(r)' /\ FinalEnds(r)' /\ VerdictIsLast(r)' /\ RefusedEnds(r)'
    BY <2>1, <2>2, <2>3, <2>4, <2>5
       DEF ResponseInv, WorkerMatchesState, FinalEnds, VerdictIsLast, RefusedEnds
  <2> QED BY <2>1, <2>2, <2>5, <2>6 DEF ResponseInv
<1>4. CASE StartTask(r)
  <2>1. /\ UNCHANGED <<outbox, events, subscriber, listeners, refused, pending>>
        /\ exec[r].at = "start"
    BY <1>4 DEF StartTask, delivery
  <2>2. /\ state[r] \in {"Queued", "CompletingSend", "terminated"} /\ r \notin pending
    BY <2>1 DEF ResponseInv, WorkerMatchesState
  <2>3. FinalIsLast(r)' /\ OneFinal(r)' /\ (Final(r)' <=> Final(r))
    BY <2>1 DEF ResponseInv, FinalIsLast, OneFinal, Final, FinalQueued, FinalEvent, FinalHandled
  <2>4. CASE Startable(r)
    <3>1. SetState(r, "Running") /\ At(r, "traverse", NoErr) /\ state[r] = "Queued"
      BY <1>4, <2>2, <2>4 DEF StartTask, Startable, InProgress
    <3>2. /\ exec'[r].at = "traverse" /\ \A q \in Requests \ {r} : exec'[q] = exec[q]
      BY <1>1, <3>1, AtFields
    <3>3. /\ state'[r] = "Running" /\ \A q \in Requests \ {r} : state'[q] = state[q]
      BY <3>1 DEF SetState, TypeOK
    <3>4. ~Final(r) /\ listeners[r] = <<>> /\ r \notin refused
      BY <3>1, NotYetFinal DEF ResponseInv, RefusedEnds
    <3>5. WorkerMatchesState(r)' /\ FinalEnds(r)' /\ VerdictIsLast(r)' /\ RefusedEnds(r)'
      BY <2>1, <2>2, <2>3, <3>2, <3>3, <3>4
         DEF WorkerMatchesState, FinalEnds, VerdictIsLast, RefusedEnds
    <3> QED BY <2>1, <2>3, <3>2, <3>3, <3>5 DEF ResponseInv
  <2>5. CASE ~Startable(r)
    <3>1. /\ exec' = [exec EXCEPT ![r] = Idle] /\ state' = state
          /\ state[r] \in {"CompletingSend", "terminated"}
      BY <1>4, <2>2, <2>5 DEF StartTask, Startable, InProgress
    <3>2. /\ exec'[r].at = "idle" /\ \A q \in Requests \ {r} : exec'[q] = exec[q]
      BY <1>1, <3>1, IdleFields
    <3>3. WorkerMatchesState(r)' /\ FinalEnds(r)' /\ VerdictIsLast(r)' /\ RefusedEnds(r)'
      BY <2>1, <2>2, <2>3, <3>1, <3>2
         DEF ResponseInv, WorkerMatchesState, FinalEnds, VerdictIsLast, RefusedEnds
    <3> QED BY <2>1, <2>3, <3>1, <3>2, <3>3 DEF ResponseInv
  <2> QED BY <2>4, <2>5
<1>5. CASE Traverse(r)
  <2>1. /\ UNCHANGED <<state, pending, outbox, events, subscriber, listeners, refused>>
        /\ exec[r].at = "traverse"
        /\ \E at \in {"finish", "check"}, err \in {NoErr, "failed"} : At(r, at, err)
    BY <1>5 DEF Traverse, delivery
  <2>2. /\ exec'[r].at \in {"finish", "check"} /\ \A q \in Requests \ {r} : exec'[q] = exec[q]
    BY <1>1, <2>1, AtFields DEF Errors
  <2>3. <<>> \in {<<>>, <<"data">>}
    OBVIOUS
  <2> QED BY <1>2, <2>1, <2>2, <2>3, RunningStep
<1>6. CASE CheckForUpdates(r)
  <2> DEFINE ops == WithExtensions(exec[r].extensions, <<>>)
  <2>1. /\ UNCHANGED <<state, pending, events, subscriber, listeners, refused>>
        /\ exec[r].at = "check" /\ (Transaction(r, ops) \/ outbox' = outbox)
        /\ \E at \in {"send", "finish", "updates"}, err \in {"paused", NoErr, errSignal[r]} :
             At(r, at, err)
    BY <1>6 DEF CheckForUpdates, delivery
  <2>2. /\ exec'[r].at \in {"send", "finish", "updates"}
        /\ \A q \in Requests \ {r} : exec'[q] = exec[q]
    BY <1>1, <2>1, AtFields DEF Errors
  <2>3. ops \in {<<>>, <<"data">>}
    BY ExtensionOps
  <2> HIDE DEF ops
  <2> QED BY <1>2, <2>1, <2>2, <2>3, RunningStep
<1>7. CASE GetUpdates(r)
  <2>1. /\ UNCHANGED <<state, pending, events, subscriber, listeners>>
        /\ exec[r].at = "updates"
    BY <1>7 DEF GetUpdates, delivery
  <2>2. PICK outcome \in IF r \in updates THEN UpdateOutcomes ELSE {NoUpdate} :
          LET extensions == exec[r].extensions \/ outcome.result.extensions
          IN  /\ Refuse(r, outcome.refused)
              /\ \/ /\ outcome.result.err = NoErr
                    /\ exec' = [exec EXCEPT ![r] = [@ EXCEPT !.at = "check",
                                                            !.extensions = extensions]]
                    /\ UNCHANGED outbox
                 \/ /\ outcome.result.err # NoErr
                    /\ At(r, "finish", outcome.result.err)
                    /\ Transaction(r, WithExtensions(extensions, <<>>))
    BY <1>7, Zenon DEF GetUpdates
  <2> DEFINE extensions == exec[r].extensions \/ outcome.result.extensions
             ops == WithExtensions(extensions, <<>>)
             err == outcome.result.err
  <2>3. /\ extensions \in BOOLEAN /\ ops \in {<<>>, <<"data">>} /\ err \in {NoErr, "failed"}
        /\ outcome.refused => err = "failed"
    BY <1>1, UpdateFields, ExtensionOps
  <2>4. /\ Refuse(r, outcome.refused)
        /\ \/ /\ err = NoErr
              /\ exec' = [exec EXCEPT ![r] = [@ EXCEPT !.at = "check", !.extensions = extensions]]
              /\ UNCHANGED outbox
           \/ err # NoErr /\ At(r, "finish", err) /\ Transaction(r, ops)
    BY <2>2
  <2> HIDE DEF extensions, ops, err
  <2>5. err \in Errors
    BY <2>3 DEF Errors
  <2>6. /\ exec'[r].at = IF err = NoErr THEN "check" ELSE "finish"
        /\ err # NoErr => exec'[r].err = err
        /\ \A q \in Requests \ {r} : exec'[q] = exec[q]
        /\ Transaction(r, ops) \/ outbox' = outbox
    BY <1>1, <2>3, <2>4, <2>5, AtFields, CollectFields, Zenon
  <2>7. /\ \A q \in Requests \ {r} : (q \in refused' <=> q \in refused)
        /\ r \in refused' => r \in refused \/ outcome.refused
    BY <2>4 DEF Refuse
  <2>8. r \in refused' => r \in refused \/ (/\ exec'[r].at = "finish"
                                            /\ exec'[r].err \notin {NoErr, "paused"})
    BY <2>3, <2>6, <2>7 DEF NoErr
  <2>9. exec'[r].at \in {"check", "finish"}
    BY <2>6
  <2> QED BY <1>2, <2>1, <2>3, <2>6, <2>7, <2>8, <2>9, RunningStep
<1>8. CASE SendResponse(r)
  <2>1. /\ UNCHANGED <<state, pending, events, subscriber, listeners>>
        /\ exec[r].at = "send" /\ Transaction(r, <<"data">>)
    BY <1>8 DEF SendResponse, delivery
  <2>2. PICK outcome \in BlockOutcomes :
          LET err == BlockError(r, outcome.err)
          IN  /\ Refuse(r, outcome.refused)
              /\ exec' = [exec EXCEPT ![r] = [at |-> IF err = NoErr THEN "traverse" ELSE "finish",
                                              err |-> err, extensions |-> FALSE]]
    BY <1>8 DEF SendResponse
  <2> DEFINE err == BlockError(r, outcome.err)
  <2>3. err \in Errors /\ (outcome.refused => err = "failed")
    BY <1>1, HookTypes, BlockRefused DEF BlockError, Errors, NoErr
  <2>4. /\ Refuse(r, outcome.refused)
        /\ exec' = [exec EXCEPT ![r] = [at |-> IF err = NoErr THEN "traverse" ELSE "finish",
                                        err |-> err, extensions |-> FALSE]]
    BY <2>2
  <2> HIDE DEF err
  <2>5. /\ exec'[r].at = IF err = NoErr THEN "traverse" ELSE "finish"
        /\ exec'[r].err = err /\ \A q \in Requests \ {r} : exec'[q] = exec[q]
    BY <1>1, <2>3, <2>4, SendFields
  <2>6. /\ \A q \in Requests \ {r} : (q \in refused' <=> q \in refused)
        /\ r \in refused' => r \in refused \/ outcome.refused
    BY <2>4 DEF Refuse
  <2>7. r \in refused' => r \in refused \/ (/\ exec'[r].at = "finish"
                                            /\ exec'[r].err \notin {NoErr, "paused"})
    BY <2>3, <2>5, <2>6 DEF NoErr
  <2>8. exec'[r].at \in {"traverse", "finish"} /\ <<"data">> \in {<<>>, <<"data">>}
    BY <2>5
  <2> QED BY <1>2, <2>1, <2>5, <2>6, <2>7, <2>8, RunningStep
<1>9. CASE CloseOut(r)
  <2> DEFINE ops == FinalStatus(exec[r].err)
  <2>1. /\ UNCHANGED <<state, pending, events, subscriber, listeners, refused>>
        /\ exec[r].at = "finish" /\ At(r, "done", exec[r].err) /\ Transaction(r, ops)
    BY <1>9 DEF CloseOut, delivery
  <2>2. /\ exec'[r].at = "done" /\ exec'[r].err = exec[r].err
        /\ \A q \in Requests \ {r} : exec'[q] = exec[q]
    BY <1>1, <2>1, AtFields
  <2>3. /\ ops \in Batches
        /\ ops \in Ending => exec[r].err \notin {"paused", "cancel", "network"}
        /\ ops = <<"completed">> => exec[r].err = NoErr
    BY <1>1, StatusOps
  <2> HIDE DEF ops
  <2>4. state[r] = "Running" /\ r \notin pending
    BY <1>2, <2>1 DEF ResponseInv, WorkerMatchesState
  <2>5. /\ FinalIsLast(r)' /\ OneFinal(r)' /\ VerdictIsLast(r)'
        /\ Final(r)' => ops \in Ending
        /\ ops # <<"completed">> =>
             \A i \in DOMAIN outbox'[r] : outbox'[r][i] # "completed"
        /\ \A q \in Requests \ {r} : outbox'[q] = outbox[q]
    BY <2>1, <2>3, <2>4, SendStep
  <2>6. WorkerMatchesState(r)' /\ FinalEnds(r)'
    BY <2>1, <2>2, <2>3, <2>4, <2>5 DEF WorkerMatchesState, FinalEnds
  <2>7. RefusedEnds(r)'
    BY <2>1, <2>2, <2>3, <2>4, <2>5 DEF ResponseInv, RefusedEnds
  <2> QED BY <2>1, <2>2, <2>5, <2>6, <2>7 DEF ResponseInv
<1>10. CASE FinishTask(r)
  <2>1. /\ UNCHANGED <<pending, events, subscriber, outbox, refused>>
        /\ exec[r].at = "done" /\ exec' = [exec EXCEPT ![r] = Idle]
    BY <1>10 DEF FinishTask
  <2>2. /\ exec'[r].at = "idle" /\ \A q \in Requests \ {r} : exec'[q] = exec[q]
    BY <1>1, <2>1, IdleFields
  <2>3. state[r] \in {"Running", "terminated"} /\ r \notin pending
    BY <2>1 DEF ResponseInv, WorkerMatchesState
  <2>4. FinalIsLast(r)' /\ OneFinal(r)' /\ (Final(r)' <=> Final(r))
    BY <2>1 DEF ResponseInv, FinalIsLast, OneFinal, Final, FinalQueued, FinalEvent, FinalHandled
  <2>5. CASE state[r] = "terminated"
    <3>1. state' = state /\ listeners' = listeners
      BY <1>10, <2>5 DEF FinishTask, InProgress
    <3>2. WorkerMatchesState(r)' /\ FinalEnds(r)' /\ VerdictIsLast(r)' /\ RefusedEnds(r)'
      BY <2>1, <2>2, <2>3, <2>4, <2>5, <3>1
         DEF ResponseInv, WorkerMatchesState, FinalEnds, VerdictIsLast, RefusedEnds
    <3> QED BY <2>1, <2>2, <2>4, <3>1, <3>2 DEF ResponseInv
  <2>6. CASE state[r] = "Running"
    <3>1. /\ listeners[r] = <<>>
          /\ exec[r].err \in {"paused", "cancel", "network"} => ~Final(r)
          /\ r \in refused => exec[r].err # "paused"
      BY <2>1, <2>6 DEF ResponseInv, VerdictIsLast, FinalEnds, RefusedEnds
    <3>2. /\ \A q \in Requests \ {r} : state'[q] = state[q]
          /\ \/ exec[r].err = "paused" /\ state'[r] = "Paused" /\ listeners' = listeners
             \/ exec[r].err = "cancel" /\ state'[r] = "terminated" /\ Notify(r, "cancelled")
             \/ state'[r] \in {"CompletingSend", "terminated"} /\ listeners' = listeners
      BY <1>10, <2>6 DEF FinishTask, InProgress, SetState, TypeOK
    <3>3. /\ \A q \in Requests \ {r} : listeners'[q] = listeners[q]
          /\ listeners'[r] # <<>> => /\ Len(listeners'[r]) = 1 /\ exec[r].err = "cancel"
                                     /\ state'[r] = "terminated"
      BY <3>1, <3>2, NotifyFields DEF TypeOK
    <3>4. WorkerMatchesState(r)'
      BY <2>1, <2>2, <2>3, <3>2 DEF WorkerMatchesState
    <3>5. FinalEnds(r)' /\ VerdictIsLast(r)'
      BY <2>4, <3>1, <3>2, <3>3 DEF FinalEnds, VerdictIsLast
    <3>6. RefusedEnds(r)'
      BY <2>1, <2>2, <3>1, <3>2 DEF ResponseInv, RefusedEnds
    <3> QED BY <2>1, <2>2, <2>4, <3>2, <3>3, <3>4, <3>5, <3>6 DEF ResponseInv
  <2> QED BY <2>3, <2>5, <2>6
<1> QED BY <1>3, <1>4, <1>5, <1>6, <1>7, <1>8, <1>9, <1>10 DEF Worker

-----------------------------------------------------------------------------
(* The steps of the message queue and the publisher keep the invariant *)

\* A message that holds the final status takes it out of the message queue, and with
\* it everything that could be another.
LEMMA SentStep ==
  ASSUME TypeOK, NEW r \in Requests, ResponseInv(r), NEW n \in 1..Len(outbox[r]),
         NEW name \in {"Sent", "Error"},
         events' = Append(events, [name |-> name, request |-> r,
                                   terminal |-> Terminal(SubSeq(outbox[r], 1, n))]),
         outbox'[r] = <<>> \/ outbox'[r] = SubSeq(outbox[r], n + 1, Len(outbox[r])),
         state' = state, exec' = exec, pending' = pending, subscriber' = subscriber,
         listeners' = listeners, refused' = refused
  PROVE  /\ ResponseInv(r)'
         /\ \A q \in Requests \ {r} : \A i : FinalEvent(q, i)' <=> FinalEvent(q, i)
<1> DEFINE s == outbox[r]
           u == outbox'[r]
           l == Len(s)
           t == Terminal(SubSeq(s, 1, n))
           e == [name |-> name, request |-> r, terminal |-> t]
<1>1. s \in Seq(Operations) /\ n \in 1..l /\ t \in BOOLEAN
  BY DEF TypeOK, Terminal
<1>2. /\ l \in Nat /\ DOMAIN s = 1..l
      /\ DOMAIN SubSeq(s, 1, n) = 1..n
      /\ \A i \in 1..n : SubSeq(s, 1, n)[i] = s[i]
      /\ DOMAIN SubSeq(s, n + 1, l) = 1..(l - n)
      /\ \A i \in 1..(l - n) : SubSeq(s, n + 1, l)[i] = s[n + i]
  <2> HIDE DEF s
  <2> QED BY <1>1, Cut
<1>3. t => \E i \in 1..n : s[i] \in {"completed", "failed"}
  BY <1>2 DEF Terminal
<1>4. e \in Events({"Sent", "Error"}) /\ e.request = r /\ e.terminal = t
  BY <1>1 DEF Events
<1>5. \A i \in DOMAIN u : n + i \in DOMAIN s /\ u[i] = s[n + i] /\ i \in Nat \ {0}
  <2>1. CASE u = <<>>
    BY <2>1
  <2>2. CASE u = SubSeq(s, n + 1, l)
    BY <1>1, <1>2, <2>2
  <2> QED BY <2>1, <2>2
<1>6. events' = Append(events, e)
  OBVIOUS
<1> HIDE DEF s, u, l, t, e
<1>7. /\ \A q, i : FinalEvent(q, i)' <=>
           FinalEvent(q, i) \/ (i = Len(events) + 1 /\ e.request = q /\ e.terminal)
      /\ \A q, i : FinalEvent(q, i) => i # Len(events) + 1
  BY <1>4, <1>6, EventAdded
<1>8. FinalHandled(r)' <=> FinalHandled(r)
  BY DEF FinalHandled
<1>9. FinalQueued(r) <=> \E i \in DOMAIN s : s[i] \in {"completed", "failed"}
  BY DEF FinalQueued, s
<1>10. FinalQueued(r)' <=> \E i \in DOMAIN u : u[i] \in {"completed", "failed"}
  BY DEF FinalQueued, u
<1>11. FinalQueued(r)' => FinalQueued(r)
  BY <1>5, <1>9, <1>10
<1>12. t => FinalQueued(r)
  <2>1. 1..n \subseteq DOMAIN s
    BY <1>1, <1>2
  <2> QED BY <1>3, <1>9, <2>1
<1>13. t => ~FinalQueued(r)'
  <2> SUFFICES ASSUME t, NEW j \in DOMAIN u, u[j] \in {"completed", "failed"} PROVE FALSE
    BY <1>10
  <2>1. PICK i \in 1..n : s[i] \in {"completed", "failed"}
    BY <1>3
  <2>2. i \in DOMAIN s /\ n + j \in DOMAIN s /\ i < n + j /\ u[j] = s[n + j]
    BY <1>1, <1>2, <1>5
  <2>3. s[n + j] = "partial"
    BY <2>1, <2>2 DEF ResponseInv, FinalIsLast, s
  <2> QED BY <2>2, <2>3
<1>14. \A i : FinalEvent(r, i) => i \in DOMAIN events
  BY DEF FinalEvent
<1>15. Final(r)' => Final(r)
  BY <1>4, <1>7, <1>8, <1>11, <1>12 DEF Final
<1>16. OneFinal(r)'
  <2>1. FinalQueued(r) => ~FinalHandled(r) /\ \A i : ~FinalEvent(r, i)
    BY <1>14 DEF ResponseInv, OneFinal
  <2>2. FinalHandled(r) => \A i : ~FinalEvent(r, i)
    BY <1>14 DEF ResponseInv, OneFinal
  <2>3. \A i, j : FinalEvent(r, i) /\ FinalEvent(r, j) => i = j
    BY <1>14 DEF ResponseInv, OneFinal
  <2>4. CASE t
    BY <1>4, <1>7, <1>8, <1>12, <1>13, <2>1, <2>4 DEF OneFinal
  <2>5. CASE ~t
    BY <1>4, <1>7, <1>8, <1>11, <2>1, <2>2, <2>3, <2>5 DEF OneFinal
  <2> QED BY <2>4, <2>5
<1>17. FinalIsLast(r)'
  <2> SUFFICES ASSUME NEW i \in DOMAIN u, NEW j \in DOMAIN u, i < j,
                      u[i] \in {"completed", "failed"}
               PROVE  u[j] = "partial"
    BY DEF FinalIsLast, u
  <2>1. /\ n + i \in DOMAIN s /\ n + j \in DOMAIN s /\ n + i < n + j
        /\ u[i] = s[n + i] /\ u[j] = s[n + j]
    BY <1>1, <1>2, <1>5
  <2> QED BY <2>1 DEF ResponseInv, FinalIsLast, s
<1>18. WorkerMatchesState(r)' /\ FinalEnds(r)' /\ VerdictIsLast(r)'
  BY <1>15 DEF ResponseInv, WorkerMatchesState, FinalEnds, VerdictIsLast
<1>19. RefusedEnds(r)'
  <2>1. (\A i \in DOMAIN s : s[i] # "completed") => \A i \in DOMAIN u : u[i] # "completed"
    BY <1>5
  <2> QED BY <2>1 DEF ResponseInv, RefusedEnds, s, u
<1>20. \A q \in Requests \ {r} : \A i : FinalEvent(q, i)' <=> FinalEvent(q, i)
  BY <1>4, <1>7
<1> QED BY <1>16, <1>17, <1>18, <1>19, <1>20 DEF ResponseInv

\* The message queue keeps the invariant.
LEMMA MessageStep ==
  ASSUME TypeOK, NEW r \in Requests, \A q \in Requests : ResponseInv(q),
         MessageSent(r) \/ MessageFailed(r)
  PROVE  \A q \in Requests : ResponseInv(q)'
<1>1. UNCHANGED <<state, exec, pending, subscriber, listeners, refused>>
  BY DEF MessageSent, MessageFailed
<1>2. PICK n \in 1..Len(outbox[r]), name \in {"Sent", "Error"} :
        events' = Append(events, [name |-> name, request |-> r,
                                  terminal |-> Terminal(SubSeq(outbox[r], 1, n))])
        /\ (outbox'[r] = <<>> \/ outbox'[r] = SubSeq(outbox[r], n + 1, Len(outbox[r])))
  BY DEF MessageSent, MessageFailed, TypeOK
<1>3. \A q \in Requests \ {r} : outbox'[q] = outbox[q]
  BY DEF MessageSent, MessageFailed, TypeOK
<1>4. /\ ResponseInv(r)'
      /\ \A q \in Requests \ {r} : \A i : FinalEvent(q, i)' <=> FinalEvent(q, i)
  BY <1>1, <1>2, SentStep
<1>5. ASSUME NEW q \in Requests \ {r} PROVE ResponseInv(q)'
  <2>1. FinalHandled(q)' => FinalHandled(q)
    BY <1>1 DEF FinalHandled
  <2>2. ASSUME NEW i, FinalEvent(q, i)' PROVE i \in Nat /\ FinalEvent(q, i + 0)
    <3>1. FinalEvent(q, i) /\ i \in DOMAIN events
      BY <1>4, <2>2 DEF FinalEvent
    <3>2. DOMAIN events = 1..Len(events) /\ Len(events) \in Nat
      BY LenProperties DEF TypeOK
    <3>3. i \in Nat /\ i + 0 = i
      BY <3>1, <3>2
    <3> QED BY <3>1, <3>3
  <2>3. 0 \in {0, 1}
    OBVIOUS
  <2> QED BY <1>1, <1>3, <2>1, <2>2, <2>3, OthersKeep
<1> QED BY <1>4, <1>5

\* Whoever handles the event of the final status ends the response.
LEMMA EndStep ==
  ASSUME TypeOK, NEW r \in Requests, ResponseInv(r), Final(r), TerminateRequest(r),
         exec' = exec, pending' = pending, outbox' = outbox, refused' = refused, ~Final(r)',
         listeners' = listeners \/ Notify(r, "completed")
  PROVE  /\ ResponseInv(r)'
         /\ \A q \in Requests \ {r} : state'[q] = state[q] /\ listeners'[q] = listeners[q]
<1>1. listeners[r] = <<>> /\ state[r] \in {"Running", "CompletingSend", "terminated"}
  BY DEF ResponseInv, VerdictIsLast, FinalEnds, WorkerMatchesState
<1>2. state'[r] = "terminated" /\ \A q \in Requests \ {r} : state'[q] = state[q]
  BY <1>1 DEF TerminateRequest, InProgress, TypeOK
<1>3. state[r] = "Running" => exec[r].at = "done"
  BY DEF ResponseInv, FinalEnds
<1>4. WorkerMatchesState(r)'
  BY <1>1, <1>2, <1>3 DEF ResponseInv, WorkerMatchesState
<1>5. FinalEnds(r)' /\ FinalIsLast(r)' /\ RefusedEnds(r)'
  BY <1>2 DEF ResponseInv, FinalEnds, FinalIsLast, RefusedEnds
<1>6. OneFinal(r)'
  BY DEF OneFinal, Final
<1>7. /\ \A q \in Requests \ {r} : listeners'[q] = listeners[q]
      /\ listeners'[r] # <<>> => Len(listeners'[r]) = 1
  BY <1>1, NotifyFields DEF TypeOK
<1>8. VerdictIsLast(r)'
  BY <1>2, <1>7 DEF VerdictIsLast
<1> QED BY <1>2, <1>4, <1>5, <1>6, <1>7, <1>8 DEF ResponseInv

\* The publisher keeps the invariant.
LEMMA PublisherStep ==
  ASSUME TypeOK, \A q \in Requests : ResponseInv(q), Publisher
  PROVE  \A q \in Requests : ResponseInv(q)'
<1>0. PICK e : e = Head(events)
  OBVIOUS
<1>1. ASSUME events # <<>>, events' = Tail(events)
      PROVE  /\ e \in Events({"Sent", "Error"}) /\ e.request \in Requests
             /\ e.terminal => FinalEvent(e.request, 1)
             /\ \A q, i : FinalEvent(q, i)' => i \in Nat \ {0} /\ FinalEvent(q, i + 1)
             /\ e.terminal => \A i : ~FinalEvent(e.request, i)'
  <2>1. /\ e \in Events({"Sent", "Error"}) /\ e = events[1] /\ 1 \in DOMAIN events
        /\ \A q, i : FinalEvent(q, i)' => i \in Nat \ {0} /\ FinalEvent(q, i + 1)
    BY <1>0, <1>1, EventTaken
  <2>2. e.request \in Requests
    BY <2>1 DEF Events
  <2>3. e.terminal => FinalEvent(e.request, 1)
    BY <2>1 DEF FinalEvent
  <2>4. ASSUME e.terminal, NEW i, FinalEvent(e.request, i)' PROVE FALSE
    <3>1. i \in Nat \ {0} /\ FinalEvent(e.request, i + 1)
      BY <2>1, <2>4
    <3>2. i + 1 = 1
      <4>1. i + 1 \in DOMAIN events /\ 1 \in DOMAIN events
        BY <2>1, <3>1 DEF FinalEvent
      <4> QED BY <2>2, <2>3, <2>4, <3>1, <4>1 DEF ResponseInv, OneFinal
    <3> QED BY <3>1, <3>2
  <2> QED BY <2>1, <2>2, <2>3, <2>4
<1>2. CASE OnNextSent
  <2>1. /\ events # <<>> /\ events' = Tail(events)
        /\ UNCHANGED <<pending, exec, outbox, subscriber, refused>>
        /\ IF e.terminal THEN TerminateRequest(e.request) /\ Notify(e.request, "completed")
                         ELSE UNCHANGED <<state, listeners>>
    BY <1>0, <1>2 DEF OnNextSent
  <2>0. PICK r : r = e.request
    OBVIOUS
  <2>2. /\ r \in Requests
        /\ e.terminal => FinalEvent(r, 1) /\ \A i : ~FinalEvent(r, i)'
        /\ \A q, i : FinalEvent(q, i)' => i \in Nat \ {0} /\ FinalEvent(q, i + 1)
    BY <1>1, <2>0, <2>1
  <2>3. \A q : FinalHandled(q)' => FinalHandled(q)
    BY <2>1 DEF FinalHandled
  <2>4. 1 \in {0, 1} /\ \A q, i : FinalEvent(q, i)' => i \in Nat /\ FinalEvent(q, i + 1)
    BY <2>2
  <2>5. CASE ~e.terminal
    <3>1. UNCHANGED <<state, listeners>>
      BY <2>1, <2>5
    <3> QED BY <2>1, <2>3, <2>4, <3>1, OthersKeep
  <2>6. CASE e.terminal
    <3>1. FinalEvent(r, 1) /\ 1 \in DOMAIN events
      BY <2>2, <2>6 DEF FinalEvent
    <3>2. Final(r)
      BY <3>1 DEF Final
    <3>3. ~FinalQueued(r) /\ ~FinalHandled(r)
      BY <2>2, <3>1 DEF ResponseInv, OneFinal
    <3>4. ~Final(r)'
      BY <2>1, <2>2, <2>3, <2>6, <3>3 DEF Final, FinalQueued
    <3>5. TerminateRequest(r) /\ Notify(r, "completed")
      BY <2>0, <2>1, <2>6
    <3>6. /\ ResponseInv(r)'
          /\ \A q \in Requests \ {r} : state'[q] = state[q] /\ listeners'[q] = listeners[q]
      BY <2>1, <2>2, <3>2, <3>4, <3>5, EndStep
    <3>7. ASSUME NEW q \in Requests \ {r} PROVE ResponseInv(q)'
      BY <2>1, <2>3, <2>4, <3>6, OthersKeep
    <3> QED BY <3>6, <3>7
  <2> QED BY <2>5, <2>6
<1>3. CASE OnNextError
  <2>1. /\ subscriber = NoEvent /\ events # <<>> /\ events' = Tail(events) /\ subscriber' = e
        /\ e.name = "Error" /\ AbortRequest(e.request, "network")
        /\ exec' = exec /\ refused' = refused
    BY <1>0, <1>3 DEF OnNextError
  <2>0. PICK r : r = e.request
    OBVIOUS
  <2>2. /\ r \in Requests
        /\ e.terminal => FinalEvent(r, 1) /\ \A i : ~FinalEvent(r, i)'
        /\ \A q, i : FinalEvent(q, i)' => i \in Nat \ {0} /\ FinalEvent(q, i + 1)
    BY <1>1, <2>0, <2>1
  <2>3. \A q : ~FinalHandled(q) /\ (FinalHandled(q)' => q = r /\ e.terminal)
    BY <2>0, <2>1 DEF FinalHandled
  <2>4. 1 \in {0, 1} /\ \A q, i : FinalEvent(q, i)' => i \in Nat /\ FinalEvent(q, i + 1)
    BY <2>2
  <2>5. \A q, i : FinalEvent(q, i) => i \in DOMAIN events
    BY DEF FinalEvent
  <2>6. ASSUME outbox'[r] = outbox[r] PROVE OneFinal(r)' /\ (Final(r)' => Final(r))
    <3>1. FinalQueued(r)' <=> FinalQueued(r)
      BY <2>6 DEF FinalQueued
    <3>2. Final(r)' => Final(r)
      BY <2>2, <2>3, <2>4, <2>5, <3>1 DEF Final
    <3>3. FinalQueued(r)' => ~FinalHandled(r)' /\ \A i : ~FinalEvent(r, i)'
      BY <2>2, <2>3, <2>4, <2>5, <3>1 DEF ResponseInv, OneFinal
    <3>4. FinalHandled(r)' => \A i : ~FinalEvent(r, i)'
      BY <2>2, <2>3
    <3>5. ASSUME NEW i, NEW j, FinalEvent(r, i)', FinalEvent(r, j)' PROVE i = j
      <4>1. i \in Nat /\ j \in Nat /\ FinalEvent(r, i + 1) /\ FinalEvent(r, j + 1)
        BY <2>4, <3>5
      <4>2. i + 1 = j + 1
        BY <2>2, <2>5, <4>1 DEF ResponseInv, OneFinal
      <4> QED BY <4>1, <4>2
    <3> QED BY <3>2, <3>3, <3>4, <3>5 DEF OneFinal
  <2>7. AbortRequest(r, "network") /\ "network" \in {"cancel", "network", "command"}
    BY <2>0, <2>1
  <2>8. /\ ResponseInv(r)'
        /\ \A q \in Requests \ {r} :
             /\ state'[q] = state[q] /\ outbox'[q] = outbox[q]
             /\ listeners'[q] = listeners[q] /\ (q \in pending' <=> q \in pending)
    BY <2>1, <2>2, <2>6, <2>7, AbortStep
  <2>9. ASSUME NEW q \in Requests \ {r} PROVE ResponseInv(q)'
    BY <2>1, <2>3, <2>4, <2>8, OthersKeep
  <2> QED BY <2>8, <2>9
<1>4. CASE OnNextErrorTerminate
  <2>0. PICK r : r = subscriber.request
    OBVIOUS
  <2>1. /\ subscriber # NoEvent /\ subscriber' = NoEvent /\ TerminateIfTerminal(r)
        /\ UNCHANGED <<pending, exec, outbox, events, listeners, refused>>
    BY <1>4, <2>0 DEF OnNextErrorTerminate
  <2>2. r \in Requests
    BY <2>0, <2>1 DEF TypeOK, Events
  <2>3. \A q : ~FinalHandled(q)' /\ \A i : FinalEvent(q, i)' <=> FinalEvent(q, i)
    BY <2>1 DEF FinalHandled, FinalEvent
  <2>4. \A q, i : FinalEvent(q, i)' => i \in Nat /\ FinalEvent(q, i + 0)
    <3>1. DOMAIN events = 1..Len(events) /\ Len(events) \in Nat
      BY LenProperties DEF TypeOK
    <3>2. ASSUME NEW q, NEW i, FinalEvent(q, i)' PROVE i \in Nat /\ FinalEvent(q, i + 0)
      <4>1. FinalEvent(q, i) /\ i \in DOMAIN events
        BY <2>3, <3>2 DEF FinalEvent
      <4>2. i \in Nat /\ i + 0 = i
        BY <3>1, <4>1
      <4> QED BY <4>1, <4>2
    <3> QED BY <3>2
  <2>5. 0 \in {0, 1}
    OBVIOUS
  <2>6. CASE ~subscriber.terminal
    <3>1. state' = state
      BY <2>1, <2>6 DEF TerminateIfTerminal
    <3> QED BY <2>1, <2>3, <2>4, <2>5, <3>1, OthersKeep
  <2>7. CASE subscriber.terminal
    <3>1. FinalHandled(r) /\ TerminateRequest(r)
      BY <2>0, <2>1, <2>7 DEF FinalHandled, TerminateIfTerminal
    <3>2. Final(r) /\ ~FinalQueued(r) /\ \A i \in DOMAIN events : ~FinalEvent(r, i)
      BY <2>2, <3>1 DEF Final, ResponseInv, OneFinal
    <3>3. ~Final(r)'
      BY <2>1, <2>3, <3>2 DEF Final, FinalQueued
    <3>4. /\ ResponseInv(r)'
          /\ \A q \in Requests \ {r} : state'[q] = state[q] /\ listeners'[q] = listeners[q]
      BY <2>1, <2>2, <3>1, <3>2, <3>3, EndStep
    <3>5. ASSUME NEW q \in Requests \ {r} PROVE ResponseInv(q)'
      BY <2>1, <2>3, <2>4, <2>5, <3>4, OthersKeep
    <3> QED BY <3>4, <3>5
  <2> QED BY <2>6, <2>7
<1> QED BY <1>2, <1>3, <1>4 DEF Publisher

-----------------------------------------------------------------------------
(* The invariants of the responder *)

\* The invariant holds initially.
LEMMA InvInit == Init => IInv
<1> SUFFICES ASSUME Init PROVE IInv
  OBVIOUS
<1> USE DEF Init
<1>1. TypeOK
  <2>1. exec \in [Requests -> Executions]
    BY DEF Executions, Idle, Errors, NoErr
  <2>2. 0 \in 0..MaxCommands
    BY BoundsAssumption
  <2> QED BY <2>1, <2>2 DEF TypeOK, States
<1>2. ASSUME NEW r \in Requests PROVE ResponseInv(r)
  <2>1. /\ state[r] = "new" /\ exec[r].at = "idle" /\ outbox[r] = <<>>
        /\ listeners[r] = <<>> /\ r \notin refused /\ r \notin pending
    BY DEF Idle
  <2>2. ~FinalQueued(r) /\ ~FinalHandled(r) /\ \A i : ~FinalEvent(r, i)
    BY <2>1 DEF FinalQueued, FinalHandled, FinalEvent
  <2>3. ~Final(r) /\ OneFinal(r)
    BY <2>2 DEF Final, OneFinal
  <2>4. FinalIsLast(r)
    BY <2>1 DEF FinalIsLast
  <2> QED BY <2>1, <2>3, <2>4 DEF ResponseInv, WorkerMatchesState, FinalEnds, VerdictIsLast,
                                  RefusedEnds
<1> QED BY <1>1, <1>2 DEF IInv

\* Every step keeps the invariant.
LEMMA InvStep == IInv /\ [Next]_vars => IInv'
<1> SUFFICES ASSUME IInv, [Next]_vars PROVE IInv'
  OBVIOUS
<1>1. TypeOK /\ \A q \in Requests : ResponseInv(q)
  BY DEF IInv
<1>2. ASSUME NEW r \in Requests, Remote(r) PROVE IInv'
  BY <1>1, <1>2, RemoteTypes, RemoteStep DEF IInv
<1>3. ASSUME NEW r \in Requests, Local(r) PROVE IInv'
  BY <1>1, <1>3, LocalTypes, LocalStep DEF IInv
<1>4. ASSUME NEW r \in Requests, Worker(r) PROVE IInv'
  <2>1. ResponseInv(r)' /\ \A q \in Requests \ {r} : ResponseInv(q)'
    BY <1>1, <1>4, WorkerStep, OthersKeepStill
  <2> QED BY <1>1, <1>4, <2>1, WorkerTypes DEF IInv
<1>5. ASSUME NEW r \in Requests, MessageSent(r) \/ MessageFailed(r) PROVE IInv'
  BY <1>1, <1>5, DeliveryTypes, MessageStep DEF IInv
<1>6. CASE Publisher
  BY <1>1, <1>6, DeliveryTypes, PublisherStep DEF IInv
<1>7. CASE UNCHANGED vars
  <2>1. TypeOK'
    BY <1>1, <1>7 DEF vars, TypeOK
  <2>2. \A q \in Requests : ResponseInv(q)'
    BY <1>1, <1>7, OthersKeepStill DEF vars
  <2> QED BY <2>1, <2>2 DEF IInv
<1> QED BY <1>2, <1>3, <1>4, <1>5, <1>6, <1>7 DEF Next

\* The inductive invariant holds in every state.
THEOREM Invariance == Spec => []IInv
<1>1. IInv /\ [Next]_vars => IInv'
  BY InvStep
<1> QED BY <1>1, InvInit, PTL DEF Spec

\* The state of the manager, its signal channels, workers, events and listeners keeps
\* its type: no traversal visits more blocks than it has, no worker carries an error
\* that finishTask does not know, and every event is of a known response.
THEOREM TypeCorrect == Spec => []TypeOK
<1>1. IInv => TypeOK
  BY DEF IInv
<1> QED BY <1>1, Invariance, PTL

\* Whatever hooks, calls, messages, failures and signals meet, for any number of
\* requests and workers: the queued responses are those with a waiting task, or one
\* that a worker is about to start, and the running ones have a worker (newRequest,
\* abortRequest, startTask, finishTask and the task queue).
THEOREM StateMatchesTaskQueueHolds == Spec => []StateMatchesTaskQueue
<1>1. IInv => StateMatchesTaskQueue
  BY DEF IInv, ResponseInv, WorkerMatchesState, StateMatchesTaskQueue, Active
<1> QED BY <1>1, Invariance, PTL

\* For any batching of the messages: the final status of a response is the last thing
\* in its queue but for PartialResponse updates (executeQuery, processUpdate,
\* prepareQuery and abortRequest may each send one).
THEOREM NothingAfterFinalHolds == Spec => []NothingAfterFinal
<1>1. IInv => NothingAfterFinal
  BY DEF IInv, ResponseInv, FinalIsLast, NothingAfterFinal
<1> QED BY <1>1, Invariance, PTL

\* For any number of hooks and calls in them: a response that no hook validated or
\* that a hook terminated is not queued, paused or reported as complete
\* (processRequest, processUpdate, sendResponse and finishTask).
THEOREM RefusedIsFailedHolds == Spec => []RefusedIsFailed
<1>1. IInv => RefusedIsFailed
  <2> SUFFICES ASSUME IInv, NEW r \in refused
               PROVE  /\ state[r] \notin {"Queued", "Paused"}
                      /\ \A i \in DOMAIN outbox[r] : outbox[r][i] # "completed"
    BY DEF RefusedIsFailed
  <2>1. r \in Requests
    BY DEF IInv, TypeOK
  <2> QED BY <2>1 DEF IInv, ResponseInv, RefusedEnds
<1> QED BY <1>1, Invariance, PTL

-----------------------------------------------------------------------------
(* The response manager implements the life cycle *)

\* The phases that the states stand for.
LEMMA PhaseOf ==
  /\ Phase("new") = "new"
  /\ Phase("Queued") = "waiting"
  /\ Phase("Running") = "running"
  /\ Phase("Paused") = "paused"
  /\ Phase("CompletingSend") = "completing"
  /\ Phase("terminated") = "over"
BY DEF Phase

\* The first verdict.
LEMMA FirstVerdict ==
  ASSUME TypeOK, NEW r \in Requests, NEW v \in {"completed", "cancelled"},
         listeners[r] = <<>>, Notify(r, v)
  PROVE  listeners' = [listeners EXCEPT ![r] = <<v>>]
<1>1. Append(<<>>, v) = <<v>>
  OBVIOUS
<1> QED BY <1>1 DEF Notify

\* A step that changes the state of one response, and tells its listeners at most as
\* it ends and for the first time, enters a phase of the life cycle.
LEMMA EntersPhase ==
  ASSUME NEW r \in Requests, NEW phases, TypeOK, TypeOK',
         Phase(state'[r]) \in phases,
         \A q \in Requests \ {r} : state'[q] = state[q],
         \/ listeners' = listeners
         \/ /\ state'[r] = "terminated" /\ listeners[r] = <<>>
            /\ \E v \in {"completed", "cancelled"} : Notify(r, v)
  PROVE  Life!Enter(r, phases)
<1> DEFINE phase == [q \in Requests |-> Phase(state[q])]
<1>1. phase' = [phase EXCEPT ![r] = Phase(state'[r])]
  OBVIOUS
<1>2. CASE listeners' = listeners
  BY <1>1, <1>2 DEF Life!Enter
<1>3. CASE /\ state'[r] = "terminated" /\ listeners[r] = <<>>
           /\ \E v \in {"completed", "cancelled"} : Notify(r, v)
  <2>1. Phase(state'[r]) = "over"
    BY <1>3, PhaseOf
  <2>2. \E v \in {"completed", "cancelled"} : listeners' = [listeners EXCEPT ![r] = <<v>>]
    BY <1>3, FirstVerdict
  <2> QED BY <1>1, <1>3, <2>1, <2>2 DEF Life!Enter
<1> QED BY <1>2, <1>3

\* A step that changes no state and tells no listener stutters in the life cycle.
LEMMA LifeStutters ==
  ASSUME UNCHANGED <<state, listeners>>
  PROVE  UNCHANGED Life!vars
BY DEF Life!vars

\* abortRequest ends a response that waits or is paused, and leaves any other alone.
LEMMA AbortLife ==
  ASSUME TypeOK, TypeOK', NEW r \in Requests, ResponseInv(r),
         NEW err \in {"cancel", "network", "command"}, AbortRequest(r, err)
  PROVE  Life!Next \/ UNCHANGED Life!vars
<1>1. CASE UNCHANGED <<state, listeners>>
  BY <1>1, LifeStutters
<1>2. CASE Abortable(r) /\ state[r] # "Running"
  <2>1. state[r] \in {"Queued", "Paused"}
    BY <1>2 DEF Abortable, InProgress, TypeOK, States
  <2>2. listeners[r] = <<>>
    BY <2>1, NotYetFinal
  <2>3. /\ \A q \in Requests \ {r} : state'[q] = state[q]
        /\ \/ state'[r] \in {"CompletingSend", "terminated"} /\ listeners' = listeners
           \/ state'[r] = "terminated" /\ Notify(r, "cancelled")
    BY <1>2 DEF AbortRequest, SetState, TypeOK
  <2>4. Life!Enter(r, {"completing", "over"})
    BY <2>2, <2>3, PhaseOf, EntersPhase
  <2>5. Life!End(r)
    BY <2>1, <2>4, PhaseOf DEF Life!End
  <2> QED BY <2>5 DEF Life!Next
<1> QED BY <1>1, <1>2 DEF AbortRequest

\* The end of the final message ends the response, or judges one that has ended.
LEMMA EndLife ==
  ASSUME TypeOK, TypeOK', NEW r \in Requests, ResponseInv(r), Final(r), TerminateRequest(r),
         listeners' = listeners \/ Notify(r, "completed")
  PROVE  Life!Next \/ UNCHANGED Life!vars
<1>1. listeners[r] = <<>> /\ state[r] \in {"Running", "CompletingSend", "terminated"}
  BY DEF ResponseInv, VerdictIsLast, FinalEnds, WorkerMatchesState
<1>2. state'[r] = "terminated" /\ \A q \in Requests \ {r} : state'[q] = state[q]
  BY <1>1 DEF TerminateRequest, InProgress, TypeOK
<1>3. Life!Enter(r, {"over"}) /\ Life!Enter(r, {"paused", "completing", "over"})
  BY <1>1, <1>2, PhaseOf, EntersPhase
<1>4. CASE state[r] = "Running"
  BY <1>3, <1>4, PhaseOf DEF Life!Leave, Life!Next
<1>5. CASE state[r] = "CompletingSend"
  BY <1>3, <1>5, PhaseOf DEF Life!Finish, Life!Next
<1>6. CASE state[r] = "terminated"
  <2>1. state' = state
    BY <1>2, <1>6 DEF TypeOK
  <2>2. CASE listeners' = listeners
    BY <2>1, <2>2, LifeStutters
  <2>3. CASE Notify(r, "completed")
    <3>1. listeners' = [listeners EXCEPT ![r] = <<"completed">>]
      BY <1>1, <2>3, FirstVerdict
    <3>2. Life!Judge(r)
      BY <1>1, <1>6, <2>1, <3>1, PhaseOf DEF Life!Judge
    <3> QED BY <3>2 DEF Life!Next
  <2> QED BY <2>2, <2>3
<1> QED BY <1>1, <1>4, <1>5, <1>6

\* Every step of the manager, its workers, the message queue and the publisher is a
\* step of the life cycle, or none.
LEMMA LifeStep ==
  ASSUME IInv, IInv', [Next]_vars
  PROVE  Life!Next \/ UNCHANGED Life!vars
<1>1. TypeOK /\ TypeOK' /\ \A q \in Requests : ResponseInv(q)
  BY DEF IInv
<1>2. ASSUME NEW r \in Requests, Remote(r) PROVE Life!Next \/ UNCHANGED Life!vars
  <2>1. CASE NewRequest(r)
    <3>1. /\ state[r] = "new" /\ state'[r] \in {"CompletingSend", "Paused", "Queued"}
          /\ \A q \in Requests \ {r} : state'[q] = state[q]
          /\ listeners' = listeners
      BY <1>1, <2>1 DEF NewRequest, SetState, TypeOK, delivery
    <3>2. Life!Enter(r, {"waiting", "paused", "completing", "over"})
      BY <1>1, <3>1, PhaseOf, EntersPhase
    <3>3. Life!Accept(r)
      BY <3>1, <3>2, PhaseOf DEF Life!Accept
    <3> QED BY <3>3 DEF Life!Next
  <2>2. CASE ProcessCancel(r)
    BY <1>1, <2>2, AbortLife DEF ProcessCancel
  <2>3. CASE ProcessUpdateLater(r)
    BY <2>3, LifeStutters DEF ProcessUpdateLater, delivery
  <2>4. CASE ProcessUpdatePaused(r)
    <3>1. /\ state[r] = "Paused" /\ listeners' = listeners
          /\ \/ state' = state
             \/ /\ state'[r] \in {"CompletingSend", "Queued"}
                /\ \A q \in Requests \ {r} : state'[q] = state[q]
      BY <1>1, <2>4 DEF ProcessUpdatePaused, SetState, TypeOK, delivery
    <3>2. CASE state' = state
      BY <3>1, <3>2, LifeStutters
    <3>3. CASE state'[r] = "CompletingSend" /\ \A q \in Requests \ {r} : state'[q] = state[q]
      <4>1. Life!Enter(r, {"completing", "over"})
        BY <1>1, <3>1, <3>3, PhaseOf, EntersPhase
      <4> QED BY <3>1, <4>1, PhaseOf DEF Life!End, Life!Next
    <3>4. CASE state'[r] = "Queued" /\ \A q \in Requests \ {r} : state'[q] = state[q]
      <4>1. Life!Enter(r, {"waiting"})
        BY <1>1, <3>1, <3>4, PhaseOf, EntersPhase
      <4> QED BY <3>1, <4>1, PhaseOf DEF Life!Resume, Life!Next
    <3> QED BY <3>1, <3>2, <3>3, <3>4
  <2> QED BY <1>2, <2>1, <2>2, <2>3, <2>4 DEF Remote
<1>3. ASSUME NEW r \in Requests, Local(r) PROVE Life!Next \/ UNCHANGED Life!vars
  <2>1. CASE UnpauseResponse(r)
    <3>1. /\ state[r] = "Paused" /\ state'[r] = "Queued" /\ listeners' = listeners
          /\ \A q \in Requests \ {r} : state'[q] = state[q]
      BY <1>1, <2>1 DEF UnpauseResponse, SetState, TypeOK, delivery
    <3>2. Life!Enter(r, {"waiting"})
      BY <1>1, <3>1, PhaseOf, EntersPhase
    <3> QED BY <3>1, <3>2, PhaseOf DEF Life!Resume, Life!Next
  <2>2. CASE CancelResponse(r)
    BY <1>1, <2>2, AbortLife DEF CancelResponse
  <2> QED BY <1>3, <2>1, <2>2, LifeStutters DEF Local, PauseResponse, UpdateResponse, delivery
<1>4. ASSUME NEW r \in Requests, Worker(r) PROVE Life!Next \/ UNCHANGED Life!vars
  <2>1. CASE StartTask(r)
    <3>1. exec[r].at = "start" /\ listeners' = listeners
      BY <2>1 DEF StartTask, delivery
    <3>2. CASE Startable(r)
      <4>1. /\ state[r] = "Queued" /\ state'[r] = "Running"
            /\ \A q \in Requests \ {r} : state'[q] = state[q]
        BY <1>1, <2>1, <3>1, <3>2 DEF StartTask, Startable, InProgress, SetState, ResponseInv,
                                      WorkerMatchesState, TypeOK
      <4>2. Life!Enter(r, {"running"})
        BY <1>1, <3>1, <4>1, PhaseOf, EntersPhase
      <4> QED BY <4>1, <4>2, PhaseOf DEF Life!Start, Life!Next
    <3>3. CASE ~Startable(r)
      BY <2>1, <3>1, <3>3, LifeStutters DEF StartTask
    <3> QED BY <3>2, <3>3
  <2>2. CASE FinishTask(r)
    <3>1. state[r] \in {"Running", "terminated"}
      BY <1>1, <2>2 DEF FinishTask, ResponseInv, WorkerMatchesState
    <3>2. CASE state[r] = "terminated"
      BY <2>2, <3>2, LifeStutters DEF FinishTask, InProgress
    <3>3. CASE state[r] = "Running"
      <4>1. listeners[r] = <<>>
        BY <1>1, <3>3 DEF ResponseInv, VerdictIsLast
      <4>2. /\ \A q \in Requests \ {r} : state'[q] = state[q]
            /\ \/ /\ state'[r] \in {"Paused", "CompletingSend", "terminated"}
                  /\ listeners' = listeners
               \/ state'[r] = "terminated" /\ Notify(r, "cancelled")
        BY <1>1, <2>2, <3>3 DEF FinishTask, InProgress, SetState, TypeOK
      <4>3. Life!Enter(r, {"paused", "completing", "over"})
        BY <1>1, <4>1, <4>2, PhaseOf, EntersPhase
      <4> QED BY <3>3, <4>3, PhaseOf DEF Life!Leave, Life!Next
    <3> QED BY <3>1, <3>2, <3>3
  <2>3. CASE UNCHANGED <<state, listeners>>
    BY <2>3, LifeStutters
  <2> QED BY <1>4, <2>1, <2>2, <2>3, Zenon
          DEF Worker, PopTask, Traverse, CheckForUpdates, GetUpdates, SendResponse, CloseOut,
              delivery
<1>5. ASSUME NEW r \in Requests, MessageSent(r) \/ MessageFailed(r)
      PROVE  UNCHANGED Life!vars
  BY <1>5, LifeStutters DEF MessageSent, MessageFailed
<1>6. CASE OnNextSent
  <2>1. PICK r : r = Head(events).request
    OBVIOUS
  <2>2. /\ events # <<>> /\ events' = Tail(events)
        /\ IF Head(events).terminal THEN TerminateRequest(r) /\ Notify(r, "completed")
                                    ELSE UNCHANGED <<state, listeners>>
    BY <1>6, <2>1 DEF OnNextSent
  <2>3. CASE ~Head(events).terminal
    BY <2>2, <2>3, LifeStutters
  <2>4. CASE Head(events).terminal
    <3>1. r \in Requests /\ Head(events) = events[1] /\ 1 \in DOMAIN events
      BY <1>1, <2>1, <2>2, EventTaken DEF Events
    <3>2. Final(r)
      BY <2>1, <2>4, <3>1 DEF Final, FinalEvent
    <3> QED BY <1>1, <2>2, <2>4, <3>1, <3>2, EndLife
  <2> QED BY <2>3, <2>4
<1>7. CASE OnNextError
  <2>1. PICK r : r = Head(events).request
    OBVIOUS
  <2>2. events # <<>> /\ events' = Tail(events) /\ AbortRequest(r, "network")
    BY <1>7, <2>1 DEF OnNextError
  <2>3. r \in Requests
    BY <1>1, <2>1, <2>2, EventTaken DEF Events
  <2> QED BY <1>1, <2>2, <2>3, AbortLife
<1>8. CASE OnNextErrorTerminate
  <2>1. PICK r : r = subscriber.request
    OBVIOUS
  <2>2. /\ subscriber # NoEvent /\ listeners' = listeners
        /\ IF subscriber.terminal THEN TerminateRequest(r) ELSE UNCHANGED state
    BY <1>8, <2>1 DEF OnNextErrorTerminate, TerminateIfTerminal
  <2>3. CASE ~subscriber.terminal
    BY <2>2, <2>3, LifeStutters
  <2>4. CASE subscriber.terminal
    <3>1. r \in Requests
      BY <1>1, <2>1, <2>2 DEF TypeOK, Events
    <3>2. Final(r)
      BY <2>1, <2>2, <2>4 DEF Final, FinalHandled
    <3> QED BY <1>1, <2>2, <2>4, <3>1, <3>2, EndLife
  <2> QED BY <2>3, <2>4
<1>9. CASE UNCHANGED vars
  BY <1>9, LifeStutters DEF vars
<1> QED BY <1>2, <1>3, <1>4, <1>5, <1>6, <1>7, <1>8, <1>9 DEF Next, Publisher

\* The safety part of ImplementsLifecycle: a response is accepted once, runs only from
\* the queue, comes back from a pause only through it, never leaves its end, and its
\* listeners are told once whether it completed or was cancelled, not before the end.
THEOREM ImplementsLifecycleSafety == Spec => Life!Init /\ [][Life!Next]_(Life!vars)
<1>1. Init => Life!Init
  BY PhaseOf DEF Init, Life!Init
<1>2. IInv /\ IInv' /\ [Next]_vars => [Life!Next]_(Life!vars)
  BY LifeStep
<1> QED BY <1>1, <1>2, Invariance, PTL DEF Spec

=============================================================================
