-------------------------------- MODULE Hooks --------------------------------
(***************************************************************************)
(* The hooks of the user (responsemanager/hooks, requestmanager/hooks):    *)
(* what a list of registered hooks makes of a request, an update, a        *)
(* response or a block.  A hook is the sequence of calls it makes of the   *)
(* actions it is given; the hooks run in the order of their registration   *)
(* and, but for those of an outgoing request, only until one of them has   *)
(* left an error.                                                          *)
(*                                                                         *)
(* A registered persistence option, a node prototype chooser and an        *)
(* augmented context only change what is traversed, and are left out.      *)
(* MaxHooks bounds the hooks that are registered and MaxHookCalls the      *)
(* calls each makes.                                                       *)
(***************************************************************************)
EXTENDS Integers, SequencesExt

CONSTANTS MaxHooks, MaxHookCalls

ASSUME HookBoundsAssumption == {MaxHooks, MaxHookCalls} \subseteq Nat

NoErr == "nil"

\* The lists of hooks that make some of the calls given.
HookLists(calls) == SeqOf(SeqOf(calls, MaxHookCalls), MaxHooks)

\* pubsub.Publish with a dispatcher that returns the error in the actions, which
\* the calls in errors set: a hook that runs makes the call.
Called(hooks, errors, call) ==
  \E i \in DOMAIN hooks :
    /\ \A j \in 1..(i - 1) : Range(hooks[j]) \cap errors = {}
    /\ call \in Range(hooks[i])

\* The actions of a block, of either side, in which a pause is an error too and the
\* last error that a hook sets stays.
BlockErrors == {"TerminateWithError", "PauseResponse", "PauseRequest"}

HookError(hook) ==
  LET last == SelectLastInSeq(hook, LAMBDA call : call \in BlockErrors)
  IN  IF last = 0 THEN NoErr
      ELSE IF hook[last] = "TerminateWithError" THEN "failed" ELSE "paused"

\* The first hook that leaves an error is the last one that runs.
PublishBlock(hooks) ==
  LET first == SelectInSeq(hooks, LAMBDA hook : HookError(hook) # NoErr)
  IN  IF first = 0 THEN NoErr ELSE HookError(hooks[first])

-----------------------------------------------------------------------------
(* The responder *)

RequestCalls == {"SendExtensionData", "TerminateWithError", "ValidateRequest",
                 "UseUnknownPersistenceOption", "PauseResponse"}

RequestErrors == {"TerminateWithError", "UseUnknownPersistenceOption"}

\* requestHookActions
ProcessRequestHooks(hooks) ==
  LET called(call) == Called(hooks, RequestErrors, call)
  IN  [err         |-> IF \E call \in RequestErrors : called(call) THEN "failed" ELSE NoErr,
       isValidated |-> called("ValidateRequest"),
       isPaused    |-> called("PauseResponse"),
       extensions  |-> called("SendExtensionData")]

\* prepareQuery: what it sends and whether it fails; decodes says whether the
\* extensions of the request (the dedup key, the CIDs and the number of blocks not
\* to send) can be decoded.
PrepareQuery(result, decodes) ==
  LET extensions == IF result.extensions THEN <<"data">> ELSE <<>>
      paused     == IF result.extensions \/ result.isPaused THEN <<"data">> ELSE <<>>
  IN  IF result.err # NoErr \/ ~result.isValidated
        THEN [err |-> TRUE, ops |-> extensions \o <<"failed">>]
        ELSE [err |-> ~decodes, ops |-> IF decodes THEN paused ELSE paused \o <<"failed">>]

UpdateCalls == {"SendExtensionData", "TerminateWithError", "UnpauseResponse"}

\* updateHookActions
ProcessUpdateHooks(hooks) ==
  LET called(call) == Called(hooks, {"TerminateWithError"}, call)
  IN  [err        |-> IF called("TerminateWithError") THEN "failed" ELSE NoErr,
       unpause    |-> called("UnpauseResponse"),
       extensions |-> called("SendExtensionData")]

BlockCalls == {"SendExtensionData", "TerminateWithError", "PauseResponse"}

\* blockHookActions; the extension data goes out with the block.
ProcessBlockHooks(hooks) == PublishBlock(hooks)

-----------------------------------------------------------------------------
(* The requestor *)

OutgoingCalls == {"registered", "unregistered"}

\* requestHookActions.UsePersistenceOption: the last name stays.  The dispatcher
\* returns no error, so every hook runs.
ProcessOutgoingRequestHooks(hooks) ==
  FoldLeft(LAMBDA option, call : call, "", FlattenSeq(hooks))

IncomingCalls == {"UpdateRequestWithExtensions", "TerminateWithError", "PauseRequest"}

\* updateHookActions, of a response or a block that has come in.  A hook for a
\* response has no PauseRequest; extension data goes out in an update, which is
\* left out.
ProcessIncomingHooks(hooks) == PublishBlock(hooks)

-----------------------------------------------------------------------------
(* What the user of the hooks meant *)

\* Some hook terminates the request, directly or through an unknown option.
Terminates(hooks) ==
  \E i \in DOMAIN hooks : \E k \in DOMAIN hooks[i] :
    hooks[i][k] \in {"TerminateWithError", "UseUnknownPersistenceOption"}

\* No hook lets the request be served.
Refuses(hooks) ==
  \/ Terminates(hooks)
  \/ \A i \in DOMAIN hooks : \A k \in DOMAIN hooks[i] : hooks[i][k] # "ValidateRequest"

\* The first hook that stops the request at a block does so by terminating it.
TerminatesAtBlock(hooks) ==
  LET stops(i) == {k \in DOMAIN hooks[i] : hooks[i][k] \in {"TerminateWithError",
                                                            "PauseResponse", "PauseRequest"}}
  IN  \E i \in DOMAIN hooks :
        /\ \A j \in 1..(i - 1) : stops(j) = {}
        /\ \E k \in stops(i) : /\ hooks[i][k] = "TerminateWithError"
                               /\ \A l \in stops(i) : l <= k

\* What may come of a request, an update and a block, with what the hooks meant.
RequestOutcomes ==
  {[result |-> ProcessRequestHooks(h), refused |-> Refuses(h)] : h \in HookLists(RequestCalls)}

UpdateOutcomes ==
  {[result |-> ProcessUpdateHooks(h), refused |-> Terminates(h)] : h \in HookLists(UpdateCalls)}

BlockOutcomes ==
  {[err |-> ProcessBlockHooks(h), refused |-> TerminatesAtBlock(h)] :
     h \in HookLists(BlockCalls)}

IncomingOutcomes == {ProcessIncomingHooks(h) : h \in HookLists(IncomingCalls)}

OutgoingOutcomes == {ProcessOutgoingRequestHooks(h) : h \in HookLists(OutgoingCalls)}

=============================================================================
