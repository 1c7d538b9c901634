------------------------------ MODULE Message ------------------------------
(***************************************************************************)
(* A GraphSync message: the builder that collects it (message/builder.go), *)
(* its parts (message/message.go) and its form on the wire                 *)
(* (message/v2/message.go, message/ipldbind/message.go).  Everything here  *)
(* is a pure operator; module Network sends such messages.                 *)
(*                                                                         *)
(* A Go map is a function on a finite set, and a nil map the empty one,    *)
(* which no accessor tells apart.  The lists a message is encoded as come  *)
(* from iterating over maps, in any order, and are decoded into maps       *)
(* again: they are sets here.  A CID is the pair of its prefix and the     *)
(* data it is the hash of, as hashes do not collide.                       *)
(***************************************************************************)
EXTENDS Integers, FiniteSets, Sequences, SequencesExt

CONSTANTS Undef,   \* cid.Undef
          Nil      \* a nil node: no selector, no extension data

IsMap(map) == map = [key \in DOMAIN map |-> map[key]] /\ IsFiniteSet(DOMAIN map)

NoEntries == [x \in {} |-> Nil]

Merge(new, old) ==
  [key \in DOMAIN new \union DOMAIN old |-> IF key \in DOMAIN new THEN new[key] ELSE old[key]]

With(map, key, value) == Merge([k \in {key} |-> value], map)

Values(map) == {map[key] : key \in DOMAIN map}

Without(map, keys) == [key \in DOMAIN map \ keys |-> map[key]]

-----------------------------------------------------------------------------
(* Requests and responses *)

\* Of several extensions of one name the last one is kept.
ToExtensionsMap(extensions) ==
  [name \in {extensions[i].name : i \in DOMAIN extensions} |->
     LET last == CHOOSE i \in DOMAIN extensions :
                   /\ extensions[i].name = name
                   /\ \A j \in DOMAIN extensions :
                        extensions[j].name = name => j <= i
     IN  extensions[last].data]

NewRequest(id, root, selector, priority, extensions) ==
  [id |-> id, type |-> "New", root |-> root, selector |-> selector,
   priority |-> priority, extensions |-> ToExtensionsMap(extensions)]

NewCancelRequest(id) ==
  [id |-> id, type |-> "Cancel", root |-> Undef, selector |-> Nil,
   priority |-> 0, extensions |-> NoEntries]

NewUpdateRequest(id, extensions) ==
  [id |-> id, type |-> "Update", root |-> Undef, selector |-> Nil,
   priority |-> 0, extensions |-> ToExtensionsMap(extensions)]

\* MergeExtensions with the function that takes the new data.
ReplaceExtensions(request, extensions) ==
  [request EXCEPT !.extensions = Merge(ToExtensionsMap(extensions), @)]

NewResponse(requestID, status, metadata, extensions) ==
  [requestID |-> requestID, status |-> status, metadata |-> metadata,
   extensions |-> ToExtensionsMap(extensions)]

-----------------------------------------------------------------------------
(* The builder *)

NewBuilder ==
  [requests |-> NoEntries, outgoingBlocks |-> NoEntries,
   completedResponses |-> NoEntries, outgoingResponses |-> NoEntries,
   extensions |-> NoEntries]

\* Mutant: the request that is in the message already is kept.
AddRequestOnce(b, request) ==
  IF request.id \in DOMAIN b.requests THEN b
  ELSE [b EXCEPT !.requests = With(@, request.id, request)]

AddRequest(b, request) ==
  [b EXCEPT !.requests = With(@, request.id, request)]

AddBlock(b, block) ==
  [b EXCEPT !.outgoingBlocks = With(@, block.cid, block)]

\* The list of a response in one of the maps, nil when it has none yet.
ListOf(map, id) == IF id \in DOMAIN map THEN map[id] ELSE <<>>

AddExtensionData(b, id, extension) ==
  [b EXCEPT !.extensions = With(@, id, Append(ListOf(@, id), extension)),
            !.outgoingResponses = With(@, id, ListOf(@, id))]

AddLink(b, id, link, action) ==
  [b EXCEPT !.outgoingResponses =
     With(@, id, Append(ListOf(@, id), [link |-> link, action |-> action]))]

AddResponseCode(b, id, status) ==
  [b EXCEPT !.completedResponses = With(@, id, status),
            !.outgoingResponses = With(@, id, ListOf(@, id))]

Empty(b) ==
  /\ DOMAIN b.requests = {}
  /\ DOMAIN b.outgoingBlocks = {}
  /\ DOMAIN b.outgoingResponses = {}

\* A block stays when a response that is left has it as present.
ScrubResponses(b, ids) ==
  LET left     == Without(b.outgoingResponses, ids)
      referred == {item.link : item \in
                     {x \in UNION {Range(list) : list \in Values(left)} :
                        x.action = "Present"}}
  IN  [b EXCEPT !.completedResponses = Without(@, ids),
                !.extensions = Without(@, ids),
                !.outgoingResponses = left,
                !.outgoingBlocks = Without(@, DOMAIN @ \ referred)]

ResponseCode(b, id) ==
  IF id \in DOMAIN b.completedResponses THEN b.completedResponses[id]
                                        ELSE "PartialResponse"

Build(b) ==
  [requests  |-> b.requests,
   responses |-> [id \in DOMAIN b.outgoingResponses |->
                    NewResponse(id, ResponseCode(b, id), b.outgoingResponses[id],
                                ListOf(b.extensions, id))],
   blocks    |-> b.outgoingBlocks]

-----------------------------------------------------------------------------
(* The wire format *)

\* go-cid's Prefix and Prefix.Sum.
Prefix(cid)      == cid[1]
Sum(prefix, data) == <<prefix, data>>

\* The pointer of an optional field is the set of what it points to.  It is nil
\* when the field has the value a missing one is read as.
Optional(value, default) == IF value = default THEN {} ELSE {value}
Given(field, default)    == IF field = {} THEN default ELSE CHOOSE value \in field : TRUE

NewGraphSyncExtensions(extensions) == Optional(extensions, NoEntries)

ToExtensionsList(field) ==
  LET values == Given(field, NoEntries)
      names  == SetToSeq(DOMAIN values)
  IN  [i \in DOMAIN names |-> [name |-> names[i], data |-> values[names[i]]]]

RequestToIPLD(r) ==
  [id |-> r.id, type |-> r.type, root |-> Optional(r.root, Undef),
   selector |-> Optional(r.selector, Nil), priority |-> Optional(r.priority, 0),
   extensions |-> NewGraphSyncExtensions(r.extensions)]

\* Mutant: metadata of one link counts as none.
ResponseToIPLDOffByOne(r) ==
  [id |-> r.requestID, status |-> r.status,
   metadata |-> IF Len(r.metadata) > 1 THEN {r.metadata} ELSE {},
   extensions |-> NewGraphSyncExtensions(r.extensions)]

ResponseToIPLD(r) ==
  [id |-> r.requestID, status |-> r.status, metadata |-> Optional(r.metadata, <<>>),
   extensions |-> NewGraphSyncExtensions(r.extensions)]

BlockToIPLD(block) == [prefix |-> Prefix(block.cid), data |-> block.data]

ToIPLD(m) ==
  [requests  |-> Optional({RequestToIPLD(r) : r \in Values(m.requests)}, {}),
   responses |-> Optional({ResponseToIPLD(r) : r \in Values(m.responses)}, {}),
   blocks    |-> Optional({BlockToIPLD(b) : b \in Values(m.blocks)}, {})]

\* Only the fields of its type are read from a request.
RequestFromIPLD(w) ==
  IF w.type = "Cancel" THEN NewCancelRequest(w.id)
  ELSE IF w.type = "Update" THEN NewUpdateRequest(w.id, ToExtensionsList(w.extensions))
  ELSE NewRequest(w.id, Given(w.root, Undef), Given(w.selector, Nil), Given(w.priority, 0),
                  ToExtensionsList(w.extensions))

ResponseFromIPLD(w) ==
  NewResponse(w.id, w.status, Given(w.metadata, <<>>), ToExtensionsList(w.extensions))

\* The CID is computed from the data, whatever the sender called the block.
BlockFromIPLD(w) == [cid |-> Sum(w.prefix, w.data), data |-> w.data]

\* The map of a decoded list under the key of its elements.
Keyed(list, Key(_)) ==
  [key \in {Key(x) : x \in list} |-> CHOOSE x \in list : Key(x) = key]

IDOf(request)         == request.id
RequestIDOf(response) == response.requestID
CidOf(block)          == block.cid

FromIPLD(w) ==
  [requests  |-> Keyed({RequestFromIPLD(r) : r \in Given(w.requests, {})}, IDOf),
   responses |-> Keyed({ResponseFromIPLD(r) : r \in Given(w.responses, {})},
                       RequestIDOf),
   blocks    |-> Keyed({BlockFromIPLD(b) : b \in Given(w.blocks, {})}, CidOf)]
=============================================================================
