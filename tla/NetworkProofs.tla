---------------------------- MODULE NetworkProofs ----------------------------
(***************************************************************************)
(* Proofs about the traffic between two peers, for any requests, updates   *)
(* and transactions, any sizes and any number of calls, faults and         *)
(* retries: a message survives its encoding, what the managers of the      *)
(* other peer get was built for them, in the order it was sent, and the    *)
(* last word about a request is the last one that is heard.                *)
(***************************************************************************)
EXTENDS Network, SequenceTheorems, FiniteSetTheorems, TLAPS

-----------------------------------------------------------------------------
(* The wire format *)

\* A request has the fields of its type: a cancel has no others, and an update has
\* extensions only.
IsRequest(r) ==
  /\ r = [id |-> r.id, type |-> r.type, root |-> r.root, selector |-> r.selector,
          priority |-> r.priority, extensions |-> r.extensions]
  /\ IsMap(r.extensions)
  /\ r.type \in {"New", "Update", "Cancel"}
  /\ r.type # "New" => r.root = Undef /\ r.selector = Nil /\ r.priority = 0
  /\ r.type = "Cancel" => r.extensions = NoEntries

IsResponse(r) ==
  /\ r = [requestID |-> r.requestID, status |-> r.status, metadata |-> r.metadata,
          extensions |-> r.extensions]
  /\ IsMap(r.extensions)

\* A block has the CID of its data.
IsBlock(b) == b = BlockFromIPLD(BlockToIPLD(b))

\* The three maps of a message, each under the keys of its values.
AreRequests(map) ==
  IsMap(map) /\ \A id \in DOMAIN map : IsRequest(map[id]) /\ map[id].id = id

AreResponses(map) ==
  IsMap(map) /\ \A id \in DOMAIN map : IsResponse(map[id]) /\ map[id].requestID = id

AreBlocks(map) ==
  IsMap(map) /\ \A c \in DOMAIN map : IsBlock(map[c]) /\ map[c].cid = c

IsMessage(m) ==
  /\ m = [requests |-> m.requests, responses |-> m.responses, blocks |-> m.blocks]
  /\ AreRequests(m.requests)
  /\ AreResponses(m.responses)
  /\ AreBlocks(m.blocks)

\* An optional field that is left out is read as the value it was left out for.
LEMMA OptionalField ==
  ASSUME NEW value, NEW default
  PROVE  Given(Optional(value, default), default) = value
<1>1. CASE value = default
  BY <1>1 DEF Given, Optional
<1>2. CASE value # default
  <2>1. Optional(value, default) = {value}
    BY <1>2 DEF Optional
  <2>2. {value} # {} /\ (CHOOSE v \in {value} : TRUE) = value
    OBVIOUS
  <2> QED BY <2>1, <2>2 DEF Given
<1> QED BY <1>1, <1>2

\* SetToSeq lists every element of a finite set once.
LEMMA Listing ==
  ASSUME NEW S, IsFiniteSet(S)
  PROVE  /\ Cardinality(S) \in Nat
         /\ SetToSeq(S) \in [1..Cardinality(S) -> S]
         /\ \A i, j \in 1..Cardinality(S) : SetToSeq(S)[i] = SetToSeq(S)[j] => i = j
         /\ \A x \in S : \E i \in 1..Cardinality(S) : SetToSeq(S)[i] = x
<1> PICK n : n = Cardinality(S)
  OBVIOUS
<1>1. n \in Nat /\ ExistsBijection(1..n, S)
  BY FS_CardinalityType
<1>2. PICK f \in Bijection(1..n, S) : TRUE
  BY <1>1 DEF ExistsBijection
<1>3. f \in [1..n -> S] /\ IsInjective(f)
  BY <1>2 DEF Bijection, Injection, IsInjective
<1>4. SetToSeq(S) \in [1..n -> S] /\ IsInjective(SetToSeq(S))
  BY <1>3 DEF SetToSeq
<1> PICK g : g = SetToSeq(S)
  OBVIOUS
<1>5. g \in [1..n -> S] /\ \A i, j \in 1..n : g[i] = g[j] => i = j
  BY <1>4 DEF IsInjective
<1>6. ASSUME NEW x \in S, \A i \in 1..n : g[i] # x
      PROVE  FALSE
  <2>1. IsFiniteSet(S \ {x}) /\ Cardinality(S \ {x}) = n - 1
    BY FS_RemoveElement
  <2>2. g \in Injection(1..n, S \ {x})
    BY <1>5, <1>6 DEF Injection, IsInjective
  <2>3. Cardinality(1..n) <= Cardinality(S \ {x})
    BY <2>1, <2>2, FS_Injection
  <2>4. Cardinality(1..n) = n
    <3>1. n \in Int /\ 1 \in Int
      BY <1>1
    <3>2. Cardinality(1..n) = IF 1 > n THEN 0 ELSE n - 1 + 1
      BY <3>1, FS_Interval
    <3> QED BY <1>1, <3>2
  <2> QED BY <1>1, <2>1, <2>3, <2>4
<1> QED BY <1>1, <1>5, <1>6

\* The extensions of a request or a response are the same map after they were sent
\* as an optional list.
LEMMA ExtensionsSurvive ==
  ASSUME NEW map, IsMap(map)
  PROVE  ToExtensionsMap(ToExtensionsList(NewGraphSyncExtensions(map))) = map
<1>1. Given(NewGraphSyncExtensions(map), NoEntries) = map
  BY OptionalField DEF NewGraphSyncExtensions
<1> PICK n : n = Cardinality(DOMAIN map)
  OBVIOUS
<1> PICK names : names = SetToSeq(DOMAIN map)
  OBVIOUS
<1>2. /\ n \in Nat
      /\ names \in [1..n -> DOMAIN map]
      /\ \A i, j \in 1..n : names[i] = names[j] => i = j
      /\ \A x \in DOMAIN map : \E i \in 1..n : names[i] = x
  BY Listing DEF IsMap
<1>3. PICK list : list = [i \in 1..n |-> [name |-> names[i], data |-> map[names[i]]]]
  OBVIOUS
<1>4. /\ DOMAIN list = 1..n
      /\ \A i \in 1..n : list[i].name = names[i] /\ list[i].data = map[names[i]]
  <2>1. DOMAIN list = 1..n
    BY <1>3
  <2>2. \A i \in 1..n : list[i] = [name |-> names[i], data |-> map[names[i]]]
    BY <1>3, Zenon
  <2> QED BY <2>1, <2>2
<1>5. {list[i].name : i \in DOMAIN list} = DOMAIN map
  <2>1. \A i \in DOMAIN list : list[i].name \in DOMAIN map
    BY <1>2, <1>4
  <2>2. \A x \in DOMAIN map : \E i \in DOMAIN list : x = list[i].name
    BY <1>2, <1>4
  <2> QED BY <2>1, <2>2, Zenon
<1> DEFINE L(name, i) == /\ list[i].name = name
                         /\ \A j \in DOMAIN list : list[j].name = name => j <= i
<1>6. ASSUME NEW name \in DOMAIN map
      PROVE  list[CHOOSE i \in DOMAIN list : L(name, i)].data = map[name]
  <2>1. PICK i \in 1..n : names[i] = name
    BY <1>2
  <2>2. L(name, i) /\ i \in DOMAIN list
    <3>1. \A j \in 1..n : list[j].name = name => j = i
      BY <1>2, <1>4, <2>1
    <3>2. i <= i
      BY <1>2
    <3> QED BY <1>4, <2>1, <3>1, <3>2
  <2>3. PICK c : c = CHOOSE k \in DOMAIN list : L(name, k)
    OBVIOUS
  <2>4. c \in DOMAIN list /\ L(name, c)
    BY <2>2, <2>3
  <2>5. names[c] = name
    BY <1>4, <2>4
  <2> QED BY <1>4, <2>3, <2>4, <2>5
<1>7. ToExtensionsMap(list) = [name \in DOMAIN map |-> map[name]]
  <2>1. ToExtensionsMap(list) =
          [name \in {list[i].name : i \in DOMAIN list} |->
             list[CHOOSE i \in DOMAIN list : L(name, i)].data]
    BY DEF ToExtensionsMap
  <2> HIDE DEF L
  <2> QED BY <1>5, <1>6, <2>1
<1>8. ToExtensionsList(NewGraphSyncExtensions(map)) = list
  <2>1. DOMAIN names = 1..n
    BY <1>2
  <2> QED BY <1>1, <1>3, <2>1 DEF ToExtensionsList
<1> QED BY <1>7, <1>8 DEF IsMap

\* A request is read back as it was, with the fields of its type.
LEMMA RequestSurvives ==
  ASSUME NEW r, IsRequest(r)
  PROVE  RequestFromIPLD(RequestToIPLD(r)) = r
<1>1. PICK w : w = RequestToIPLD(r)
  OBVIOUS
<1>2. /\ w.id = r.id /\ w.type = r.type
      /\ w.root = Optional(r.root, Undef) /\ w.selector = Optional(r.selector, Nil)
      /\ w.priority = Optional(r.priority, 0)
      /\ w.extensions = NewGraphSyncExtensions(r.extensions)
  BY <1>1 DEF RequestToIPLD
<1>3. ToExtensionsMap(ToExtensionsList(w.extensions)) = r.extensions
  BY <1>2, ExtensionsSurvive DEF IsRequest
<1>4. CASE r.type = "Cancel"
  <2>1. RequestFromIPLD(w) = NewCancelRequest(r.id)
    BY <1>2, <1>4 DEF RequestFromIPLD
  <2>2. r = [id |-> r.id, type |-> "Cancel", root |-> Undef, selector |-> Nil,
             priority |-> 0, extensions |-> NoEntries]
    <3>1. r.root = Undef /\ r.selector = Nil /\ r.priority = 0 /\ r.extensions = NoEntries
      BY <1>4, Zenon DEF IsRequest
    <3> QED BY <1>4, <3>1, Zenon DEF IsRequest
  <2> QED BY <1>1, <2>1, <2>2, Zenon DEF NewCancelRequest
<1>5. CASE r.type = "Update"
  <2>1. RequestFromIPLD(w) = NewUpdateRequest(r.id, ToExtensionsList(w.extensions))
    BY <1>2, <1>5 DEF RequestFromIPLD
  <2>2. r = [id |-> r.id, type |-> "Update", root |-> Undef, selector |-> Nil,
             priority |-> 0, extensions |-> r.extensions]
    <3>1. r.root = Undef /\ r.selector = Nil /\ r.priority = 0
      BY <1>5, Zenon DEF IsRequest
    <3> QED BY <1>5, <3>1, Zenon DEF IsRequest
  <2>3. NewUpdateRequest(r.id, ToExtensionsList(w.extensions)) =
          [id |-> r.id, type |-> "Update", root |-> Undef, selector |-> Nil,
           priority |-> 0, extensions |-> r.extensions]
    BY <1>3, Zenon DEF NewUpdateRequest
  <2> QED BY <1>1, <2>1, <2>2, <2>3, Zenon
<1>6. CASE r.type = "New"
  <2>1. RequestFromIPLD(w) =
          NewRequest(r.id, Given(w.root, Undef), Given(w.selector, Nil),
                     Given(w.priority, 0), ToExtensionsList(w.extensions))
    BY <1>2, <1>6 DEF RequestFromIPLD
  <2>2. /\ Given(w.root, Undef) = r.root
        /\ Given(w.selector, Nil) = r.selector
        /\ Given(w.priority, 0) = r.priority
    BY <1>2, OptionalField, Zenon
  <2>3. RequestFromIPLD(w) =
          [id |-> r.id, type |-> r.type, root |-> r.root, selector |-> r.selector,
           priority |-> r.priority, extensions |-> r.extensions]
    BY <1>3, <1>6, <2>1, <2>2, Zenon DEF NewRequest
  <2> QED BY <1>1, <2>3, Zenon DEF IsRequest
<1> QED BY <1>4, <1>5, <1>6, Zenon DEF IsRequest

\* A response is read back as it was.
LEMMA ResponseSurvives ==
  ASSUME NEW r, IsResponse(r)
  PROVE  ResponseFromIPLD(ResponseToIPLD(r)) = r
<1>1. PICK w : w = ResponseToIPLD(r)
  OBVIOUS
<1>2. /\ w.id = r.requestID /\ w.status = r.status
      /\ w.metadata = Optional(r.metadata, <<>>)
      /\ w.extensions = NewGraphSyncExtensions(r.extensions)
  BY <1>1 DEF ResponseToIPLD
<1>3. ToExtensionsMap(ToExtensionsList(w.extensions)) = r.extensions
  BY <1>2, ExtensionsSurvive DEF IsResponse
<1>4. Given(w.metadata, <<>>) = r.metadata
  BY <1>2, OptionalField, Zenon
<1>5. ResponseFromIPLD(w) = [requestID |-> r.requestID, status |-> r.status,
                             metadata |-> r.metadata, extensions |-> r.extensions]
  BY <1>2, <1>3, <1>4, Zenon DEF ResponseFromIPLD, NewResponse
<1> QED BY <1>1, <1>5, Zenon DEF IsResponse

\* The three lists of a message are read back into the maps they were made of.
LEMMA MapsSurvive ==
  /\ \A map : AreRequests(map) =>
       Keyed({RequestFromIPLD(w) : w \in {RequestToIPLD(r) : r \in Values(map)}}, IDOf) = map
  /\ \A map : AreResponses(map) =>
       Keyed({ResponseFromIPLD(w) : w \in {ResponseToIPLD(r) : r \in Values(map)}},
             RequestIDOf) = map
  /\ \A map : AreBlocks(map) =>
       Keyed({BlockFromIPLD(w) : w \in {BlockToIPLD(b) : b \in Values(map)}}, CidOf) = map
<1>1. ASSUME NEW map, AreRequests(map)
      PROVE  Keyed({RequestFromIPLD(w) : w \in {RequestToIPLD(r) : r \in Values(map)}}, IDOf)
               = map
  <2>1. \A r \in Values(map) : IsRequest(r)
    BY <1>1 DEF AreRequests, Values
  <2>2. \A r \in Values(map) : RequestFromIPLD(RequestToIPLD(r)) = r
    BY <2>1, RequestSurvives
  <2>3. {RequestFromIPLD(w) : w \in {RequestToIPLD(r) : r \in Values(map)}} = Values(map)
    BY <2>2
  <2>4. {r.id : r \in Values(map)} = DOMAIN map
    BY <1>1 DEF AreRequests, Values
  <2>5. \A id \in DOMAIN map : (CHOOSE r \in Values(map) : r.id = id) = map[id]
    <3> TAKE id \in DOMAIN map
    <3>1. map[id] \in Values(map) /\ map[id].id = id
      BY <1>1 DEF AreRequests, Values
    <3>2. \A r \in Values(map) : r.id = id => r = map[id]
      BY <1>1 DEF AreRequests, Values
    <3> QED BY <3>1, <3>2
  <2>6. Keyed(Values(map), IDOf) =
          [id \in {r.id : r \in Values(map)} |-> CHOOSE r \in Values(map) : r.id = id]
    BY DEF Keyed, IDOf
  <2>7. Keyed(Values(map), IDOf) = [id \in DOMAIN map |-> map[id]]
    BY <2>4, <2>5, <2>6
  <2> QED BY <1>1, <2>3, <2>7 DEF AreRequests, IsMap
<1>2. ASSUME NEW map, AreResponses(map)
      PROVE  Keyed({ResponseFromIPLD(w) : w \in {ResponseToIPLD(r) : r \in Values(map)}},
                   RequestIDOf) = map
  <2>1. \A r \in Values(map) : IsResponse(r)
    BY <1>2 DEF AreResponses, Values
  <2>2. \A r \in Values(map) : ResponseFromIPLD(ResponseToIPLD(r)) = r
    BY <2>1, ResponseSurvives
  <2>3. {ResponseFromIPLD(w) : w \in {ResponseToIPLD(r) : r \in Values(map)}} = Values(map)
    BY <2>2
  <2>4. {r.requestID : r \in Values(map)} = DOMAIN map
    BY <1>2 DEF AreResponses, Values
  <2>5. \A id \in DOMAIN map : (CHOOSE r \in Values(map) : r.requestID = id) = map[id]
    <3> TAKE id \in DOMAIN map
    <3>1. map[id] \in Values(map) /\ map[id].requestID = id
      BY <1>2 DEF AreResponses, Values
    <3>2. \A r \in Values(map) : r.requestID = id => r = map[id]
      BY <1>2 DEF AreResponses, Values
    <3> QED BY <3>1, <3>2
  <2>6. Keyed(Values(map), RequestIDOf) =
          [id \in {r.requestID : r \in Values(map)} |->
             CHOOSE r \in Values(map) : r.requestID = id]
    BY DEF Keyed, RequestIDOf
  <2>7. Keyed(Values(map), RequestIDOf) = [id \in DOMAIN map |-> map[id]]
    BY <2>4, <2>5, <2>6
  <2> QED BY <1>2, <2>3, <2>7 DEF AreResponses, IsMap
<1>3. ASSUME NEW map, AreBlocks(map)
      PROVE  Keyed({BlockFromIPLD(w) : w \in {BlockToIPLD(b) : b \in Values(map)}}, CidOf) = map
  <2>1. \A b \in Values(map) : BlockFromIPLD(BlockToIPLD(b)) = b
    BY <1>3 DEF AreBlocks, IsBlock, Values
  <2>2. {BlockFromIPLD(w) : w \in {BlockToIPLD(b) : b \in Values(map)}} = Values(map)
    BY <2>1
  <2>3. {b.cid : b \in Values(map)} = DOMAIN map
    BY <1>3 DEF AreBlocks, Values
  <2>4. \A c \in DOMAIN map : (CHOOSE b \in Values(map) : b.cid = c) = map[c]
    <3> TAKE c \in DOMAIN map
    <3>1. map[c] \in Values(map) /\ map[c].cid = c
      BY <1>3 DEF AreBlocks, Values
    <3>2. \A b \in Values(map) : b.cid = c => b = map[c]
      BY <1>3 DEF AreBlocks, Values
    <3> QED BY <3>1, <3>2
  <2>5. Keyed(Values(map), CidOf) =
          [c \in {b.cid : b \in Values(map)} |-> CHOOSE b \in Values(map) : b.cid = c]
    BY DEF Keyed, CidOf
  <2>6. Keyed(Values(map), CidOf) = [c \in DOMAIN map |-> map[c]]
    BY <2>3, <2>4, <2>5
  <2> QED BY <1>3, <2>2, <2>6 DEF AreBlocks, IsMap
<1> QED BY <1>1, <1>2, <1>3

\* Of message/v2/message.go: fromIPLD gives back every message that toIPLD encodes,
\* although optional fields are left out, only the fields of a request's type are read
\* and the CIDs are computed anew from the data.
THEOREM MessageSurvives ==
  ASSUME NEW m, IsMessage(m)
  PROVE  FromIPLD(ToIPLD(m)) = m
<1>1. PICK w : w = ToIPLD(m)
  OBVIOUS
<1>2. /\ Given(w.requests, {}) = {RequestToIPLD(r) : r \in Values(m.requests)}
      /\ Given(w.responses, {}) = {ResponseToIPLD(r) : r \in Values(m.responses)}
      /\ Given(w.blocks, {}) = {BlockToIPLD(b) : b \in Values(m.blocks)}
  <2>1. /\ w.requests = Optional({RequestToIPLD(r) : r \in Values(m.requests)}, {})
        /\ w.responses = Optional({ResponseToIPLD(r) : r \in Values(m.responses)}, {})
        /\ w.blocks = Optional({BlockToIPLD(b) : b \in Values(m.blocks)}, {})
    BY <1>1 DEF ToIPLD
  <2> QED BY <2>1, OptionalField, Zenon
<1>3. FromIPLD(w) = [requests |-> m.requests, responses |-> m.responses, blocks |-> m.blocks]
  <2>1. FromIPLD(w) =
          [requests  |-> Keyed({RequestFromIPLD(r) : r \in Given(w.requests, {})}, IDOf),
           responses |-> Keyed({ResponseFromIPLD(r) : r \in Given(w.responses, {})},
                               RequestIDOf),
           blocks    |-> Keyed({BlockFromIPLD(b) : b \in Given(w.blocks, {})}, CidOf)]
    BY DEF FromIPLD
  <2>2. /\ Keyed({RequestFromIPLD(r) : r \in Given(w.requests, {})}, IDOf) = m.requests
        /\ Keyed({ResponseFromIPLD(r) : r \in Given(w.responses, {})}, RequestIDOf)
             = m.responses
        /\ Keyed({BlockFromIPLD(b) : b \in Given(w.blocks, {})}, CidOf) = m.blocks
    BY <1>2, MapsSurvive DEF IsMessage
  <2> QED BY <2>1, <2>2, Zenon
<1> QED BY <1>1, <1>3, Zenon DEF IsMessage

-----------------------------------------------------------------------------
(* The builder *)

IsList(list) == \E S : list \in Seq(S)

\* A builder whose message can be built.
IsBuilder(b) ==
  /\ b = [requests |-> b.requests, outgoingBlocks |-> b.outgoingBlocks,
          completedResponses |-> b.completedResponses,
          outgoingResponses |-> b.outgoingResponses, extensions |-> b.extensions]
  /\ AreRequests(b.requests)
  /\ AreBlocks(b.outgoingBlocks)
  /\ IsMap(b.outgoingResponses)
  /\ IsMap(b.extensions) /\ \A id \in DOMAIN b.extensions : IsList(b.extensions[id])

\* Appending to a list.
LEMMA Lists ==
  /\ IsList(<<>>)
  /\ \A list : IsList(list) => IsFiniteSet(DOMAIN list)
  /\ \A list, e : IsList(list) => IsList(Append(list, e))
<1>1. IsList(<<>>)
  BY DEF IsList
<1>2. ASSUME NEW list, IsList(list) PROVE IsFiniteSet(DOMAIN list)
  <2>1. PICK S : list \in Seq(S)
    BY <1>2 DEF IsList
  <2>2. DOMAIN list = 1..Len(list) /\ Len(list) \in Nat
    BY <2>1
  <2>3. IsFiniteSet(1..Len(list))
    BY <2>2, FS_Interval
  <2> QED BY <2>2, <2>3
<1>3. ASSUME NEW list, NEW e, IsList(list) PROVE IsList(Append(list, e))
  <2>1. PICK S : list \in Seq(S)
    BY <1>3 DEF IsList
  <2>2. list \in Seq(S \union {e})
    BY <2>1, SeqMonotonic
  <2>3. Append(list, e) \in Seq(S \union {e})
    BY <2>2
  <2> QED BY <2>3 DEF IsList
<1> QED BY <1>1, <1>2, <1>3

\* The empty map.
LEMMA EmptyMap == IsMap(NoEntries) /\ DOMAIN NoEntries = {}
  BY FS_EmptySet DEF IsMap, NoEntries

\* Two maps are merged.
LEMMA MapMerged ==
  ASSUME NEW new, NEW old, IsFiniteSet(DOMAIN new), IsMap(old)
  PROVE  IsMap(Merge(new, old))
<1>1. IsFiniteSet(DOMAIN new \union DOMAIN old)
  BY FS_Union DEF IsMap
<1>2. /\ DOMAIN Merge(new, old) = DOMAIN new \union DOMAIN old
      /\ Merge(new, old) = [k \in DOMAIN Merge(new, old) |-> Merge(new, old)[k]]
  BY DEF Merge
<1> QED BY <1>1, <1>2 DEF IsMap

\* An entry is added to a map or replaced.
LEMMA MapWith ==
  ASSUME NEW map, NEW key, NEW value, IsMap(map)
  PROVE  IsMap(With(map, key, value))
<1>1. PICK one : one = [k \in {key} |-> value]
  OBVIOUS
<1>2. IsFiniteSet(DOMAIN one)
  BY <1>1, FS_Singleton
<1> QED BY <1>1, <1>2, MapMerged DEF With

\* What such a map has.
LEMMA WithIs ==
  ASSUME NEW map, NEW key, NEW value
  PROVE  With(map, key, value) =
           [k \in DOMAIN map \union {key} |-> IF k = key THEN value ELSE map[k]]
  BY DEF With, Merge

\* Entries are removed from a map.
LEMMA MapWithout ==
  ASSUME NEW map, NEW keys, IsMap(map)
  PROVE  IsMap(Without(map, keys))
<1>1. IsFiniteSet(DOMAIN map \ keys)
  BY FS_Difference DEF IsMap
<1>2. /\ DOMAIN Without(map, keys) = DOMAIN map \ keys
      /\ Without(map, keys) = [k \in DOMAIN Without(map, keys) |-> Without(map, keys)[k]]
  BY DEF Without
<1> QED BY <1>1, <1>2 DEF IsMap

\* toExtensionsMap makes a map of a list.
LEMMA ExtensionsMap ==
  ASSUME NEW list, IsFiniteSet(DOMAIN list)
  PROVE  IsMap(ToExtensionsMap(list))
<1>1. PICK names : names = {list[i].name : i \in DOMAIN list}
  OBVIOUS
<1>2. PICK f : f = [i \in DOMAIN list |-> list[i].name]
  OBVIOUS
<1>3. f \in Surjection(DOMAIN list, names)
  BY <1>1, <1>2 DEF Surjection
<1>4. IsFiniteSet(names)
  BY <1>3, FS_Surjection
<1>5. /\ DOMAIN ToExtensionsMap(list) = names
      /\ ToExtensionsMap(list) =
           [k \in DOMAIN ToExtensionsMap(list) |-> ToExtensionsMap(list)[k]]
  BY <1>1 DEF ToExtensionsMap
<1> QED BY <1>4, <1>5 DEF IsMap

\* The requests that the managers send have the fields of their types.
LEMMA RequestsAreWellFormed ==
  ASSUME NEW r \in Requests
  PROVE  /\ IsRequest(r)
         /\ IsRequest(NewCancelRequest(r.id)) /\ NewCancelRequest(r.id).id = r.id
         /\ \A u \in Updates : /\ IsRequest(NewUpdateRequest(r.id, u))
                               /\ NewUpdateRequest(r.id, u).id = r.id
         /\ IsRequest(ReplaceExtensions(r, Resumed)) /\ ReplaceExtensions(r, Resumed).id = r.id
<1>1. IsRequest(r) /\ r.type = "New"
  <2>1. /\ IsMap(r.extensions)
        /\ r = [id |-> r.id, type |-> "New", root |-> r.root, selector |-> r.selector,
                priority |-> r.priority, extensions |-> r.extensions]
    BY NetworkAssumption
  <2>2. r.type = "New"
    BY <2>1
  <2> QED BY <2>1, <2>2 DEF IsRequest
<1>2. IsRequest(NewCancelRequest(r.id)) /\ NewCancelRequest(r.id).id = r.id
  <2>1. PICK c : c = NewCancelRequest(r.id)
    OBVIOUS
  <2>2. /\ c.id = r.id /\ c.type = "Cancel" /\ c.root = Undef /\ c.selector = Nil
        /\ c.priority = 0 /\ c.extensions = NoEntries
    BY <2>1 DEF NewCancelRequest
  <2>3. c = [id |-> c.id, type |-> c.type, root |-> c.root, selector |-> c.selector,
             priority |-> c.priority, extensions |-> c.extensions]
    BY <2>1, <2>2, Zenon DEF NewCancelRequest
  <2> QED BY <2>1, <2>2, <2>3, EmptyMap, Zenon DEF IsRequest
<1>3. ASSUME NEW u \in Updates
      PROVE  IsRequest(NewUpdateRequest(r.id, u)) /\ NewUpdateRequest(r.id, u).id = r.id
  <2>1. PICK c : c = NewUpdateRequest(r.id, u)
    OBVIOUS
  <2>2. /\ c.id = r.id /\ c.type = "Update" /\ c.root = Undef /\ c.selector = Nil
        /\ c.priority = 0 /\ c.extensions = ToExtensionsMap(u)
    BY <2>1 DEF NewUpdateRequest
  <2>3. c = [id |-> c.id, type |-> c.type, root |-> c.root, selector |-> c.selector,
             priority |-> c.priority, extensions |-> c.extensions]
    BY <2>1, <2>2, Zenon DEF NewUpdateRequest
  <2>4. IsMap(ToExtensionsMap(u))
    BY ExtensionsMap, NetworkAssumption
  <2>5. c.type \in {"New", "Update", "Cancel"} /\ c.type # "Cancel"
    BY <2>2
  <2> QED BY <2>1, <2>2, <2>3, <2>4, <2>5, Zenon DEF IsRequest
<1>4. IsRequest(ReplaceExtensions(r, Resumed)) /\ ReplaceExtensions(r, Resumed).id = r.id
  <2>1. PICK e : e = Merge(ToExtensionsMap(Resumed), r.extensions)
    OBVIOUS
  <2>2. ReplaceExtensions(r, Resumed) = [r EXCEPT !.extensions = e]
    BY <2>1 DEF ReplaceExtensions
  <2>3. IsMap(e)
    <3>1. IsMap(ToExtensionsMap(Resumed)) /\ IsMap(r.extensions)
      BY <1>1, ExtensionsMap, NetworkAssumption DEF IsRequest
    <3> QED BY <2>1, <3>1, MapMerged DEF IsMap
  <2>4. PICK c : c = [r EXCEPT !.extensions = e]
    OBVIOUS
  <2>5. r = [id |-> r.id, type |-> r.type, root |-> r.root, selector |-> r.selector,
             priority |-> r.priority, extensions |-> r.extensions]
    BY <1>1 DEF IsRequest
  <2>6. c = [id |-> r.id, type |-> r.type, root |-> r.root, selector |-> r.selector,
             priority |-> r.priority, extensions |-> e]
    BY <2>4, <2>5
  <2>7. /\ c.id = r.id /\ c.type = "New" /\ c.root = r.root /\ c.selector = r.selector
        /\ c.priority = r.priority /\ c.extensions = e
    BY <1>1, <2>6
  <2>8. c = [id |-> c.id, type |-> c.type, root |-> c.root, selector |-> c.selector,
             priority |-> c.priority, extensions |-> c.extensions]
    BY <1>1, <2>6, <2>7, Zenon
  <2>9. c.type \in {"New", "Update", "Cancel"} /\ c.type # "Cancel"
    BY <2>7
  <2>10. IsRequest(c)
    BY <2>3, <2>7, <2>8, <2>9, Zenon DEF IsRequest
  <2> QED BY <2>2, <2>4, <2>7, <2>10, Zenon
<1> QED BY <1>1, <1>2, <1>3, <1>4


\* The fields of a builder after one field was changed, and after several were.
LEMMA BuilderField ==
  ASSUME NEW q, NEW k, NEW c, NEW p, NEW e, NEW x, NEW b,
         b = [requests |-> q, outgoingBlocks |-> k, completedResponses |-> c,
              outgoingResponses |-> p, extensions |-> e]
  PROVE  /\ [b EXCEPT !.requests = x] =
              [requests |-> x, outgoingBlocks |-> k, completedResponses |-> c,
               outgoingResponses |-> p, extensions |-> e]
         /\ [b EXCEPT !.outgoingBlocks = x] =
              [requests |-> q, outgoingBlocks |-> x, completedResponses |-> c,
               outgoingResponses |-> p, extensions |-> e]
         /\ [b EXCEPT !.completedResponses = x] =
              [requests |-> q, outgoingBlocks |-> k, completedResponses |-> x,
               outgoingResponses |-> p, extensions |-> e]
         /\ [b EXCEPT !.outgoingResponses = x] =
              [requests |-> q, outgoingBlocks |-> k, completedResponses |-> c,
               outgoingResponses |-> x, extensions |-> e]
         /\ [b EXCEPT !.extensions = x] =
              [requests |-> q, outgoingBlocks |-> k, completedResponses |-> c,
               outgoingResponses |-> p, extensions |-> x]
  OBVIOUS

\* The fields of a builder when the requests change.
LEMMA RequestsChanged ==
  ASSUME NEW b, NEW x, IsBuilder(b), NEW new,
         new = [b EXCEPT !.requests = x]
  PROVE  new = [requests |-> x, outgoingBlocks |-> b.outgoingBlocks,
                completedResponses |-> b.completedResponses,
                outgoingResponses |-> b.outgoingResponses,
                extensions |-> b.extensions]
<1>1. b = [requests |-> b.requests, outgoingBlocks |-> b.outgoingBlocks,
           completedResponses |-> b.completedResponses,
           outgoingResponses |-> b.outgoingResponses, extensions |-> b.extensions]
  BY DEF IsBuilder
<1> QED BY <1>1

\* The fields of a builder when the blocks change.
LEMMA BlocksChanged ==
  ASSUME NEW b, NEW x, IsBuilder(b), NEW new,
         new = [b EXCEPT !.outgoingBlocks = x]
  PROVE  new = [requests |-> b.requests, outgoingBlocks |-> x,
                completedResponses |-> b.completedResponses,
                outgoingResponses |-> b.outgoingResponses,
                extensions |-> b.extensions]
<1>1. b = [requests |-> b.requests, outgoingBlocks |-> b.outgoingBlocks,
           completedResponses |-> b.completedResponses,
           outgoingResponses |-> b.outgoingResponses, extensions |-> b.extensions]
  BY DEF IsBuilder
<1> QED BY <1>1

\* The fields of a builder when the links of responses change.
LEMMA LinksChanged ==
  ASSUME NEW b, NEW x, IsBuilder(b), NEW new,
         new = [b EXCEPT !.outgoingResponses = x]
  PROVE  new = [requests |-> b.requests, outgoingBlocks |-> b.outgoingBlocks,
                completedResponses |-> b.completedResponses, outgoingResponses |-> x,
                extensions |-> b.extensions]
<1>1. b = [requests |-> b.requests, outgoingBlocks |-> b.outgoingBlocks,
           completedResponses |-> b.completedResponses,
           outgoingResponses |-> b.outgoingResponses, extensions |-> b.extensions]
  BY DEF IsBuilder
<1> QED BY <1>1

\* The fields of a builder when the extensions of responses change.
LEMMA ExtensionsChanged ==
  ASSUME NEW b, NEW x, NEW y, IsBuilder(b), NEW new,
         new = [b EXCEPT !.extensions = x, !.outgoingResponses = y]
  PROVE  new = [requests |-> b.requests, outgoingBlocks |-> b.outgoingBlocks,
                completedResponses |-> b.completedResponses, outgoingResponses |-> y,
                extensions |-> x]
<1>1. b = [requests |-> b.requests, outgoingBlocks |-> b.outgoingBlocks,
           completedResponses |-> b.completedResponses,
           outgoingResponses |-> b.outgoingResponses, extensions |-> b.extensions]
  BY DEF IsBuilder
<1>2. PICK d1 : d1 = [b EXCEPT !.extensions = x]
  OBVIOUS
<1>3. d1 = [requests |-> b.requests, outgoingBlocks |-> b.outgoingBlocks,
             completedResponses |-> b.completedResponses,
             outgoingResponses |-> b.outgoingResponses, extensions |-> x]
  BY <1>1, <1>2, BuilderField, Zenon
<1>4. PICK d2 : d2 = [d1 EXCEPT !.outgoingResponses = y]
  OBVIOUS
<1>5. d2 = [requests |-> b.requests, outgoingBlocks |-> b.outgoingBlocks,
             completedResponses |-> b.completedResponses, outgoingResponses |-> y,
             extensions |-> x]
  BY <1>3, <1>4, BuilderField, Zenon
<1>6. new =
        [[b EXCEPT !.extensions = x] EXCEPT !.outgoingResponses = y]
  OBVIOUS
<1> QED BY <1>2, <1>4, <1>6, <1>5, Zenon

\* The fields of a builder when the codes of responses change.
LEMMA CodesChanged ==
  ASSUME NEW b, NEW x, NEW y, IsBuilder(b), NEW new,
         new = [b EXCEPT !.completedResponses = x, !.outgoingResponses = y]
  PROVE  new = [requests |-> b.requests, outgoingBlocks |-> b.outgoingBlocks,
                completedResponses |-> x, outgoingResponses |-> y,
                extensions |-> b.extensions]
<1>1. b = [requests |-> b.requests, outgoingBlocks |-> b.outgoingBlocks,
           completedResponses |-> b.completedResponses,
           outgoingResponses |-> b.outgoingResponses, extensions |-> b.extensions]
  BY DEF IsBuilder
<1>2. PICK d1 : d1 = [b EXCEPT !.completedResponses = x]
  OBVIOUS
<1>3. d1 = [requests |-> b.requests, outgoingBlocks |-> b.outgoingBlocks,
             completedResponses |-> x, outgoingResponses |-> b.outgoingResponses,
             extensions |-> b.extensions]
  BY <1>1, <1>2, BuilderField, Zenon
<1>4. PICK d2 : d2 = [d1 EXCEPT !.outgoingResponses = y]
  OBVIOUS
<1>5. d2 = [requests |-> b.requests, outgoingBlocks |-> b.outgoingBlocks,
             completedResponses |-> x, outgoingResponses |-> y,
             extensions |-> b.extensions]
  BY <1>3, <1>4, BuilderField, Zenon
<1>6. new =
        [[b EXCEPT !.completedResponses = x] EXCEPT !.outgoingResponses = y]
  OBVIOUS
<1> QED BY <1>2, <1>4, <1>6, <1>5, Zenon

\* The parts of a builder that is given by its fields.
LEMMA BuilderOf ==
  ASSUME NEW q, NEW k, NEW c, NEW p, NEW e,
         AreRequests(q), AreBlocks(k), IsMap(p), IsMap(e),
         \A id \in DOMAIN e : IsList(e[id])
  PROVE  LET b == [requests |-> q, outgoingBlocks |-> k, completedResponses |-> c,
                   outgoingResponses |-> p, extensions |-> e]
         IN  IsBuilder(b) /\ b.requests = q
<1>1. PICK b : b = [requests |-> q, outgoingBlocks |-> k, completedResponses |-> c,
                    outgoingResponses |-> p, extensions |-> e]
  OBVIOUS
<1>2. /\ b.requests = q /\ b.outgoingBlocks = k /\ b.completedResponses = c
      /\ b.outgoingResponses = p /\ b.extensions = e
  BY <1>1
<1>3. b = [requests |-> b.requests, outgoingBlocks |-> b.outgoingBlocks,
           completedResponses |-> b.completedResponses,
           outgoingResponses |-> b.outgoingResponses, extensions |-> b.extensions]
  BY <1>1, <1>2, Zenon
<1>4. IsBuilder(b)
  BY <1>2, <1>3, Zenon DEF IsBuilder
<1> QED BY <1>1, <1>2, <1>4, Zenon

\* A new builder, and one that a request is added to.
LEMMA BuilderWithRequest ==
  /\ IsBuilder(NewBuilder) /\ NewBuilder.requests = NoEntries
  /\ \A b, r : IsBuilder(b) /\ IsRequest(r) =>
       /\ IsBuilder(AddRequest(b, r))
       /\ AddRequest(b, r).requests = With(b.requests, r.id, r)
<1>1. AreRequests(NoEntries) /\ AreBlocks(NoEntries) /\ IsMap(NoEntries) /\ DOMAIN NoEntries = {}
  BY EmptyMap DEF AreRequests, AreBlocks
<1>2. IsBuilder(NewBuilder) /\ NewBuilder.requests = NoEntries
  BY <1>1, BuilderOf DEF NewBuilder
<1>3. ASSUME NEW b, NEW r, IsBuilder(b), IsRequest(r)
      PROVE  /\ IsBuilder(AddRequest(b, r))
             /\ AddRequest(b, r).requests = With(b.requests, r.id, r)
  <2>1. PICK q, old, id : q = With(old, id, r) /\ old = b.requests /\ id = r.id
    OBVIOUS
  <2>2. AreRequests(q)
    <3>1. AreRequests(old)
      BY <1>3, <2>1 DEF IsBuilder
    <3>2. /\ IsMap(q) /\ DOMAIN q = DOMAIN old \union {id} /\ q[id] = r
          /\ \A k \in DOMAIN old : k # id => q[k] = old[k]
      <4>1. IsMap(q)
        BY <2>1, <3>1, MapWith DEF AreRequests
      <4>2. q = [k \in DOMAIN old \union {id} |-> IF k = id THEN r ELSE old[k]]
        BY <2>1, WithIs, Zenon
      <4> QED BY <4>1, <4>2
    <3> QED BY <1>3, <2>1, <3>1, <3>2 DEF AreRequests
  <2>3. AddRequest(b, r) =
          [requests |-> q, outgoingBlocks |-> b.outgoingBlocks,
           completedResponses |-> b.completedResponses,
           outgoingResponses |-> b.outgoingResponses, extensions |-> b.extensions]
    BY <1>3, <2>1, RequestsChanged DEF AddRequest
  <2> QED BY <1>3, <2>1, <2>2, <2>3, BuilderOf DEF IsBuilder
<1> QED BY <1>2, <1>3

\* What a transaction adds to a builder leaves its requests alone.
LEMMA BuilderWithResponse ==
  ASSUME NEW b, NEW t \in Transactions, IsBuilder(b)
  PROVE  /\ IsBuilder(WithLink(b, t)) /\ WithLink(b, t).requests = b.requests
         /\ IsBuilder(WithExtensions(b, t)) /\ WithExtensions(b, t).requests = b.requests
         /\ IsBuilder(WithStatus(b, t)) /\ WithStatus(b, t).requests = b.requests
<1> DEFINE Rec(k, c, p, e) ==
             [requests |-> b.requests, outgoingBlocks |-> k, completedResponses |-> c,
              outgoingResponses |-> p, extensions |-> e]
<1>1. \A id, x : IsMap(With(b.outgoingResponses, id, x))
  <2>1. IsMap(b.outgoingResponses)
    BY DEF IsBuilder
  <2> QED BY <2>1, MapWith
<1>2. ASSUME NEW d, NEW id, NEW link, IsBuilder(d), d.requests = b.requests
      PROVE  IsBuilder(AddLink(d, id, link, "Present"))
             /\ AddLink(d, id, link, "Present").requests = b.requests
  <2>1. PICK p : p = With(d.outgoingResponses, id,
                          Append(ListOf(d.outgoingResponses, id),
                                 [link |-> link, action |-> "Present"]))
    OBVIOUS
  <2>2. AddLink(d, id, link, "Present") = [d EXCEPT !.outgoingResponses = p]
    BY <2>1 DEF AddLink
  <2>3. AddLink(d, id, link, "Present") =
          [requests |-> d.requests, outgoingBlocks |-> d.outgoingBlocks,
           completedResponses |-> d.completedResponses,
           outgoingResponses |-> p, extensions |-> d.extensions]
    BY <1>2, <2>2, LinksChanged
  <2>4. IsMap(p)
    BY <1>2, <2>1, MapWith DEF IsBuilder
  <2> QED BY <1>2, <2>3, <2>4, BuilderOf DEF IsBuilder
<1>3. ASSUME t.block # Nil
      PROVE  IsBuilder(WithLink(b, t)) /\ WithLink(b, t).requests = b.requests
  <2>1. IsBlock(t.block)
    BY <1>3, NetworkAssumption DEF IsBlock
  <2>2. IsBuilder(AddBlock(b, t.block)) /\ AddBlock(b, t.block).requests = b.requests
    <3>1. PICK k, old, cid, block :
            /\ k = With(old, cid, block)
            /\ old = b.outgoingBlocks /\ cid = t.block.cid /\ block = t.block
      OBVIOUS
    <3>2. AreBlocks(old)
      BY <3>1 DEF IsBuilder
    <3>3. /\ IsMap(k) /\ DOMAIN k = DOMAIN old \union {cid} /\ k[cid] = block
          /\ \A c \in DOMAIN old : c # cid => k[c] = old[c]
      <4>1. IsMap(k)
        BY <3>1, <3>2, MapWith DEF AreBlocks
      <4>2. k = [c \in DOMAIN old \union {cid} |-> IF c = cid THEN block ELSE old[c]]
        BY <3>1, WithIs, Zenon
      <4> QED BY <4>1, <4>2
    <3>4. AreBlocks(k)
      BY <2>1, <3>1, <3>2, <3>3 DEF AreBlocks
    <3>5. AddBlock(b, t.block) =
            [requests |-> b.requests, outgoingBlocks |-> k,
             completedResponses |-> b.completedResponses,
             outgoingResponses |-> b.outgoingResponses, extensions |-> b.extensions]
      BY <3>1, BlocksChanged DEF AddBlock
    <3> QED BY <3>4, <3>5, BuilderOf DEF IsBuilder
  <2>3. PICK d : d = IF t.sendBlock THEN AddBlock(b, t.block) ELSE b
    OBVIOUS
  <2>4. IsBuilder(d) /\ d.requests = b.requests
    BY <2>2, <2>3
  <2>5. WithLink(b, t) = AddLink(d, t.id, t.block.cid, "Present")
    BY <1>3, <2>3 DEF WithLink
  <2> QED BY <1>2, <2>4, <2>5
<1>4. IsBuilder(WithLink(b, t)) /\ WithLink(b, t).requests = b.requests
  <2>1. CASE t.block = Nil
    BY <2>1 DEF WithLink
  <2> QED BY <1>3, <2>1
<1>5. IsBuilder(WithExtensions(b, t)) /\ WithExtensions(b, t).requests = b.requests
  <2>1. CASE t.extension = Nil
    BY <2>1 DEF WithExtensions
  <2>2. CASE t.extension # Nil
    <3>1. PICK l : l = Append(ListOf(b.extensions, t.id), t.extension)
      OBVIOUS
    <3>2. PICK e, old, key : e = With(old, key, l) /\ old = b.extensions /\ key = t.id
      OBVIOUS
    <3>3. PICK p : p = With(b.outgoingResponses, t.id, ListOf(b.outgoingResponses, t.id))
      OBVIOUS
    <3>4. IsMap(p)
      BY <1>1, <3>3
    <3>5. IsList(l)
      <4>1. IsList(ListOf(b.extensions, t.id))
        BY Lists DEF ListOf, IsBuilder
      <4> QED BY <3>1, <4>1, Lists
    <3>6. /\ IsMap(e) /\ DOMAIN e = DOMAIN old \union {key} /\ e[key] = l
          /\ \A id \in DOMAIN old : id # key => e[id] = old[id]
      <4>1. IsMap(old)
        BY <3>2 DEF IsBuilder
      <4>2. IsMap(e)
        BY <3>2, <4>1, MapWith
      <4>3. e = [k \in DOMAIN old \union {key} |-> IF k = key THEN l ELSE old[k]]
        BY <3>2, WithIs, Zenon
      <4> QED BY <4>2, <4>3
    <3>7. \A id \in DOMAIN e : IsList(e[id])
      BY <3>2, <3>5, <3>6 DEF IsBuilder
    <3>8. WithExtensions(b, t) = [b EXCEPT !.extensions = e, !.outgoingResponses = p]
      BY <2>2, <3>1, <3>2, <3>3 DEF WithExtensions, AddExtensionData
    <3>9. WithExtensions(b, t) =
            [requests |-> b.requests, outgoingBlocks |-> b.outgoingBlocks,
             completedResponses |-> b.completedResponses,
             outgoingResponses |-> p, extensions |-> e]
      BY <3>8, ExtensionsChanged
    <3> QED BY <3>4, <3>6, <3>7, <3>9, BuilderOf DEF IsBuilder
  <2> QED BY <2>1, <2>2
<1>6. IsBuilder(WithStatus(b, t)) /\ WithStatus(b, t).requests = b.requests
  <2>1. CASE t.status = Nil
    BY <2>1 DEF WithStatus
  <2>2. CASE t.status # Nil
    <3>1. PICK p : p = With(b.outgoingResponses, t.id, ListOf(b.outgoingResponses, t.id))
      OBVIOUS
    <3>2. PICK c : c = With(b.completedResponses, t.id, t.status)
      OBVIOUS
    <3>3. WithStatus(b, t) = [b EXCEPT !.completedResponses = c, !.outgoingResponses = p]
      BY <2>2, <3>1, <3>2 DEF WithStatus, AddResponseCode
    <3>4. WithStatus(b, t) =
            [requests |-> b.requests, outgoingBlocks |-> b.outgoingBlocks,
             completedResponses |-> c, outgoingResponses |-> p, extensions |-> b.extensions]
      BY <3>3, CodesChanged
    <3>5. IsMap(p)
      BY <1>1, <3>1
    <3> QED BY <3>4, <3>5, BuilderOf DEF IsBuilder
  <2> QED BY <2>1, <2>2
<1> QED BY <1>4, <1>5, <1>6

\* Scrubbing responses leaves the requests of the message alone.
LEMMA BuilderScrubbed ==
  ASSUME NEW b, NEW ids, IsBuilder(b)
  PROVE  /\ IsBuilder(ScrubResponses(b, ids))
         /\ ScrubResponses(b, ids).requests = b.requests
<1>1. PICK c : c = Without(b.completedResponses, ids)
  OBVIOUS
<1>2. PICK e, old : e = Without(old, ids) /\ old = b.extensions
  OBVIOUS
<1>3. PICK p : p = Without(b.outgoingResponses, ids)
  OBVIOUS
<1>4. PICK k, blocks, left :
        /\ k = Without(blocks, left) /\ blocks = b.outgoingBlocks
        /\ ScrubResponses(b, ids) = [b EXCEPT !.completedResponses = c, !.extensions = e,
                                              !.outgoingResponses = p, !.outgoingBlocks = k]
  BY <1>1, <1>2, <1>3, Zenon DEF ScrubResponses
<1>5. IsMap(p)
  BY <1>3, MapWithout DEF IsBuilder
<1>6. IsMap(e) /\ \A id \in DOMAIN e : IsList(e[id])
  <2>1. IsMap(old) /\ \A id \in DOMAIN old : IsList(old[id])
    BY <1>2 DEF IsBuilder
  <2>2. /\ IsMap(e) /\ DOMAIN e = DOMAIN old \ ids
        /\ \A id \in DOMAIN old \ ids : e[id] = old[id]
    <3>1. IsMap(e)
      BY <1>2, <2>1, MapWithout
    <3>2. e = [key \in DOMAIN old \ ids |-> old[key]]
      BY <1>2 DEF Without
    <3> QED BY <3>1, <3>2
  <2> QED BY <2>1, <2>2
<1>7. AreBlocks(k)
  <2>1. AreBlocks(blocks)
    BY <1>4 DEF IsBuilder
  <2>2. /\ IsMap(k) /\ DOMAIN k = DOMAIN blocks \ left
        /\ \A x \in DOMAIN blocks \ left : k[x] = blocks[x]
    <3>1. IsMap(k)
      BY <1>4, <2>1, MapWithout DEF AreBlocks
    <3>2. k = [x \in DOMAIN blocks \ left |-> blocks[x]]
      BY <1>4, Zenon DEF Without
    <3> QED BY <3>1, <3>2
  <2> QED BY <2>1, <2>2 DEF AreBlocks
<1>8. ScrubResponses(b, ids) =
        [requests |-> b.requests, outgoingBlocks |-> k, completedResponses |-> c,
         outgoingResponses |-> p, extensions |-> e]
  <2>1. b = [requests |-> b.requests, outgoingBlocks |-> b.outgoingBlocks,
             completedResponses |-> b.completedResponses,
             outgoingResponses |-> b.outgoingResponses, extensions |-> b.extensions]
    BY DEF IsBuilder
  <2>2. PICK d1 : d1 = [b EXCEPT !.completedResponses = c]
    OBVIOUS
  <2>3. d1 = [requests |-> b.requests, outgoingBlocks |-> b.outgoingBlocks,
              completedResponses |-> c, outgoingResponses |-> b.outgoingResponses,
              extensions |-> b.extensions]
    BY <2>1, <2>2, BuilderField, Zenon
  <2>4. PICK d2 : d2 = [d1 EXCEPT !.extensions = e]
    OBVIOUS
  <2>5. d2 = [requests |-> b.requests, outgoingBlocks |-> b.outgoingBlocks,
              completedResponses |-> c, outgoingResponses |-> b.outgoingResponses,
              extensions |-> e]
    BY <2>3, <2>4, BuilderField, Zenon
  <2>6. PICK d3 : d3 = [d2 EXCEPT !.outgoingResponses = p]
    OBVIOUS
  <2>7. d3 = [requests |-> b.requests, outgoingBlocks |-> b.outgoingBlocks,
              completedResponses |-> c, outgoingResponses |-> p, extensions |-> e]
    BY <2>5, <2>6, BuilderField, Zenon
  <2>8. PICK d4 : d4 = [d3 EXCEPT !.outgoingBlocks = k]
    OBVIOUS
  <2>9. d4 = [requests |-> b.requests, outgoingBlocks |-> k, completedResponses |-> c,
              outgoingResponses |-> p, extensions |-> e]
    BY <2>7, <2>8, BuilderField, Zenon
  <2>10. ScrubResponses(b, ids) =
           [[[[b EXCEPT !.completedResponses = c] EXCEPT !.extensions = e]
               EXCEPT !.outgoingResponses = p] EXCEPT !.outgoingBlocks = k]
    BY <1>4
  <2> QED BY <2>2, <2>4, <2>6, <2>8, <2>9, <2>10, Zenon
<1> QED BY <1>5, <1>6, <1>7, <1>8, BuilderOf DEF IsBuilder

\* A builder builds a message that can be encoded.
LEMMA Builds ==
  /\ IsMessage(NoMessage) /\ NoMessage.requests = NoEntries
  /\ \A b : IsBuilder(b) => IsMessage(Build(b)) /\ Build(b).requests = b.requests
<1>1. ASSUME NEW q, NEW p, NEW k, AreRequests(q), AreResponses(p), AreBlocks(k)
      PROVE  LET m == [requests |-> q, responses |-> p, blocks |-> k]
             IN  IsMessage(m) /\ m.requests = q
  <2>1. PICK m : m = [requests |-> q, responses |-> p, blocks |-> k]
    OBVIOUS
  <2>2. m.requests = q /\ m.responses = p /\ m.blocks = k
    BY <2>1
  <2>3. m = [requests |-> m.requests, responses |-> m.responses, blocks |-> m.blocks]
    BY <2>1, <2>2, Zenon
  <2> QED BY <1>1, <2>1, <2>2, <2>3, Zenon DEF IsMessage
<1>2. IsMessage(NoMessage) /\ NoMessage.requests = NoEntries
  <2>1. AreRequests(NoEntries) /\ AreResponses(NoEntries) /\ AreBlocks(NoEntries)
    BY EmptyMap DEF AreRequests, AreResponses, AreBlocks
  <2> QED BY <1>1, <2>1 DEF NoMessage
<1>3. ASSUME NEW b, IsBuilder(b)
      PROVE  IsMessage(Build(b)) /\ Build(b).requests = b.requests
  <2> DEFINE R(id) == NewResponse(id, ResponseCode(b, id), b.outgoingResponses[id],
                                  ListOf(b.extensions, id))
  <2>1. PICK p : p = [id \in DOMAIN b.outgoingResponses |-> R(id)]
    OBVIOUS
  <2>2. Build(b) = [requests |-> b.requests, responses |-> p, blocks |-> b.outgoingBlocks]
    BY <2>1 DEF Build
  <2>3. \A id \in DOMAIN b.outgoingResponses : IsResponse(R(id)) /\ R(id).requestID = id
    <3> TAKE id \in DOMAIN b.outgoingResponses
    <3>1. IsList(ListOf(b.extensions, id))
      BY <1>3, Lists DEF ListOf, IsBuilder
    <3>2. PICK e : e = ToExtensionsMap(ListOf(b.extensions, id))
      OBVIOUS
    <3>3. IsMap(e)
      BY <3>1, <3>2, Lists, ExtensionsMap
    <3>4. PICK r : r = R(id)
      OBVIOUS
    <3>5. r = [requestID |-> id, status |-> ResponseCode(b, id),
               metadata |-> b.outgoingResponses[id], extensions |-> e]
      BY <3>2, <3>4 DEF NewResponse
    <3> HIDE DEF R
    <3>6. /\ r.requestID = id /\ r.extensions = e /\ r.status = ResponseCode(b, id)
          /\ r.metadata = b.outgoingResponses[id]
      BY <3>5
    <3>7. r = [requestID |-> r.requestID, status |-> r.status, metadata |-> r.metadata,
               extensions |-> r.extensions]
      BY <3>5, <3>6, Zenon
    <3> QED BY <3>3, <3>4, <3>6, <3>7, Zenon DEF IsResponse
  <2> HIDE DEF R
  <2>4. DOMAIN p = DOMAIN b.outgoingResponses /\ \A id \in DOMAIN p : p[id] = R(id)
    BY <2>1
  <2>5. IsMap(p)
    <3>1. p = [id \in DOMAIN p |-> p[id]]
      BY <2>1
    <3> QED BY <1>3, <2>4, <3>1 DEF IsMap, IsBuilder
  <2>6. AreResponses(p)
    BY <2>3, <2>4, <2>5 DEF AreResponses
  <2> QED BY <1>1, <1>3, <2>2, <2>6 DEF IsBuilder
<1> QED BY <1>2, <1>3

-----------------------------------------------------------------------------
(* The streams *)

Statuses == {"open", "closed", "reset"}

Readers == {"reading", "received", "ended", "failed", "reported"}

\* What messages of a set look like on the wire.
Encoded(messages) == {ToIPLD(m) : m \in messages}

\* A stream that carries messages of a set.
StreamOf(messages) ==
  [status : Statuses, wire : Seq(Encoded(messages)), reader : Readers,
   received : messages \union {NoMessage}]

\* One stream has changed, and has these fields now.
Changed(old, new, s, status, wire, reader, received) ==
  /\ DOMAIN new = DOMAIN old /\ Len(new) = Len(old)
  /\ new[s].status = status /\ new[s].wire = wire
  /\ new[s].reader = reader /\ new[s].received = received
  /\ \A i \in DOMAIN old : i # s => new[i] = old[i]

\* The fields of a stream.
LEMMA StreamFields ==
  ASSUME NEW B, NEW x \in StreamOf(B)
  PROVE  /\ x.status \in Statuses /\ x.wire \in Seq(Encoded(B))
         /\ x.reader \in Readers /\ x.received \in B \union {NoMessage}
  BY DEF StreamOf

\* A stream is replaced by another one.
LEMMA StreamReplaced ==
  ASSUME NEW B, NEW old \in Seq(StreamOf(B)), NEW s \in DOMAIN old, NEW x \in StreamOf(B),
         NEW new, new = [old EXCEPT ![s] = x]
  PROVE  /\ new \in Seq(StreamOf(B))
         /\ Changed(old, new, s, x.status, x.wire, x.reader, x.received)
<1>1. s \in 1..Len(old) /\ DOMAIN old = 1..Len(old)
  OBVIOUS
<1>2. /\ new \in Seq(StreamOf(B)) /\ Len(new) = Len(old)
      /\ \A j \in 1..Len(old) : new[j] = IF j = s THEN x ELSE old[j]
  BY <1>1, ExceptSeq
<1>3. DOMAIN new = DOMAIN old
  OBVIOUS
<1> QED BY <1>1, <1>2, <1>3 DEF Changed

\* A stream of a sequence.
LEMMA StreamAt ==
  ASSUME NEW B, NEW old \in Seq(StreamOf(B)), NEW s \in DOMAIN old
  PROVE  /\ old[s] \in StreamOf(B)
         /\ old[s].status \in Statuses /\ old[s].wire \in Seq(Encoded(B))
         /\ old[s].reader \in Readers /\ old[s].received \in B \union {NoMessage}
<1>1. old[s] \in StreamOf(B)
  BY LenProperties, ElementOfSeq
<1> QED BY <1>1, StreamFields

\* The status of a stream is changed.
LEMMA StatusChanged ==
  ASSUME NEW B, NEW old \in Seq(StreamOf(B)), NEW s \in DOMAIN old,
         NEW x \in Statuses, NEW new, new = [old EXCEPT ![s].status = x]
  PROVE  /\ new \in Seq(StreamOf(B))
         /\ Changed(old, new, s, x, old[s].wire, old[s].reader, old[s].received)
<1>1. PICK f : f = old[s]
  OBVIOUS
<1>2. f \in StreamOf(B)
  BY <1>1, StreamAt
<1>3. PICK e : e = [f EXCEPT !.status = x]
  OBVIOUS
<1>4. /\ e \in StreamOf(B)
      /\ e.status = x /\ e.wire = f.wire /\ e.reader = f.reader /\ e.received = f.received
  BY <1>2, <1>3 DEF StreamOf
<1>5. new = [old EXCEPT ![s] = e]
  BY <1>1, <1>3
<1>6. new \in Seq(StreamOf(B)) /\ Changed(old, new, s, e.status, e.wire, e.reader, e.received)
  BY <1>4, <1>5, StreamReplaced
<1> QED BY <1>1, <1>4, <1>6, Zenon

\* The wire of a stream is changed.
LEMMA WireChanged ==
  ASSUME NEW B, NEW old \in Seq(StreamOf(B)), NEW s \in DOMAIN old,
         NEW x \in Seq(Encoded(B)), NEW new, new = [old EXCEPT ![s].wire = x]
  PROVE  /\ new \in Seq(StreamOf(B))
         /\ Changed(old, new, s, old[s].status, x, old[s].reader, old[s].received)
<1>1. PICK f : f = old[s]
  OBVIOUS
<1>2. f \in StreamOf(B)
  BY <1>1, StreamAt
<1>3. PICK e : e = [f EXCEPT !.wire = x]
  OBVIOUS
<1>4. /\ e \in StreamOf(B)
      /\ e.status = f.status /\ e.wire = x /\ e.reader = f.reader /\ e.received = f.received
  BY <1>2, <1>3 DEF StreamOf
<1>5. new = [old EXCEPT ![s] = e]
  BY <1>1, <1>3
<1>6. new \in Seq(StreamOf(B)) /\ Changed(old, new, s, e.status, e.wire, e.reader, e.received)
  BY <1>4, <1>5, StreamReplaced
<1> QED BY <1>1, <1>4, <1>6, Zenon

\* The state of the reader of a stream is changed.
LEMMA ReaderChanged ==
  ASSUME NEW B, NEW old \in Seq(StreamOf(B)), NEW s \in DOMAIN old,
         NEW x \in Readers, NEW new, new = [old EXCEPT ![s].reader = x]
  PROVE  /\ new \in Seq(StreamOf(B))
         /\ Changed(old, new, s, old[s].status, old[s].wire, x, old[s].received)
<1>1. PICK f : f = old[s]
  OBVIOUS
<1>2. f \in StreamOf(B)
  BY <1>1, StreamAt
<1>3. PICK e : e = [f EXCEPT !.reader = x]
  OBVIOUS
<1>4. /\ e \in StreamOf(B)
      /\ e.status = f.status /\ e.wire = f.wire /\ e.reader = x /\ e.received = f.received
  BY <1>2, <1>3 DEF StreamOf
<1>5. new = [old EXCEPT ![s] = e]
  BY <1>1, <1>3
<1>6. new \in Seq(StreamOf(B)) /\ Changed(old, new, s, e.status, e.wire, e.reader, e.received)
  BY <1>4, <1>5, StreamReplaced
<1> QED BY <1>1, <1>4, <1>6, Zenon

\* The received message of a stream is changed.
LEMMA ReceivedChanged ==
  ASSUME NEW B, NEW old \in Seq(StreamOf(B)), NEW s \in DOMAIN old,
         NEW x \in B \union {NoMessage}, NEW new, new = [old EXCEPT ![s].received = x]
  PROVE  /\ new \in Seq(StreamOf(B))
         /\ Changed(old, new, s, old[s].status, old[s].wire, old[s].reader, x)
<1>1. PICK f : f = old[s]
  OBVIOUS
<1>2. f \in StreamOf(B)
  BY <1>1, StreamAt
<1>3. PICK e : e = [f EXCEPT !.received = x]
  OBVIOUS
<1>4. /\ e \in StreamOf(B)
      /\ e.status = f.status /\ e.wire = f.wire /\ e.reader = f.reader /\ e.received = x
  BY <1>2, <1>3 DEF StreamOf
<1>5. new = [old EXCEPT ![s] = e]
  BY <1>1, <1>3
<1>6. new \in Seq(StreamOf(B)) /\ Changed(old, new, s, e.status, e.wire, e.reader, e.received)
  BY <1>4, <1>5, StreamReplaced
<1> QED BY <1>1, <1>4, <1>6, Zenon

\* SendMsg writes the message on the stream.
LEMMA WriteEffect ==
  ASSUME NEW B, streams \in Seq(StreamOf(B)), NEW s \in DOMAIN streams, sending \in B,
         NEW new, new = Write(s)
  PROVE  /\ new \in Seq(StreamOf(B))
         /\ Changed(streams, new, s, streams[s].status,
                    Append(streams[s].wire, ToIPLD(sending)), streams[s].reader,
                    streams[s].received)
<1>1. PICK x : x = Append(streams[s].wire, ToIPLD(sending))
  OBVIOUS
<1>2. x \in Seq(Encoded(B))
  <2>1. streams[s].wire \in Seq(Encoded(B))
    BY StreamAt
  <2>2. ToIPLD(sending) \in Encoded(B)
    BY DEF Encoded
  <2> QED BY <1>1, <2>1, <2>2
<1>3. new = [streams EXCEPT ![s].wire = x]
  BY <1>1 DEF Write
<1> QED BY <1>1, <1>2, <1>3, WireChanged, Zenon

\* Reset and Close of a stream.
LEMMA CloseEffect ==
  ASSUME NEW B, NEW old \in Seq(StreamOf(B)), NEW s \in DOMAIN old, NEW new
  PROVE  /\ new = Reset(s, old) =>
              /\ new \in Seq(StreamOf(B))
              /\ Changed(old, new, s, IF old[s].status = "open" THEN "reset" ELSE old[s].status,
                         old[s].wire, old[s].reader, old[s].received)
         /\ new = Close(s, old) =>
              /\ new \in Seq(StreamOf(B))
              /\ Changed(old, new, s,
                         IF old[s].status = "open" THEN "closed" ELSE old[s].status,
                         old[s].wire, old[s].reader, old[s].received)
<1>1. old[s].status \in Statuses
  BY StreamAt
<1>2. ASSUME new = Reset(s, old)
      PROVE  /\ new \in Seq(StreamOf(B))
             /\ Changed(old, new, s, IF old[s].status = "open" THEN "reset" ELSE old[s].status,
                        old[s].wire, old[s].reader, old[s].received)
  <2>1. PICK x : x = IF old[s].status = "open" THEN "reset" ELSE old[s].status
    OBVIOUS
  <2>2. x \in Statuses
    BY <1>1, <2>1 DEF Statuses
  <2>3. new = [old EXCEPT ![s].status = x]
    BY <1>2, <2>1 DEF Reset
  <2>4. /\ new \in Seq(StreamOf(B))
        /\ Changed(old, new, s, x, old[s].wire, old[s].reader, old[s].received)
    BY <2>2, <2>3, StatusChanged
  <2> QED BY <2>1, <2>4
<1>3. ASSUME new = Close(s, old)
      PROVE  /\ new \in Seq(StreamOf(B))
             /\ Changed(old, new, s, IF old[s].status = "open" THEN "closed" ELSE old[s].status,
                        old[s].wire, old[s].reader, old[s].received)
  <2>1. PICK x : x = IF old[s].status = "open" THEN "closed" ELSE old[s].status
    OBVIOUS
  <2>2. x \in Statuses
    BY <1>1, <2>1 DEF Statuses
  <2>3. new = [old EXCEPT ![s].status = x]
    BY <1>3, <2>1 DEF Close
  <2>4. /\ new \in Seq(StreamOf(B))
        /\ Changed(old, new, s, x, old[s].wire, old[s].reader, old[s].received)
    BY <2>2, <2>3, StatusChanged
  <2> QED BY <2>1, <2>4
<1> QED BY <1>2, <1>3, Zenon

\* FromMsgReader takes a message off the wire.
LEMMA ReadEffect ==
  ASSUME NEW B, streams \in Seq(StreamOf(B)), NEW s \in DOMAIN streams,
         streams[s].wire # <<>>, NEW m \in B, NEW new,
         new = [streams EXCEPT ![s].wire = Tail(@), ![s].received = m,
                               ![s].reader = "received"]
  PROVE  /\ new \in Seq(StreamOf(B))
         /\ Changed(streams, new, s, streams[s].status, Tail(streams[s].wire), "received", m)
<1>1. PICK st, x : st = streams[s].status /\ x = Tail(streams[s].wire)
  OBVIOUS
<1>2. x \in Seq(Encoded(B))
  <2>1. streams[s].wire \in Seq(Encoded(B))
    BY StreamAt
  <2> QED BY <1>1, <2>1
<1>3. PICK d1 : d1 = [streams EXCEPT ![s].wire = x]
  OBVIOUS
<1>4. d1 \in Seq(StreamOf(B))
      /\ Changed(streams, d1, s, st, x, streams[s].reader, streams[s].received)
  BY <1>1, <1>2, <1>3, WireChanged
<1>5. s \in DOMAIN d1 /\ d1[s].status = st /\ d1[s].wire = x
  BY <1>4 DEF Changed
<1>6. PICK d2 : d2 = [d1 EXCEPT ![s].received = m]
  OBVIOUS
<1>7. d2 \in Seq(StreamOf(B)) /\ Changed(d1, d2, s, st, x, d1[s].reader, m)
  <2>1. m \in B \union {NoMessage}
    OBVIOUS
  <2> QED BY <1>4, <1>5, <1>6, <2>1, ReceivedChanged
<1>8. s \in DOMAIN d2 /\ d2[s].status = st /\ d2[s].wire = x /\ d2[s].received = m
  BY <1>5, <1>7 DEF Changed
<1>9. PICK d3, rd : d3 = [d2 EXCEPT ![s].reader = rd] /\ rd = "received"
  OBVIOUS
<1>10. d3 \in Seq(StreamOf(B)) /\ Changed(d2, d3, s, st, x, rd, m)
  <2>1. rd \in Readers
    BY <1>9 DEF Readers
  <2>2. d3 \in Seq(StreamOf(B))
        /\ Changed(d2, d3, s, d2[s].status, d2[s].wire, rd, d2[s].received)
    BY <1>7, <1>8, <1>9, <2>1, ReaderChanged, Zenon
  <2> QED BY <1>8, <2>2, Zenon
<1>11. Changed(streams, d3, s, st, x, rd, m)
  <2>1. Changed(streams, d2, s, st, x, d1[s].reader, m)
    BY <1>4, <1>7 DEF Changed
  <2> QED BY <1>10, <2>1 DEF Changed
<1>12. new = d3
  <2>1. new = [[[streams EXCEPT ![s].wire = x] EXCEPT ![s].received = m]
                 EXCEPT ![s].reader = "received"]
    BY <1>1
  <2> QED BY <1>3, <1>6, <1>9, <2>1, Zenon
<1> QED BY <1>1, <1>9, <1>10, <1>11, <1>12, Zenon

\* handleNewStream ends for an error.
LEMMA ReadErrorEffect ==
  ASSUME NEW B, streams \in Seq(StreamOf(B)), NEW s \in DOMAIN streams, NEW new,
         new = [Reset(s, streams) EXCEPT ![s].reader = AfterReadError, ![s].wire = <<>>]
  PROVE  /\ new \in Seq(StreamOf(B))
         /\ Changed(streams, new, s,
                    IF streams[s].status = "open" THEN "reset" ELSE streams[s].status,
                    <<>>, "failed", streams[s].received)
<1>1. PICK st, rc : /\ st = IF streams[s].status = "open" THEN "reset" ELSE streams[s].status
                    /\ rc = streams[s].received
  OBVIOUS
<1>2. PICK d1 : d1 = Reset(s, streams)
  OBVIOUS
<1>3. d1 \in Seq(StreamOf(B))
      /\ Changed(streams, d1, s, st, streams[s].wire, streams[s].reader, rc)
  BY <1>1, <1>2, CloseEffect
<1>4. s \in DOMAIN d1 /\ d1[s].status = st /\ d1[s].received = rc
  BY <1>3 DEF Changed
<1>5. PICK d2 : d2 = [d1 EXCEPT ![s].reader = "failed"]
  OBVIOUS
<1>6. d2 \in Seq(StreamOf(B)) /\ Changed(d1, d2, s, st, d1[s].wire, "failed", rc)
  <2>1. "failed" \in Readers
    BY DEF Readers
  <2> QED BY <1>3, <1>4, <1>5, <2>1, ReaderChanged
<1>7. s \in DOMAIN d2 /\ d2[s].status = st /\ d2[s].reader = "failed" /\ d2[s].received = rc
  BY <1>4, <1>6 DEF Changed
<1>8. PICK d3, w : d3 = [d2 EXCEPT ![s].wire = w] /\ w = <<>>
  OBVIOUS
<1>9. d3 \in Seq(StreamOf(B)) /\ Changed(d2, d3, s, st, w, "failed", rc)
  <2>1. w \in Seq(Encoded(B))
    BY <1>8
  <2>2. d3 \in Seq(StreamOf(B))
        /\ Changed(d2, d3, s, d2[s].status, w, d2[s].reader, d2[s].received)
    BY <1>6, <1>7, <1>8, <2>1, WireChanged, Zenon
  <2> QED BY <1>7, <2>2, Zenon
<1>10. Changed(streams, d3, s, st, w, "failed", rc)
  <2>1. Changed(streams, d2, s, st, d1[s].wire, "failed", rc)
    BY <1>3, <1>6 DEF Changed
  <2> QED BY <1>9, <2>1 DEF Changed
<1>11. new = d3
  <2>1. new = [d1 EXCEPT ![s].reader = "failed", ![s].wire = <<>>]
    BY <1>2, Zenon DEF AfterReadError
  <2>2. new = [[d1 EXCEPT ![s].reader = "failed"] EXCEPT ![s].wire = <<>>]
    BY <2>1
  <2> QED BY <1>5, <1>8, <2>2, Zenon
<1>12. Changed(streams, new, s, st, <<>>, "failed", rc)
  BY <1>8, <1>10, <1>11, Zenon
<1> QED BY <1>1, <1>9, <1>11, <1>12

\* ReceiveMessage returns to the loop of handleNewStream.
LEMMA ReceiveEffect ==
  ASSUME NEW B, streams \in Seq(StreamOf(B)), NEW s \in DOMAIN streams, NEW new,
         new = [streams EXCEPT ![s].reader = AfterMessage, ![s].received = NoMessage]
  PROVE  /\ new \in Seq(StreamOf(B))
         /\ Changed(streams, new, s, streams[s].status, streams[s].wire, "reading", NoMessage)
<1>1. PICK st, w : st = streams[s].status /\ w = streams[s].wire
  OBVIOUS
<1>2. PICK d1 : d1 = [streams EXCEPT ![s].reader = "reading"]
  OBVIOUS
<1>3. d1 \in Seq(StreamOf(B)) /\ Changed(streams, d1, s, st, w, "reading", streams[s].received)
  <2>1. "reading" \in Readers
    BY DEF Readers
  <2> QED BY <1>1, <1>2, <2>1, ReaderChanged
<1>4. s \in DOMAIN d1 /\ d1[s].status = st /\ d1[s].wire = w /\ d1[s].reader = "reading"
  BY <1>3 DEF Changed
<1>5. PICK d2, none : d2 = [d1 EXCEPT ![s].received = none] /\ none = NoMessage
  OBVIOUS
<1>6. d2 \in Seq(StreamOf(B)) /\ Changed(d1, d2, s, st, w, "reading", none)
  <2>1. none \in B \union {NoMessage}
    BY <1>5
  <2>2. d2 \in Seq(StreamOf(B))
        /\ Changed(d1, d2, s, d1[s].status, d1[s].wire, d1[s].reader, none)
    BY <1>3, <1>4, <1>5, <2>1, ReceivedChanged, Zenon
  <2> QED BY <1>4, <2>2, Zenon
<1>7. Changed(streams, d2, s, st, w, "reading", none)
  BY <1>3, <1>6 DEF Changed
<1>8. new = d2
  <2>1. new = [streams EXCEPT ![s].reader = "reading", ![s].received = none]
    BY <1>5, Zenon DEF AfterMessage
  <2>2. new = [[streams EXCEPT ![s].reader = "reading"] EXCEPT ![s].received = none]
    BY <2>1
  <2> QED BY <1>2, <1>5, <2>2, Zenon
<1> QED BY <1>1, <1>5, <1>6, <1>7, <1>8, Zenon

-----------------------------------------------------------------------------
(* What is delivered was built *)

\* A message is being sent between TakeWork and Return.
Sending == pc \in {"open", "send"}

\* What is built and sent can be encoded.
QueueShape ==
  /\ IsBuilder(builder)
  /\ pc \in {"select", "open", "send", "stopped"}
  /\ \A m \in built : IsMessage(m)
  /\ Sending => sending \in built
  /\ ~Sending => sending = NoMessage

\* The streams carry what was built, and the queue has its stream when it sends.
StreamShape ==
  /\ streams \in Seq(StreamOf(built))
  /\ \A s \in DOMAIN streams : streams[s].reader = "received" => streams[s].received \in built
  /\ sender \in 0..Len(streams)
  /\ pc = "send" => sender # 0

LogShape ==
  /\ IsList(responseManager) /\ IsList(requestManager) /\ IsList(sent)
  /\ told = [id \in IDs |-> told[id]]
  /\ \A id \in IDs : IsList(told[id])

\* The inductive invariant for what is delivered.
BInv == QueueShape /\ StreamShape /\ LogShape /\ DeliveredAsBuilt

\* What a stream carries may be one of more messages.
LEMMA StreamsGrow ==
  ASSUME NEW B, NEW C, B \subseteq C
  PROVE  Seq(StreamOf(B)) \subseteq Seq(StreamOf(C))
<1>1. Encoded(B) \subseteq Encoded(C)
  BY DEF Encoded
<1>2. Seq(Encoded(B)) \subseteq Seq(Encoded(C))
  BY <1>1, SeqMonotonic
<1>3. StreamOf(B) \subseteq StreamOf(C)
  BY <1>2 DEF StreamOf
<1> QED BY <1>3, SeqMonotonic

\* A new stream carries nothing.
LEMMA StreamOpened ==
  ASSUME NEW B, NEW old \in Seq(StreamOf(B)), NEW new, new = Append(old, NewStream)
  PROVE  /\ new \in Seq(StreamOf(B)) /\ Len(new) = Len(old) + 1 /\ Len(old) \in Nat
         /\ DOMAIN new = 1..Len(new) /\ DOMAIN old = 1..Len(old)
         /\ \A i \in DOMAIN old : new[i] = old[i]
         /\ new[Len(old) + 1].status = "open" /\ new[Len(old) + 1].wire = <<>>
         /\ new[Len(old) + 1].reader = "reading"
<1>1. PICK x : x = NewStream
  OBVIOUS
<1>2. x \in StreamOf(B) /\ x.status = "open" /\ x.wire = <<>> /\ x.reader = "reading"
  BY <1>1 DEF NewStream, StreamOf, Statuses, Readers
<1>3. new = Append(old, x)
  BY <1>1
<1>4. /\ new \in Seq(StreamOf(B)) /\ Len(new) = Len(old) + 1
      /\ \A i \in 1..Len(old) : new[i] = old[i]
      /\ new[Len(old) + 1] = x
  BY <1>2, <1>3, AppendProperties
<1>5. Len(old) \in Nat /\ DOMAIN new = 1..Len(new) /\ DOMAIN old = 1..Len(old)
  BY <1>4
<1> QED BY <1>2, <1>4, <1>5

\* The invariant holds at the start.
LEMMA InitBInv == Init => BInv
<1> SUFFICES ASSUME Init PROVE BInv
  OBVIOUS
<1>1. QueueShape
  BY BuilderWithRequest DEF Init, QueueShape, Sending
<1>2. StreamShape
  <2>1. streams = <<>> /\ sender = 0 /\ pc = "select"
    BY DEF Init
  <2>2. streams \in Seq(StreamOf(built)) /\ Len(streams) = 0 /\ DOMAIN streams = {}
    BY <2>1
  <2> QED BY <2>1, <2>2 DEF StreamShape
<1>3. LogShape
  <2>1. told = [id \in IDs |-> <<>>] /\ responseManager = <<>> /\ requestManager = <<>>
        /\ sent = <<>>
    BY DEF Init
  <2>2. told = [id \in IDs |-> told[id]] /\ \A id \in IDs : told[id] = <<>>
    BY <2>1
  <2> QED BY <2>1, <2>2, Lists DEF LogShape
<1>4. DeliveredAsBuilt
  <2>1. DOMAIN responseManager = {} /\ DOMAIN requestManager = {}
    BY DEF Init
  <2> QED BY <2>1 DEF DeliveredAsBuilt
<1> QED BY <1>1, <1>2, <1>3, <1>4 DEF BInv

\* The manager of requests adds a request to the message.
LEMMA SendRequestBInv ==
  ASSUME BInv, NEW q, IsRequest(q), q.id \in IDs, SendRequest(q)
  PROVE  BInv' /\ builder'.requests = With(builder.requests, q.id, q)
<1>1. IsBuilder(builder') /\ builder'.requests = With(builder.requests, q.id, q)
  BY BuilderWithRequest DEF SendRequest, BInv, QueueShape
<1>2. /\ UNCHANGED <<pc, sending, sender, streams, built, sent>>
      /\ UNCHANGED <<responseManager, requestManager>>
  BY DEF SendRequest, queueVars, managers
<1>3. QueueShape' /\ StreamShape' /\ DeliveredAsBuilt'
  BY <1>1, <1>2 DEF BInv, QueueShape, StreamShape, DeliveredAsBuilt, Sending
<1>4. LogShape'
  <2>1. told' = [told EXCEPT ![q.id] = Append(told[q.id], q)]
    BY DEF SendRequest
  <2>2. IsList(Append(told[q.id], q))
    BY Lists DEF BInv, LogShape
  <2>3. told' = [id \in IDs |-> told'[id]]
        /\ \A id \in IDs : told'[id] = IF id = q.id THEN Append(told[q.id], q) ELSE told[id]
    BY <2>1 DEF BInv, LogShape
  <2>4. IDs' = IDs
    BY DEF IDs
  <2> QED BY <1>2, <2>2, <2>3, <2>4 DEF BInv, LogShape
<1> QED BY <1>1, <1>3, <1>4 DEF BInv


\* The managers only add to the message.
LEMMA ManagersBInv ==
  ASSUME BInv, Managers
  PROVE  BInv'
<1>1. ASSUME NEW r \in Requests,
             \/ StartRequest(r) \/ CancelRequest(r) \/ ResumeRequest(r)
             \/ \E u \in Updates : UpdateRequest(r, u)
      PROVE  BInv'
  <2>1. r.id \in IDs
    BY DEF IDs
  <2>2. PICK q : SendRequest(q) /\ IsRequest(q) /\ q.id = r.id
    BY <1>1, RequestsAreWellFormed
      DEF StartRequest, CancelRequest, ResumeRequest, UpdateRequest
  <2> QED BY <2>1, <2>2, SendRequestBInv
<1>2. ASSUME NEW t \in Transactions, Transaction(t)
      PROVE  BInv'
  <2>1. IsBuilder(builder')
    <3>1. builder' = WithStatus(WithExtensions(WithLink(builder, t), t), t)
      BY <1>2 DEF Transaction
    <3>2. IsBuilder(WithLink(builder, t))
      BY BuilderWithResponse DEF BInv, QueueShape
    <3>3. IsBuilder(WithExtensions(WithLink(builder, t), t))
      BY <3>2, BuilderWithResponse
    <3> QED BY <3>1, <3>3, BuilderWithResponse
  <2>2. /\ UNCHANGED <<pc, sending, sender, streams, built, sent, told>>
        /\ UNCHANGED <<responseManager, requestManager>>
    BY <1>2 DEF Transaction, queueVars, managers, history
  <2> QED BY <2>1, <2>2 DEF BInv, QueueShape, StreamShape, LogShape, DeliveredAsBuilt, Sending,
                            IDs
<1> QED BY <1>1, <1>2 DEF Managers

\* Publishing an error leaves a message that can be built.
LEMMA PublishErrorShape ==
  ASSUME IsBuilder(builder), PublishError
  PROVE  IsBuilder(builder') /\ builder'.requests = builder.requests
  BY BuilderScrubbed DEF PublishError

\* TakeWork and the end of the queue.
LEMMA QueueBInv ==
  ASSUME BInv, TakeWork \/ StopOnDone \/ StopOnContext \/ Shutdown \/ CancelContext
  PROVE  BInv'
<1>1. CASE TakeWork
  <2>1. PICK m : m = Build(builder)
    OBVIOUS
  <2>2. IsMessage(m)
    BY <2>1, Builds DEF BInv, QueueShape
  <2>3. /\ sending' = m /\ built' = built \union {m} /\ builder' = NewBuilder
        /\ pc = "select" /\ pc' = "open"
        /\ UNCHANGED <<sender, streams, sent, told, responseManager, requestManager>>
    BY <1>1, <2>1 DEF TakeWork, managers
  <2>4. QueueShape'
    BY <2>2, <2>3, BuilderWithRequest DEF BInv, QueueShape, Sending
  <2>5. StreamShape'
    <3>1. streams' \in Seq(StreamOf(built'))
      BY <2>3, StreamsGrow DEF BInv, StreamShape
    <3> QED BY <2>3, <3>1 DEF BInv, StreamShape
  <2>6. LogShape' /\ DeliveredAsBuilt'
    BY <2>3 DEF BInv, LogShape, DeliveredAsBuilt, IDs
  <2> QED BY <2>4, <2>5, <2>6 DEF BInv
<1>2. ASSUME StopOnDone \/ StopOnContext
      PROVE  BInv'
  <2>1. /\ pc = "select" /\ pc' = "stopped"
        /\ UNCHANGED <<sending, sender, built, sent, told, responseManager, requestManager>>
    BY <1>2 DEF StopOnDone, StopOnContext, managers, history
  <2>2. IsBuilder(builder')
    BY <1>2, BuilderWithRequest DEF StopOnDone, StopOnContext, BInv, QueueShape
  <2>3. QueueShape' /\ LogShape' /\ DeliveredAsBuilt'
    BY <2>1, <2>2 DEF BInv, QueueShape, LogShape, DeliveredAsBuilt, Sending, IDs
  <2>4. StreamShape'
    <3>1. CASE sender = 0
      <4>1. streams' = streams
        BY <1>2, <3>1 DEF StopOnDone, StopOnContext
      <4> QED BY <2>1, <4>1 DEF BInv, StreamShape
    <3>2. CASE sender # 0
      <4>1. sender \in DOMAIN streams
        BY <3>2 DEF BInv, StreamShape
      <4>2. PICK new : new = streams'
        OBVIOUS
      <4>3. new = Reset(sender, streams) \/ new = Close(sender, streams)
        BY <1>2, <3>2, <4>2 DEF StopOnDone, StopOnContext
      <4>4. PICK st : /\ new \in Seq(StreamOf(built))
                      /\ Changed(streams, new, sender, st, streams[sender].wire,
                                 streams[sender].reader, streams[sender].received)
        BY <4>1, <4>3, CloseEffect DEF BInv, StreamShape
      <4>5. \A s \in DOMAIN new : new[s].reader = "received" => new[s].received \in built
        BY <4>4 DEF BInv, StreamShape, Changed
      <4> QED BY <2>1, <4>2, <4>4, <4>5 DEF BInv, StreamShape, Changed
    <3> QED BY <3>1, <3>2
  <2> QED BY <2>3, <2>4 DEF BInv
<1>3. CASE Shutdown \/ CancelContext
  <2>1. /\ UNCHANGED <<pc, sending, sender, streams, built, sent, told, builder>>
        /\ UNCHANGED <<responseManager, requestManager>>
    BY <1>3 DEF Shutdown, CancelContext, queueVars, managers, history
  <2> QED BY <2>1 DEF BInv, QueueShape, StreamShape, LogShape, DeliveredAsBuilt, Sending, IDs
<1> QED BY <1>1, <1>2, <1>3

\* Opening a stream, or failing to.
LEMMA OpenBInv ==
  ASSUME BInv, Open \/ OpenFails
  PROVE  BInv'
<1>1. /\ pc = "open" /\ UNCHANGED <<built, sent, told, responseManager, requestManager>>
  BY DEF Open, OpenFails, managers
<1>2. \/ pc' = "send" /\ UNCHANGED <<builder, sending>>
      \/ pc' = "select" /\ sending' = NoMessage /\ PublishError
  BY DEF Open, OpenFails, Return
<1>3. QueueShape'
  <2>1. IsBuilder(builder')
    BY <1>2, PublishErrorShape DEF BInv, QueueShape
  <2> QED BY <1>1, <1>2, <2>1 DEF BInv, QueueShape, Sending
<1>4. LogShape' /\ DeliveredAsBuilt'
  BY <1>1 DEF BInv, LogShape, DeliveredAsBuilt, IDs
<1>5. StreamShape'
  <2>1. CASE UNCHANGED <<sender, streams>> /\ (pc' = "send" => sender # 0)
    BY <1>1, <2>1 DEF BInv, StreamShape
  <2>2. CASE OpenSender
    <3>1. PICK new : new = streams' /\ new = Append(streams, NewStream) /\ sender' = Len(new)
      BY <2>2 DEF OpenSender
    <3>2. /\ new \in Seq(StreamOf(built)) /\ Len(new) = Len(streams) + 1 /\ Len(streams) \in Nat
          /\ DOMAIN new = 1..Len(new) /\ DOMAIN streams = 1..Len(streams)
          /\ \A i \in DOMAIN streams : new[i] = streams[i]
          /\ new[Len(streams) + 1].reader = "reading"
      BY <3>1, StreamOpened DEF BInv, StreamShape
    <3>3. \A s \in DOMAIN new : new[s].reader = "received" => new[s].received \in built
      <4> TAKE s \in DOMAIN new
      <4>1. CASE s \in DOMAIN streams
        BY <3>2, <4>1 DEF BInv, StreamShape
      <4>2. CASE s = Len(streams) + 1
        BY <3>2, <4>2
      <4> QED BY <3>2, <4>1, <4>2
    <3> QED BY <1>1, <3>1, <3>2, <3>3 DEF StreamShape
  <2> QED BY <1>1, <1>2, <2>1, <2>2 DEF Open, OpenFails, InitializeSender, Return
<1> QED BY <1>3, <1>4, <1>5 DEF BInv


\* SendMsg, and its failure.
LEMMA SendBInv ==
  ASSUME BInv, SendMsg \/ SendMsgFails
  PROVE  BInv'
<1>1. /\ pc = "send" /\ sender \in DOMAIN streams /\ sending \in built
      /\ UNCHANGED <<built, told, responseManager, requestManager>>
  BY DEF SendMsg, SendMsgFails, managers, BInv, StreamShape, QueueShape, Sending
<1>2. \/ pc' = "open" /\ UNCHANGED <<builder, sending>>
      \/ pc' = "select" /\ sending' = NoMessage /\ (PublishError \/ UNCHANGED builder)
  BY DEF SendMsg, SendMsgFails, Return
<1>3. QueueShape'
  <2>1. IsBuilder(builder')
    BY <1>2, PublishErrorShape DEF BInv, QueueShape
  <2> QED BY <1>1, <1>2, <2>1 DEF BInv, QueueShape, Sending
<1>4. LogShape'
  <2>1. IsList(sent')
    BY Lists DEF SendMsg, SendMsgFails, BInv, LogShape
  <2> QED BY <1>1, <2>1 DEF BInv, LogShape, IDs
<1>5. DeliveredAsBuilt'
  BY <1>1 DEF BInv, DeliveredAsBuilt
<1>6. \A new : new \in {streams, Write(sender), Reset(sender, streams),
                        Reset(sender, Write(sender))} =>
        /\ new \in Seq(StreamOf(built)) /\ Len(new) = Len(streams)
        /\ \A s \in DOMAIN new : new[s].reader = "received" => new[s].received \in built
  <2>1. streams \in Seq(StreamOf(built))
        /\ \A s \in DOMAIN streams : streams[s].reader = "received" => streams[s].received \in built
    BY DEF BInv, StreamShape
  <2>2. PICK w : w = Write(sender)
    OBVIOUS
  <2>3. /\ w \in Seq(StreamOf(built))
        /\ Changed(streams, w, sender, streams[sender].status,
                   Append(streams[sender].wire, ToIPLD(sending)), streams[sender].reader,
                   streams[sender].received)
    BY <1>1, <2>1, <2>2, WriteEffect
  <2>4. /\ Len(w) = Len(streams) /\ sender \in DOMAIN w
        /\ \A s \in DOMAIN w : w[s].reader = "received" => w[s].received \in built
    BY <1>1, <2>1, <2>3 DEF Changed
  <2>5. ASSUME NEW old \in Seq(StreamOf(built)), NEW new, new = Reset(sender, old),
               sender \in DOMAIN old,
               \A s \in DOMAIN old : old[s].reader = "received" => old[s].received \in built
        PROVE  /\ new \in Seq(StreamOf(built)) /\ Len(new) = Len(old)
               /\ \A s \in DOMAIN new : new[s].reader = "received" => new[s].received \in built
    <3>1. PICK st : /\ new \in Seq(StreamOf(built))
                    /\ Changed(old, new, sender, st, old[sender].wire, old[sender].reader,
                               old[sender].received)
      BY <2>5, CloseEffect
    <3> QED BY <2>5, <3>1 DEF Changed
  <2> QED BY <1>1, <2>1, <2>2, <2>3, <2>4, <2>5
<1>7. streams' \in {streams, Write(sender), Reset(sender, streams), Reset(sender, Write(sender))}
  BY DEF SendMsg, SendMsgFails
<1>8. sender' \in {0, sender} /\ pc' # "send"
  BY <1>2 DEF SendMsg, SendMsgFails
<1>9. StreamShape'
  BY <1>1, <1>6, <1>7, <1>8 DEF BInv, StreamShape
<1> QED BY <1>3, <1>4, <1>5, <1>9 DEF BInv

\* The steps of the reader of a stream leave the queue alone.
LEMMA ReceiveFrame ==
  ASSUME NEW s \in DOMAIN streams, Receive(s) \/ BreakStream(s)
  PROVE  UNCHANGED <<builder, pc, sending, attempts, sender, built, sent, told, givenUp, ops>>
  BY DEF Receive, Read, EndOfStream, ReadError, ReceiveError, ReceiveMessage, BreakStream,
         queueVars, history

\* A message that is read is the one that was written.
LEMMA ReadsMessage ==
  ASSUME BInv, NEW s \in DOMAIN streams, streams[s].wire # <<>>
  PROVE  /\ FromIPLD(Head(streams[s].wire)) \in built
         /\ \A m \in built : Head(streams[s].wire) = ToIPLD(m) =>
              FromIPLD(Head(streams[s].wire)) = m
<1>1. Head(streams[s].wire) \in Encoded(built)
  <2>1. streams[s].wire \in Seq(Encoded(built))
    BY StreamAt DEF BInv, StreamShape
  <2> QED BY <2>1
<1>2. \A m \in built : FromIPLD(ToIPLD(m)) = m
  BY MessageSurvives DEF BInv, QueueShape
<1> QED BY <1>1, <1>2 DEF Encoded

\* How a step of a reader, or a fault, changes its stream and what the managers have.
LEMMA ReceiveEffects ==
  ASSUME BInv, NEW s \in DOMAIN streams
  PROVE  /\ Read(s) =>
              /\ streams' \in Seq(StreamOf(built))
              /\ Changed(streams, streams', s, streams[s].status, Tail(streams[s].wire),
                         "received", FromIPLD(Head(streams[s].wire)))
         /\ EndOfStream(s) =>
              /\ streams' \in Seq(StreamOf(built))
              /\ Changed(streams, streams', s, streams[s].status, streams[s].wire, "ended",
                         streams[s].received)
         /\ ReadError(s) =>
              /\ streams' \in Seq(StreamOf(built))
              /\ Changed(streams, streams', s,
                         IF streams[s].status = "open" THEN "reset" ELSE streams[s].status,
                         <<>>, "failed", streams[s].received)
         /\ ReceiveError(s) =>
              /\ streams' \in Seq(StreamOf(built))
              /\ Changed(streams, streams', s, streams[s].status, streams[s].wire, "reported",
                         streams[s].received)
         /\ ReceiveMessage(s) =>
              /\ streams' \in Seq(StreamOf(built))
              /\ Changed(streams, streams', s, streams[s].status, streams[s].wire, "reading",
                         NoMessage)
         /\ BreakStream(s) =>
              /\ streams' \in Seq(StreamOf(built))
              /\ Changed(streams, streams', s, "reset", streams[s].wire, streams[s].reader,
                         streams[s].received)
<1>1. streams \in Seq(StreamOf(built))
  BY DEF BInv, StreamShape
<1>2. PICK new : new = streams'
  OBVIOUS
<1>3. ASSUME Read(s)
      PROVE  /\ new \in Seq(StreamOf(built))
             /\ Changed(streams, new, s, streams[s].status, Tail(streams[s].wire), "received",
                        FromIPLD(Head(streams[s].wire)))
  <2>1. PICK m : m = FromIPLD(Head(streams[s].wire))
    OBVIOUS
  <2>2. streams[s].wire # <<>> /\
        new = [streams EXCEPT ![s].wire = Tail(@), ![s].received = m, ![s].reader = "received"]
    BY <1>2, <1>3, <2>1, Zenon DEF Read
  <2>3. m \in built
    BY <2>1, <2>2, ReadsMessage
  <2>4. /\ new \in Seq(StreamOf(built))
        /\ Changed(streams, new, s, streams[s].status, Tail(streams[s].wire), "received", m)
    BY <1>1, <2>2, <2>3, ReadEffect, Zenon
  <2> QED BY <2>1, <2>4, Zenon
<1>4. ASSUME NEW x \in Readers, new = [streams EXCEPT ![s].reader = x]
      PROVE  /\ new \in Seq(StreamOf(built))
             /\ Changed(streams, new, s, streams[s].status, streams[s].wire, x,
                        streams[s].received)
  BY <1>1, <1>4, ReaderChanged, Zenon
<1>5. ASSUME EndOfStream(s)
      PROVE  /\ new \in Seq(StreamOf(built))
             /\ Changed(streams, new, s, streams[s].status, streams[s].wire, "ended",
                        streams[s].received)
  <2>1. new = [streams EXCEPT ![s].reader = "ended"] /\ "ended" \in Readers
    BY <1>2, <1>5 DEF EndOfStream, Readers
  <2> QED BY <1>4, <2>1, Zenon
<1>6. ASSUME ReadError(s)
      PROVE  /\ new \in Seq(StreamOf(built))
             /\ Changed(streams, new, s,
                        IF streams[s].status = "open" THEN "reset" ELSE streams[s].status,
                        <<>>, "failed", streams[s].received)
  <2>1. new = [Reset(s, streams) EXCEPT ![s].reader = AfterReadError, ![s].wire = <<>>]
    BY <1>2, <1>6, Zenon DEF ReadError
  <2> QED BY <1>1, <2>1, ReadErrorEffect, Zenon
<1>7. ASSUME ReceiveError(s)
      PROVE  /\ new \in Seq(StreamOf(built))
             /\ Changed(streams, new, s, streams[s].status, streams[s].wire, "reported",
                        streams[s].received)
  <2>1. new = [streams EXCEPT ![s].reader = "reported"] /\ "reported" \in Readers
    BY <1>2, <1>7 DEF ReceiveError, Readers
  <2> QED BY <1>4, <2>1, Zenon
<1>8. ASSUME ReceiveMessage(s)
      PROVE  /\ new \in Seq(StreamOf(built))
             /\ Changed(streams, new, s, streams[s].status, streams[s].wire, "reading", NoMessage)
  <2>1. new = [streams EXCEPT ![s].reader = AfterMessage, ![s].received = NoMessage]
    BY <1>2, <1>8, Zenon DEF ReceiveMessage
  <2> QED BY <1>1, <2>1, ReceiveEffect, Zenon
<1>9. ASSUME BreakStream(s)
      PROVE  /\ new \in Seq(StreamOf(built))
             /\ Changed(streams, new, s, "reset", streams[s].wire, streams[s].reader,
                        streams[s].received)
  <2>1. PICK x : x = "reset"
    OBVIOUS
  <2>2. new = [streams EXCEPT ![s].status = x] /\ x \in Statuses
    BY <1>2, <1>9, <2>1 DEF BreakStream, Statuses
  <2> QED BY <1>1, <2>1, <2>2, StatusChanged, Zenon
<1> QED BY <1>2, <1>3, <1>5, <1>6, <1>7, <1>8, <1>9, Zenon

\* What a list has after an append.
LEMMA ListAppended ==
  ASSUME NEW list, IsList(list), NEW e
  PROVE  /\ Len(list) \in Nat /\ DOMAIN list = 1..Len(list)
         /\ IsList(Append(list, e)) /\ Len(Append(list, e)) = Len(list) + 1
         /\ DOMAIN Append(list, e) = 1..(Len(list) + 1)
         /\ Append(list, e)[Len(list) + 1] = e
         /\ \A i \in 1..Len(list) : Append(list, e)[i] = list[i]
<1>1. PICK S : list \in Seq(S)
  BY DEF IsList
<1>2. list \in Seq(S \union {e}) /\ e \in S \union {e}
  BY <1>1, SeqMonotonic
<1>3. PICK new : new = Append(list, e)
  OBVIOUS
<1>4. /\ new \in Seq(S \union {e}) /\ Len(new) = Len(list) + 1
      /\ \A i \in 1..Len(list) : new[i] = list[i]
      /\ new[Len(list) + 1] = e
  BY <1>2, <1>3, AppendProperties
<1>5. Len(list) \in Nat /\ DOMAIN list = 1..Len(list) /\ DOMAIN new = 1..Len(new)
  BY <1>2, <1>4
<1>6. IsList(new)
  BY <1>4 DEF IsList
<1> QED BY <1>3, <1>4, <1>5, <1>6

\* Only ReceiveMessage hands something to the managers, and that was built.
LEMMA ReceiveDelivers ==
  ASSUME BInv, NEW s \in DOMAIN streams, Receive(s) \/ BreakStream(s)
  PROVE  /\ ~ReceiveMessage(s) => UNCHANGED <<responseManager, requestManager>>
         /\ ReceiveMessage(s) =>
              \E m \in built :
                /\ m = streams[s].received
                /\ responseManager' = IF DOMAIN m.requests = {} THEN responseManager
                                      ELSE Append(responseManager, m.requests)
                /\ requestManager' = IF DOMAIN m.responses = {} /\ DOMAIN m.blocks = {}
                                     THEN requestManager
                                     ELSE Append(requestManager, <<m.responses, m.blocks>>)
<1>1. ~ReceiveMessage(s) => UNCHANGED <<responseManager, requestManager>>
  BY DEF Receive, Read, EndOfStream, ReadError, ReceiveError, BreakStream, managers
<1>2. ReceiveMessage(s) => streams[s].received \in built
  BY DEF ReceiveMessage, BInv, StreamShape
<1> QED BY <1>1, <1>2 DEF ReceiveMessage

\* The readers of the streams.
LEMMA ReceiveBInv ==
  ASSUME BInv, NEW s \in DOMAIN streams, Receive(s) \/ BreakStream(s)
  PROVE  BInv'
<1>1. UNCHANGED <<builder, pc, sending, sender, built, sent, told>>
  BY ReceiveFrame
<1>2. QueueShape'
  BY <1>1 DEF BInv, QueueShape, Sending
<1>3. StreamShape'
  <2>1. PICK st, w, rd, rc :
          /\ streams' \in Seq(StreamOf(built))
          /\ Changed(streams, streams', s, st, w, rd, rc)
          /\ rd = "received" => rc \in built
    <3>1. CASE Read(s)
      <4>1. streams[s].wire # <<>>
        BY <3>1 DEF Read
      <4> QED BY <3>1, <4>1, ReceiveEffects, ReadsMessage
    <3>2. CASE EndOfStream(s)
      BY <3>2, ReceiveEffects
    <3>3. CASE ReadError(s)
      BY <3>3, ReceiveEffects
    <3>4. CASE ReceiveError(s)
      BY <3>4, ReceiveEffects
    <3>5. CASE ReceiveMessage(s)
      BY <3>5, ReceiveEffects
    <3>6. CASE BreakStream(s)
      <4>1. streams[s].reader = "received" => streams[s].received \in built
        BY DEF BInv, StreamShape
      <4> QED BY <3>6, <4>1, ReceiveEffects
    <3> QED BY <3>1, <3>2, <3>3, <3>4, <3>5, <3>6 DEF Receive
  <2>2. \A i \in DOMAIN streams' : streams'[i].reader = "received" => streams'[i].received \in built
    BY <2>1 DEF Changed, BInv, StreamShape
  <2> QED BY <1>1, <2>1, <2>2 DEF Changed, BInv, StreamShape
<1>4. LogShape' /\ DeliveredAsBuilt'
  <2>1. IsList(responseManager) /\ IsList(requestManager)
    BY DEF BInv, LogShape
  <2>2. /\ IsList(responseManager') 
        /\ \A i \in DOMAIN responseManager' : \E m \in built : responseManager'[i] = m.requests
    <3>1. \A i \in DOMAIN responseManager : \E m \in built : responseManager[i] = m.requests
      BY DEF BInv, DeliveredAsBuilt
    <3>2. CASE responseManager' = responseManager
      BY <2>1, <3>1, <3>2
    <3>3. CASE responseManager' # responseManager
      <4>1. PICK e : responseManager' = Append(responseManager, e)
                     /\ \E m \in built : e = m.requests
        BY <3>3, ReceiveDelivers
      <4> QED BY <2>1, <3>1, <4>1, ListAppended
    <3> QED BY <3>2, <3>3
  <2>3. /\ IsList(requestManager') 
        /\ \A i \in DOMAIN requestManager' :
             \E m \in built : requestManager'[i] = <<m.responses, m.blocks>>
    <3>1. \A i \in DOMAIN requestManager :
            \E m \in built : requestManager[i] = <<m.responses, m.blocks>>
      BY DEF BInv, DeliveredAsBuilt
    <3>2. CASE requestManager' = requestManager
      BY <2>1, <3>1, <3>2
    <3>3. CASE requestManager' # requestManager
      <4>1. PICK e : requestManager' = Append(requestManager, e)
                     /\ \E m \in built : e = <<m.responses, m.blocks>>
        BY <3>3, ReceiveDelivers
      <4> QED BY <2>1, <3>1, <4>1, ListAppended
    <3> QED BY <3>2, <3>3
  <2> QED BY <1>1, <2>2, <2>3 DEF BInv, LogShape, DeliveredAsBuilt, IDs
<1> QED BY <1>2, <1>3, <1>4 DEF BInv

\* Every step keeps the invariant.
LEMMA NextBInv ==
  ASSUME BInv, [Next]_vars
  PROVE  BInv'
<1>1. CASE UNCHANGED vars
  BY <1>1 DEF vars, queueVars, managers, history, BInv, QueueShape, StreamShape, LogShape,
              DeliveredAsBuilt, Sending, IDs
<1>2. ASSUME NEW s \in DOMAIN streams, Receive(s) \/ BreakStream(s) PROVE BInv'
  BY <1>2, ReceiveBInv
<1>3. CASE Managers
  BY <1>3, ManagersBInv
<1>4. CASE TakeWork \/ StopOnDone \/ StopOnContext \/ Shutdown \/ CancelContext
  BY <1>4, QueueBInv
<1>5. CASE Open \/ OpenFails
  BY <1>5, OpenBInv
<1>6. CASE SendMsg \/ SendMsgFails
  BY <1>6, SendBInv
<1> QED BY <1>1, <1>2, <1>3, <1>4, <1>5, <1>6 DEF Next, Send

\* What is built, sent and received can be encoded, with any faults.
THEOREM MessagesAreWellFormed == Spec => []BInv
<1>1. Init => BInv
  BY InitBInv
<1>2. BInv /\ [Next]_vars => BInv'
  BY NextBInv
<1> QED BY <1>1, <1>2, PTL DEF Spec

\* What the managers get from handleNewStream was built for them, field by field.
THEOREM DeliveredAsBuiltHolds == Spec => []DeliveredAsBuilt
<1>1. BInv => DeliveredAsBuilt
  BY DEF BInv
<1> QED BY <1>1, MessagesAreWellFormed, PTL

-----------------------------------------------------------------------------
(* Ranks *)

UpTo(I, i) == {j \in I : j <= i}

\* There is a k-th smallest number for every k.
HasRanks(I) == \A k \in 1..Cardinality(I) : \E i \in I : Cardinality(UpTo(I, i)) = k

\* The values of a function at the numbers of a set, in their order.
Selection(I, f) == [k \in 1..Cardinality(I) |-> f[Ranked(I, k)]]

\* A number of a finite set is the one of its rank.
LEMMA RankIs ==
  ASSUME NEW I \in SUBSET Nat, IsFiniteSet(I), NEW i \in I, NEW k,
         Cardinality(UpTo(I, i)) = k
  PROVE  Ranked(I, k) = i
<1>1. PICK r : r = Ranked(I, k)
  OBVIOUS
<1>2. r \in I /\ Cardinality(UpTo(I, r)) = k
  BY <1>1 DEF Ranked, UpTo
<1>3. ASSUME NEW a \in I, NEW b \in I, a < b
      PROVE  Cardinality(UpTo(I, a)) # Cardinality(UpTo(I, b))
  <2>1. PICK A, B : A = UpTo(I, a) /\ B = UpTo(I, b)
    OBVIOUS
  <2>2. IsFiniteSet(B)
    BY <2>1, FS_Subset DEF UpTo
  <2>3. A \subseteq B /\ b \in B /\ b \notin A
    <3>1. I \subseteq Int /\ a \in Int /\ b \in Int
      OBVIOUS
    <3>2. ~(b <= a) /\ b <= b /\ \A x \in I : x <= a => x <= b
      BY <1>3, <3>1
    <3> QED BY <2>1, <3>2 DEF UpTo
  <2>4. A # B
    BY <2>3
  <2> QED BY <2>1, <2>2, <2>3, <2>4, FS_Subset
<1>4. r \in Nat /\ i \in Nat
  BY <1>2
<1>5. r < i \/ i < r \/ r = i
  BY <1>4
<1> QED BY <1>1, <1>2, <1>3, <1>5

\* Numbers that come after all others leave the ranks of these alone.
LEMMA RanksStay ==
  ASSUME NEW I \in SUBSET Nat, IsFiniteSet(I), NEW J \in SUBSET I, HasRanks(J),
         \A i \in I \ J : \A j \in J : j < i
  PROVE  /\ IsFiniteSet(J) /\ Cardinality(J) \in Nat /\ Cardinality(I) \in Nat
         /\ Cardinality(J) <= Cardinality(I)
         /\ \A k \in 1..Cardinality(J) :
              Ranked(J, k) \in J /\ Ranked(I, k) = Ranked(J, k)
<1>1. /\ IsFiniteSet(J) /\ Cardinality(J) \in Nat /\ Cardinality(I) \in Nat
      /\ Cardinality(J) <= Cardinality(I)
  BY FS_Subset, FS_CardinalityType
<1>2. ASSUME NEW k \in 1..Cardinality(J)
      PROVE  Ranked(J, k) \in J /\ Ranked(I, k) = Ranked(J, k)
  <2>1. PICK j \in J : Cardinality(UpTo(J, j)) = k
    BY DEF HasRanks
  <2>2. Ranked(J, k) = j
    BY <1>1, <2>1, RankIs
  <2>3. UpTo(I, j) = UpTo(J, j)
    <3>1. ASSUME NEW i \in I, i <= j PROVE i \in J
      <4>1. i \in Nat /\ j \in Nat
        OBVIOUS
      <4> QED BY <3>1, <4>1
    <3> QED BY <3>1 DEF UpTo
  <2>4. Ranked(I, k) = j
    BY <2>1, <2>3, RankIs
  <2> QED BY <2>2, <2>4
<1> QED BY <1>1, <1>2

\* One more number, above the others, has the last rank.
LEMMA RanksGrow ==
  ASSUME NEW J \in SUBSET Nat, IsFiniteSet(J), HasRanks(J), NEW n \in Nat,
         \A j \in J : j < n, NEW I, I = J \union {n}
  PROVE  /\ I \in SUBSET Nat /\ IsFiniteSet(I) /\ HasRanks(I) /\ Cardinality(J) \in Nat
         /\ Cardinality(I) = Cardinality(J) + 1 /\ Ranked(I, Cardinality(I)) = n
         /\ \A k \in 1..Cardinality(J) : Ranked(J, k) \in J /\ Ranked(I, k) = Ranked(J, k)
<1>1. I \in SUBSET Nat /\ J \in SUBSET I
  OBVIOUS
<1>2. n \notin J
  OBVIOUS
<1>3. /\ IsFiniteSet(I) /\ Cardinality(I) = Cardinality(J) + 1
      /\ Cardinality(J) \in Nat
  BY <1>2, FS_AddElement, FS_CardinalityType
<1>4. \A i \in I \ J : \A j \in J : j < i
  OBVIOUS
<1>5. \A k \in 1..Cardinality(J) : Ranked(J, k) \in J /\ Ranked(I, k) = Ranked(J, k)
  BY <1>1, <1>3, <1>4, RanksStay
<1>6. UpTo(I, n) = I
  <2>1. \A j \in I : j <= n
    OBVIOUS
  <2> QED BY <2>1 DEF UpTo
<1>7. n \in I /\ Ranked(I, Cardinality(I)) = n
  BY <1>1, <1>3, <1>6, RankIs
<1>8. HasRanks(I)
  <2> SUFFICES ASSUME NEW k \in 1..Cardinality(I)
               PROVE  \E i \in I : Cardinality(UpTo(I, i)) = k
    BY DEF HasRanks
  <2>1. CASE k = Cardinality(I)
    BY <1>6, <1>7, <2>1
  <2>2. CASE k # Cardinality(I)
    <3>1. k \in 1..Cardinality(J)
      BY <1>3, <2>2
    <3>2. PICK j \in J : Cardinality(UpTo(J, j)) = k
      BY <3>1 DEF HasRanks
    <3>3. UpTo(I, j) = UpTo(J, j)
      <4>1. j \in Nat /\ j < n
        OBVIOUS
      <4>2. ~(n <= j)
        BY <4>1
      <4> QED BY <4>2 DEF UpTo
    <3> QED BY <3>2, <3>3
  <2> QED BY <2>1, <2>2
<1> QED BY <1>1, <1>3, <1>5, <1>7, <1>8

\* A function on the first numbers is a list.
LEMMA FunctionIsList ==
  ASSUME NEW f, NEW c \in Nat, f = [k \in 1..c |-> f[k]]
  PROVE  IsList(f) /\ Len(f) = c
<1>1. f \in Seq({f[k] : k \in 1..c})
  OBVIOUS
<1>2. Len(f) \in Nat /\ DOMAIN f = 1..Len(f) /\ DOMAIN f = 1..c
  BY <1>1, LenProperties
<1>3. \A d \in Nat : 1..d = 1..c => d = c
  <2>1. \A d \in Nat : /\ d < c => c \in 1..c /\ c \notin 1..d
                       /\ c < d => d \in 1..d /\ d \notin 1..c
    OBVIOUS
  <2> QED BY <2>1
<1>4. IsList(f)
  BY <1>1 DEF IsList
<1> QED BY <1>2, <1>3, <1>4

\* The selection grows at its end.
LEMMA SelectionGrows ==
  ASSUME NEW J \in SUBSET Nat, IsFiniteSet(J), HasRanks(J), NEW n \in Nat,
         \A j \in J : j < n, NEW I, I = J \union {n}, NEW f
  PROVE  Selection(I, f) = Append(Selection(J, f), f[n])
<1>1. PICK c, s, new : c = Cardinality(J) /\ s = Selection(J, f) /\ new = Selection(I, f)
  OBVIOUS
<1>2. /\ c \in Nat /\ Cardinality(I) = c + 1 /\ Ranked(I, c + 1) = n
      /\ \A k \in 1..c : Ranked(I, k) = Ranked(J, k)
  <2>1. /\ Cardinality(J) \in Nat
        /\ Cardinality(I) = Cardinality(J) + 1 /\ Ranked(I, Cardinality(I)) = n
        /\ \A k \in 1..Cardinality(J) : Ranked(J, k) \in J /\ Ranked(I, k) = Ranked(J, k)
    BY RanksGrow
  <2> QED BY <1>1, <2>1
<1>3. s = [k \in 1..c |-> f[Ranked(J, k)]] /\ new = [k \in 1..(c + 1) |-> f[Ranked(I, k)]]
  BY <1>1, <1>2 DEF Selection
<1>4. /\ s = [k \in 1..c |-> s[k]] /\ new = [k \in 1..(c + 1) |-> new[k]]
      /\ \A k \in 1..c : new[k] = s[k]
      /\ new[c + 1] = f[n]
  <2>1. c + 1 \in 1..(c + 1) /\ \A k \in 1..c : k \in 1..(c + 1)
    BY <1>2
  <2>2. new[c + 1] = f[n]
    BY <1>2, <1>3, <2>1
  <2>3. \A k \in 1..c : new[k] = s[k]
    BY <1>2, <1>3, <2>1
  <2> QED BY <1>3, <2>2, <2>3
<1>5. IsList(s) /\ Len(s) = c
  BY <1>2, <1>4, FunctionIsList
<1>6. PICK a : a = Append(s, f[n])
  OBVIOUS
<1>7. /\ IsList(a) /\ Len(a) = c + 1 /\ a[c + 1] = f[n] /\ \A i \in 1..c : a[i] = s[i]
  BY <1>5, <1>6, ListAppended
<1>8. IsList(new) /\ Len(new) = c + 1
  BY <1>2, <1>4, FunctionIsList
<1>9. \A k \in 1..(c + 1) : new[k] = a[k]
  <2>1. \A k \in 1..(c + 1) : k \in 1..c \/ k = c + 1
    BY <1>2
  <2> QED BY <1>4, <1>7, <2>1
<1>10. PICK S, T : new \in Seq(S) /\ a \in Seq(T)
  BY <1>7, <1>8 DEF IsList
<1>11. new = a
  BY <1>7, <1>8, <1>9, <1>10, SeqEqual
<1> QED BY <1>1, <1>6, <1>11

\* What is selected from the first numbers of a set comes first in every list that
\* has the same there.
LEMMA SelectionPrefix ==
  ASSUME NEW I \in SUBSET Nat, IsFiniteSet(I), NEW J \in SUBSET I, HasRanks(J),
         \A i \in I \ J : \A j \in J : j < i, NEW f, NEW t,
         IsList(t), Len(t) = Cardinality(I),
         \A k \in 1..Cardinality(J) : Ranked(I, k) \in J => t[k] = f[Ranked(I, k)]
  PROVE  IsPrefix(Selection(J, f), t)
<1>1. PICK c, d, s : c = Cardinality(J) /\ d = Cardinality(I) /\ s = Selection(J, f)
  OBVIOUS
<1>2. /\ c \in Nat /\ d \in Nat /\ c <= d
      /\ \A k \in 1..c : Ranked(J, k) \in J /\ Ranked(I, k) = Ranked(J, k)
  BY <1>1, RanksStay
<1>3. s = [k \in 1..c |-> f[Ranked(J, k)]]
  BY <1>1 DEF Selection
<1>4. s = [k \in 1..c |-> s[k]] /\ \A k \in 1..c : t[k] = s[k]
  BY <1>1, <1>2, <1>3
<1>5. IsList(s) /\ Len(s) = c /\ IsList(t) /\ Len(t) = d
  BY <1>1, <1>2, <1>4, FunctionIsList
<1>6. SubSeq(s, 1, c) = SubSeq(t, 1, c)
  <2>1. PICK S, T : s \in Seq(S) /\ t \in Seq(T)
    BY <1>5 DEF IsList
  <2>2. PICK u, v : u = SubSeq(s, 1, c) /\ v = SubSeq(t, 1, c)
    OBVIOUS
  <2>3. /\ u \in Seq(S) /\ v \in Seq(T) /\ Len(u) = c /\ Len(v) = c
        /\ \A k \in 1..c : u[k] = s[k] /\ v[k] = t[k]
    BY <1>2, <1>5, <2>1, <2>2
  <2>4. \A k \in 1..c : u[k] = v[k]
    BY <1>4, <2>3
  <2> QED BY <2>2, <2>3, <2>4, SeqEqual
<1> QED BY <1>1, <1>2, <1>5, <1>6 DEF IsPrefix

\* What is selected depends on the values at the numbers of the set.
LEMMA SelectionSame ==
  ASSUME NEW I \in SUBSET Nat, IsFiniteSet(I), HasRanks(I), NEW f, NEW g,
         \A i \in I : f[i] = g[i]
  PROVE  Selection(I, f) = Selection(I, g)
<1>1. \A k \in 1..Cardinality(I) : Ranked(I, k) \in I
  BY RanksStay
<1> QED BY <1>1 DEF Selection

-----------------------------------------------------------------------------
(* What is delivered, in which order *)

\* The requests of the messages that were sent, and the other parts.
RequestLog  == [i \in DOMAIN sent |-> sent[i].message.requests]
ResponseLog == [i \in DOMAIN sent |-> <<sent[i].message.responses, sent[i].message.blocks>>]

\* The messages among the first n.
LEMMA WithSets ==
  ASSUME NEW n \in Nat
  PROVE  /\ WithRequests(n) \in SUBSET Nat /\ IsFiniteSet(WithRequests(n))
         /\ WithResponses(n) \in SUBSET Nat /\ IsFiniteSet(WithResponses(n))
<1>1. IsFiniteSet(1..n) /\ 1..n \subseteq Nat
  BY FS_Interval
<1>2. WithRequests(n) \in SUBSET (1..n) /\ WithResponses(n) \in SUBSET (1..n)
  BY DEF WithRequests, WithResponses
<1> QED BY <1>1, <1>2, FS_Subset

\* What RequestsOf and ResponsesOf list.
LEMMA ListedMessages ==
  ASSUME NEW n \in Nat, IsList(sent), n <= Len(sent)
  PROVE  /\ HasRanks(WithRequests(n)) =>
              RequestsOf(n) = Selection(WithRequests(n), RequestLog)
         /\ HasRanks(WithResponses(n)) =>
              ResponsesOf(n) = Selection(WithResponses(n), ResponseLog)
<1>1. PICK I, P : I = WithRequests(n) /\ P = WithResponses(n)
  OBVIOUS
<1>2. /\ I \in SUBSET Nat /\ IsFiniteSet(I) /\ I \subseteq DOMAIN sent
      /\ P \in SUBSET Nat /\ IsFiniteSet(P) /\ P \subseteq DOMAIN sent
  <2>1. DOMAIN sent = 1..Len(sent) /\ Len(sent) \in Nat
    BY ListAppended
  <2>2. I \subseteq 1..n /\ P \subseteq 1..n
    BY <1>1 DEF WithRequests, WithResponses
  <2>3. 1..n \subseteq DOMAIN sent
    BY <2>1
  <2> QED BY <1>1, <2>2, <2>3, WithSets
<1>3. ASSUME HasRanks(I)
      PROVE  RequestsOf(n) = Selection(I, RequestLog)
  <2>1. \A k \in 1..Cardinality(I) : Ranked(I, k) \in DOMAIN sent
    BY <1>2, <1>3, RanksStay
  <2>2. \A i \in DOMAIN sent : RequestLog[i] = sent[i].message.requests
    BY DEF RequestLog
  <2>3. RequestsOf(n) = [k \in 1..Cardinality(I) |-> sent[Ranked(I, k)].message.requests]
    BY <1>1 DEF RequestsOf
  <2> QED BY <2>1, <2>2, <2>3 DEF Selection
<1>4. ASSUME HasRanks(P)
      PROVE  ResponsesOf(n) = Selection(P, ResponseLog)
  <2>1. \A k \in 1..Cardinality(P) : Ranked(P, k) \in DOMAIN sent
    BY <1>2, <1>4, RanksStay
  <2>2. \A i \in DOMAIN sent :
          ResponseLog[i] = <<sent[i].message.responses, sent[i].message.blocks>>
    BY DEF ResponseLog
  <2>3. ResponsesOf(n) = [k \in 1..Cardinality(P) |->
                            <<sent[Ranked(P, k)].message.responses,
                              sent[Ranked(P, k)].message.blocks>>]
    BY <1>1 DEF ResponsesOf
  <2> QED BY <2>1, <2>2, <2>3 DEF Selection
<1> QED BY <1>1, <1>3, <1>4

\* What the next message adds to both lists.
LEMMA ListedNext ==
  ASSUME NEW n \in Nat, IsList(sent), n + 1 <= Len(sent), NEW m, m = sent[n + 1].message,
         HasRanks(WithRequests(n)), HasRanks(WithResponses(n))
  PROVE  /\ HasRanks(WithRequests(n + 1)) /\ HasRanks(WithResponses(n + 1))
         /\ RequestsOf(n + 1) = IF DOMAIN m.requests = {} THEN RequestsOf(n)
                                ELSE Append(RequestsOf(n), m.requests)
         /\ ResponsesOf(n + 1) = IF DOMAIN m.responses = {} /\ DOMAIN m.blocks = {}
                                 THEN ResponsesOf(n)
                                 ELSE Append(ResponsesOf(n), <<m.responses, m.blocks>>)
<1>1. Len(sent) \in Nat /\ DOMAIN sent = 1..Len(sent)
  BY ListAppended
<1>2. n + 1 \in Nat /\ n <= Len(sent) /\ n + 1 \in DOMAIN sent /\ 1..(n + 1) = (1..n) \union {n + 1}
  BY <1>1
<1>3. PICK I, J, P, Q : /\ I = WithRequests(n + 1) /\ J = WithRequests(n)
                        /\ P = WithResponses(n + 1) /\ Q = WithResponses(n)
  OBVIOUS
<1>4. /\ J \in SUBSET Nat /\ IsFiniteSet(J) /\ HasRanks(J) /\ \A j \in J : j < n + 1
      /\ Q \in SUBSET Nat /\ IsFiniteSet(Q) /\ HasRanks(Q) /\ \A j \in Q : j < n + 1
  <2>1. J \subseteq 1..n /\ Q \subseteq 1..n
    BY <1>3 DEF WithRequests, WithResponses
  <2>2. \A j \in 1..n : j < n + 1
    OBVIOUS
  <2> QED BY <1>3, <2>1, <2>2, WithSets
<1>5. /\ I = IF DOMAIN m.requests = {} THEN J ELSE J \union {n + 1}
      /\ P = IF DOMAIN m.responses = {} /\ DOMAIN m.blocks = {} THEN Q ELSE Q \union {n + 1}
  BY <1>2, <1>3 DEF WithRequests, WithResponses
<1>6. HasRanks(I) /\ HasRanks(P)
  BY <1>2, <1>4, <1>5, RanksGrow
<1>7. /\ RequestsOf(n + 1) = Selection(I, RequestLog) /\ RequestsOf(n) = Selection(J, RequestLog)
      /\ ResponsesOf(n + 1) = Selection(P, ResponseLog)
      /\ ResponsesOf(n) = Selection(Q, ResponseLog)
  BY <1>2, <1>3, <1>4, <1>6, ListedMessages
<1>8. RequestLog[n + 1] = m.requests /\ ResponseLog[n + 1] = <<m.responses, m.blocks>>
  BY <1>2 DEF RequestLog, ResponseLog
<1>9. ASSUME DOMAIN m.requests # {}
      PROVE  RequestsOf(n + 1) = Append(RequestsOf(n), m.requests)
  <2>1. I = J \union {n + 1}
    BY <1>5, <1>9
  <2>2. PICK N, f : N = n + 1 /\ f = RequestLog
    OBVIOUS
  <2>3. N \in Nat /\ I = J \union {N} /\ \A j \in J : j < N
    BY <1>2, <1>4, <2>1, <2>2
  <2>4. Selection(I, f) = Append(Selection(J, f), f[N])
    BY <1>4, <2>3, SelectionGrows
  <2> QED BY <1>7, <1>8, <2>2, <2>4, Zenon
<1>10. ASSUME ~(DOMAIN m.responses = {} /\ DOMAIN m.blocks = {})
       PROVE  ResponsesOf(n + 1) = Append(ResponsesOf(n), <<m.responses, m.blocks>>)
  <2>1. P = Q \union {n + 1}
    BY <1>5, <1>10
  <2>2. PICK N, f : N = n + 1 /\ f = ResponseLog
    OBVIOUS
  <2>3. N \in Nat /\ P = Q \union {N} /\ \A j \in Q : j < N
    BY <1>2, <1>4, <2>1, <2>2
  <2>4. Selection(P, f) = Append(Selection(Q, f), f[N])
    BY <1>4, <2>3, SelectionGrows
  <2> QED BY <1>7, <1>8, <2>2, <2>4, Zenon
<1> QED BY <1>3, <1>5, <1>6, <1>7, <1>9, <1>10

\* The queue has one stream as long as none broke, and it stays open until the
\* queue stops.
OneStream ==
  broken = {} =>
    /\ sender = Len(streams) /\ Len(streams) <= 1
    /\ \A s \in DOMAIN streams :
         /\ streams[s].status # "reset"
         /\ pc # "stopped" => streams[s].status = "open"

\* A stream has the messages that were sent after the first n on its wire.
Carries(s, n) ==
  /\ n + Len(streams[s].wire) = Len(sent)
  /\ \A i \in 1..Len(streams[s].wire) : streams[s].wire[i] = ToIPLD(sent[n + i].message)

\* Of the messages sent the managers have not got those after the first n: they are
\* on the wire, the first of them possibly with the reader.
Pending(n) ==
  /\ streams = <<>> => n = Len(sent)
  /\ \A s \in DOMAIN streams :
       \/ streams[s].reader # "received" /\ Carries(s, n)
       \/ /\ streams[s].reader = "received" /\ n < Len(sent)
          /\ streams[s].received = sent[n + 1].message /\ Carries(s, n + 1)

\* The last that was sent of a request among the first n messages is the last heard.
HeardUpTo(n) ==
  \A id : \A i \in 1..n :
    /\ id \in DOMAIN sent[i].message.requests
    /\ \A j \in 1..n : j > i => id \notin DOMAIN sent[j].message.requests
    => HeardLast(id, sent[i].message.requests[id])

\* The managers got the first n messages.
Logged(n) ==
  /\ responseManager = RequestsOf(n) /\ requestManager = ResponsesOf(n)
  /\ HasRanks(WithRequests(n)) /\ HasRanks(WithResponses(n))
  /\ HeardUpTo(n)

\* The first of the builder, the message that is being sent and the messages that
\* were sent, from the last one down, that has a request has this of it.
LatestIs(id, request) ==
  \/ id \in DOMAIN builder.requests /\ builder.requests[id] = request
  \/ /\ id \notin DOMAIN builder.requests
     /\ Sending /\ id \in DOMAIN sending.requests /\ sending.requests[id] = request
  \/ /\ id \notin DOMAIN builder.requests
     /\ Sending => id \notin DOMAIN sending.requests
     /\ \E i \in DOMAIN sent :
          /\ id \in DOMAIN sent[i].message.requests
          /\ sent[i].message.requests[id] = request
          /\ \A j \in DOMAIN sent : j > i => id \notin DOMAIN sent[j].message.requests

\* That is the last that was told of the request, unless something was given up.
LastWord ==
  broken = {} /\ ~givenUp =>
    \A id \in IDs : told[id] # <<>> => LatestIs(id, Last(told[id]))

Pipeline == broken = {} => \E n \in 0..Len(sent) : Logged(n) /\ Pending(n)

SentWasBuilt == \A i \in DOMAIN sent : sent[i].message \in built

\* The inductive invariant for the order of what is delivered.
PInv == BInv /\ SentWasBuilt /\ OneStream /\ Pipeline /\ LastWord

\* A step that moves no message between the wire, its reader and the managers.
Still ==
  /\ UNCHANGED <<sender, sent, responseManager, requestManager>>
  /\ DOMAIN streams' = DOMAIN streams /\ Len(streams') = Len(streams)
  /\ \A s \in DOMAIN streams :
       /\ streams'[s].wire = streams[s].wire /\ streams'[s].received = streams[s].received
       /\ \/ streams'[s].reader = streams[s].reader
          \/ streams'[s].reader # "received" /\ streams[s].reader # "received"
       /\ streams'[s].status # "reset"
       /\ pc' # "stopped" => streams'[s].status = streams[s].status
  /\ pc = "stopped" => pc' = "stopped"

\* Such a step keeps the stream and what is on it.
LEMMA StillKeeps ==
  ASSUME BInv, OneStream, Pipeline, BInv', broken = {}, Still
  PROVE  OneStream' /\ Pipeline'
<1>1. OneStream'
  BY DEF Still, OneStream
<1>2. Pipeline'
  <2>1. PICK n \in 0..Len(sent) : Logged(n) /\ Pending(n)
    BY DEF Pipeline
  <2>2. Logged(n)'
    <3>1. UNCHANGED <<sent, responseManager, requestManager>>
      BY DEF Still
    <3>2. UNCHANGED <<WithRequests(n), WithResponses(n), RequestsOf(n), ResponsesOf(n)>>
      BY <3>1 DEF RequestsOf, ResponsesOf, WithRequests, WithResponses
    <3>3. HeardUpTo(n)'
      BY <2>1, <3>1 DEF Logged, HeardUpTo, HeardLast, Heard
    <3> QED BY <2>1, <3>1, <3>2, <3>3 DEF Logged
  <2>3. streams' = <<>> => streams = <<>>
    BY DEF Still, BInv, StreamShape
  <2>4. \A s \in DOMAIN streams : \A k : Carries(s, k) => Carries(s, k)'
    BY DEF Carries, Still
  <2>5. Pending(n)'
    BY <2>1, <2>3, <2>4 DEF Pending, Still
  <2> QED BY <2>1, <2>2, <2>5 DEF Pipeline, Still
<1> QED BY <1>1, <1>2

\* The steps that leave the stream alone, or would break it.
LEMMA QuietSteps ==
  ASSUME PInv, BInv', broken' = {},
         \/ Managers \/ TakeWork \/ (Open /\ sender # 0) \/ SendMsgFails \/ StopOnDone
         \/ StopOnContext \/ OpenFails \/ Shutdown \/ CancelContext \/ UNCHANGED vars
  PROVE  broken = {} /\ Still
<1>1. ~SendMsgFails
  BY DEF SendMsgFails
<1>2. broken = {}
  BY <1>1 DEF Managers, StartRequest, CancelRequest, ResumeRequest, UpdateRequest, SendRequest,
              Transaction, TakeWork, Open, StopOnDone, StopOnContext, OpenFails, Shutdown,
              CancelContext, vars
<1>3. \A s \in DOMAIN streams : streams[s].status # "reset"
  BY <1>2 DEF PInv, OneStream
<1>4. CASE UNCHANGED <<streams, sender, sent, responseManager, requestManager>>
           /\ (pc = "stopped" => pc' = "stopped")
  BY <1>2, <1>3, <1>4 DEF Still
<1>5. CASE Managers \/ Shutdown \/ CancelContext \/ UNCHANGED vars
  <2>1. /\ UNCHANGED <<streams, sender, sent, responseManager, requestManager>>
        /\ pc = "stopped" => pc' = "stopped"
    BY <1>5, Zenon
       DEF Managers, StartRequest, CancelRequest, ResumeRequest, UpdateRequest, SendRequest,
           Transaction, Shutdown, CancelContext, vars, queueVars, managers, history
  <2> QED BY <1>4, <2>1, Zenon
<1>6. CASE TakeWork \/ (Open /\ sender # 0) \/ OpenFails
  <2>1. UNCHANGED <<streams, sender, sent, responseManager, requestManager>> /\ pc # "stopped"
    BY <1>6 DEF TakeWork, Open, OpenFails, InitializeSender, Return, managers
  <2> QED BY <1>4, <2>1
<1>7. CASE StopOnDone \/ StopOnContext
  <2>1. UNCHANGED <<sender, sent, responseManager, requestManager>> /\ pc' = "stopped"
    BY <1>7 DEF StopOnDone, StopOnContext, managers, history
  <2>2. CASE sender = 0
    <3>1. streams' = streams
      BY <1>7, <2>2 DEF StopOnDone, StopOnContext
    <3> QED BY <1>4, <2>1, <3>1
  <2>3. CASE sender # 0
    <3>1. StopOnDone /\ sender \in DOMAIN streams
      BY <1>7, <2>3 DEF StopOnContext, PInv, BInv, StreamShape
    <3>2. PICK new : new = streams' /\ new = Close(sender, streams)
      BY <2>3, <3>1 DEF StopOnDone
    <3>3. PICK st : /\ st = IF streams[sender].status = "open" THEN "closed"
                            ELSE streams[sender].status
                    /\ Changed(streams, new, sender, st, streams[sender].wire,
                               streams[sender].reader, streams[sender].received)
      BY <3>1, <3>2, CloseEffect DEF PInv, BInv, StreamShape
    <3>4. st # "reset"
      BY <1>3, <3>1, <3>3
    <3>5. Changed(streams, streams', sender, st, streams[sender].wire, streams[sender].reader,
                  streams[sender].received)
      BY <3>2, <3>3
    <3> QED BY <1>2, <1>3, <2>1, <3>4, <3>5 DEF Still, Changed
  <2> QED BY <2>2, <2>3
<1> QED BY <1>1, <1>2, <1>5, <1>6, <1>7

\* What the managers got stays what it was when only later messages change.
LEMMA LoggedStays ==
  ASSUME NEW n \in Nat, IsList(sent), IsList(sent'), n <= Len(sent), Len(sent) <= Len(sent'),
         \A i \in 1..n : sent'[i] = sent[i], Logged(n),
         UNCHANGED <<responseManager, requestManager>>
  PROVE  Logged(n)'
<1>1. UNCHANGED <<WithRequests(n), WithResponses(n)>>
  BY DEF WithRequests, WithResponses
<1>2. PICK I, P : I = WithRequests(n) /\ P = WithResponses(n)
  OBVIOUS
<1>3. I' = I /\ P' = P /\ HasRanks(I) /\ HasRanks(P)
  BY <1>1, <1>2 DEF Logged
<1>4. RequestsOf(n)' = RequestsOf(n) /\ ResponsesOf(n)' = ResponsesOf(n)
  <2>1. Len(sent) \in Nat /\ Len(sent') \in Nat
        /\ DOMAIN sent = 1..Len(sent) /\ DOMAIN sent' = 1..Len(sent')
    BY ListAppended
  <2>2. /\ I \in SUBSET Nat /\ IsFiniteSet(I) /\ I \subseteq 1..n
        /\ P \in SUBSET Nat /\ IsFiniteSet(P) /\ P \subseteq 1..n
    <3>1. I \subseteq 1..n /\ P \subseteq 1..n
      BY <1>2 DEF WithRequests, WithResponses
    <3> QED BY <1>2, <3>1, WithSets
  <2>3. /\ \A k \in 1..Cardinality(I) : Ranked(I, k) \in 1..n
        /\ \A k \in 1..Cardinality(P) : Ranked(P, k) \in 1..n
    BY <1>3, <2>2, RanksStay
  <2>4. /\ RequestsOf(n) = [k \in 1..Cardinality(I) |-> sent[Ranked(I, k)].message.requests]
        /\ RequestsOf(n)' = [k \in 1..Cardinality(I) |-> sent'[Ranked(I, k)].message.requests]
    BY <1>1, <1>2 DEF RequestsOf
  <2>5. /\ ResponsesOf(n) = [k \in 1..Cardinality(P) |->
                               <<sent[Ranked(P, k)].message.responses,
                                 sent[Ranked(P, k)].message.blocks>>]
        /\ ResponsesOf(n)' = [k \in 1..Cardinality(P) |->
                               <<sent'[Ranked(P, k)].message.responses,
                                 sent'[Ranked(P, k)].message.blocks>>]
    BY <1>1, <1>2 DEF ResponsesOf
  <2>6. RequestsOf(n)' = RequestsOf(n)
    BY <2>3, <2>4
  <2>7. ResponsesOf(n)' = ResponsesOf(n)
    BY <2>3, <2>5
  <2> QED BY <2>6, <2>7
<1>5. HeardUpTo(n)'
  BY DEF Logged, HeardUpTo, HeardLast, Heard
<1> QED BY <1>1, <1>4, <1>5 DEF Logged

\* The first stream is opened when nothing is on its way.
LEMMA OpenKeeps ==
  ASSUME PInv, Open, sender = 0, broken' = {}
  PROVE  OneStream' /\ Pipeline'
<1>1. /\ broken = {} /\ pc' \in {"select", "send"} /\ OpenSender
      /\ UNCHANGED <<sent, responseManager, requestManager>>
  BY DEF Open, InitializeSender, Return, managers
<1>2. Len(streams) = 0 /\ streams \in Seq(StreamOf(built)) /\ streams = <<>>
  BY <1>1 DEF PInv, OneStream, BInv, StreamShape
<1>3. PICK new : new = streams' /\ new = Append(streams, NewStream) /\ sender' = Len(new)
  BY <1>1 DEF OpenSender
<1>4. /\ Len(new) = 1 /\ DOMAIN new = {1} /\ new # <<>>
      /\ new[1].status = "open" /\ new[1].wire = <<>> /\ new[1].reader = "reading"
  <2>1. /\ Len(new) = Len(streams) + 1 /\ DOMAIN new = 1..Len(new)
        /\ new[Len(streams) + 1].status = "open" /\ new[Len(streams) + 1].wire = <<>>
        /\ new[Len(streams) + 1].reader = "reading"
    <3>1. streams \in Seq(StreamOf(built))
      BY DEF PInv, BInv, StreamShape
    <3> QED BY <1>3, <3>1, StreamOpened
  <2>2. Len(streams) + 1 = 1 /\ Len(<<>>) = 0 /\ 1..1 = {1}
    BY <1>2
  <2> QED BY <2>1, <2>2
<1>5. OneStream'
  BY <1>3, <1>4 DEF OneStream
<1>6. PICK n \in 0..Len(sent) : Logged(n) /\ Pending(n)
  BY <1>1 DEF PInv, Pipeline
<1>7. n = Len(sent) /\ IsList(sent) /\ n \in Nat
  BY <1>2, <1>6, ListAppended DEF Pending, PInv, BInv, LogShape
<1>8. Logged(n)'
  BY <1>1, <1>6, <1>7, LoggedStays
<1>9. Carries(1, n)'
  BY <1>1, <1>3, <1>4, <1>7 DEF Carries
<1>10. Pending(n)'
  BY <1>3, <1>4, <1>9 DEF Pending
<1> QED BY <1>1, <1>5, <1>6, <1>8, <1>10 DEF Pipeline

\* SendMsg puts the message behind those that are on the wire.
LEMMA SendKeeps ==
  ASSUME PInv, SendMsg, broken' = {}
  PROVE  OneStream' /\ Pipeline'
<1>1. /\ broken = {} /\ pc = "send" /\ pc' = "select" /\ sender' = sender
      /\ sent' = Append(sent, [message |-> sending, stream |-> sender])
      /\ UNCHANGED <<responseManager, requestManager>>
  BY DEF SendMsg, Return, managers
<1>2. /\ sender = 1 /\ DOMAIN streams = {1} /\ Len(streams) = 1 /\ sending \in built
      /\ streams \in Seq(StreamOf(built)) /\ streams[1].status = "open"
  BY <1>1 DEF PInv, OneStream, BInv, StreamShape, QueueShape, Sending
<1>3. PICK new, w : /\ new = streams' /\ new = Write(1)
                    /\ w = Append(streams[1].wire, ToIPLD(sending))
  BY <1>2 DEF SendMsg
<1>4. Changed(streams, new, 1, "open", w, streams[1].reader, streams[1].received)
  BY <1>2, <1>3, WriteEffect
<1>5. OneStream'
  <2>1. DOMAIN new = {1} /\ Len(new) = 1 /\ new[1].status = "open"
    BY <1>2, <1>4 DEF Changed
  <2>2. sender' = 1 /\ streams' = new
    BY <1>1, <1>2, <1>3
  <2>3. DOMAIN streams' = {1} /\ Len(streams') = 1 /\ streams'[1].status = "open"
    BY <2>1, <2>2
  <2> QED BY <2>2, <2>3 DEF OneStream
<1>6. PICK n \in 0..Len(sent) : Logged(n) /\ Pending(n)
  BY <1>1 DEF PInv, Pipeline
<1>7. IsList(sent)
  BY DEF PInv, BInv, LogShape
<1>8. PICK e : e = [message |-> sending, stream |-> sender]
  OBVIOUS
<1>9. /\ Len(sent) \in Nat /\ IsList(sent') /\ Len(sent') = Len(sent) + 1
      /\ \A i \in 1..Len(sent) : sent'[i] = sent[i]
      /\ sent'[Len(sent) + 1].message = sending
  <2>1. sent' = Append(sent, e) /\ e.message = sending
    BY <1>1, <1>8
  <2> QED BY <1>7, <2>1, ListAppended
<1>10. n \in Nat /\ n <= Len(sent) /\ n \in 0..Len(sent')
  BY <1>6, <1>9
<1>11. Logged(n)'
  BY <1>1, <1>6, <1>7, <1>9, <1>10, LoggedStays
<1>12. /\ Len(w) = Len(streams[1].wire) + 1 /\ Len(streams[1].wire) \in Nat
       /\ \A i \in 1..Len(streams[1].wire) : w[i] = streams[1].wire[i]
       /\ w[Len(w)] = ToIPLD(sending)
  <2>1. IsList(streams[1].wire)
    BY <1>2, StreamAt DEF IsList
  <2> QED BY <1>3, <2>1, ListAppended
<1>13. new[1].wire = w /\ new[1].reader = streams[1].reader
       /\ new[1].received = streams[1].received
  BY <1>4 DEF Changed
<1>14. ASSUME NEW k \in Nat, k <= Len(sent), Carries(1, k)
       PROVE  Carries(1, k)'
  <2>1. k + Len(w) = Len(sent')
    <3>1. k + Len(streams[1].wire) = Len(sent)
      BY <1>14 DEF Carries
    <3> QED BY <1>9, <1>12, <3>1
  <2>2. ASSUME NEW i \in 1..Len(w)
        PROVE  w[i] = ToIPLD(sent'[k + i].message)
    <3>1. CASE i = Len(w)
      <4>1. k + i = Len(sent) + 1
        BY <1>9, <2>1, <3>1
      <4> QED BY <1>9, <1>12, <3>1, <4>1
    <3>2. CASE i # Len(w)
      <4>1. i \in 1..Len(streams[1].wire) /\ k + i \in 1..Len(sent)
        <5>1. /\ Len(streams[1].wire) \in Nat /\ Len(w) = Len(streams[1].wire) + 1
              /\ Len(sent) \in Nat /\ k + Len(w) = Len(sent) + 1
          BY <1>9, <1>12, <2>1
        <5>2. \A x, y \in Nat : \A j \in 1..(x + 1) :
                j # x + 1 /\ k + (x + 1) = y + 1 => j \in 1..x /\ k + j \in 1..y
          OBVIOUS
        <5> QED BY <3>2, <5>1, <5>2
      <4> QED BY <1>9, <1>12, <1>14, <4>1 DEF Carries
    <3> QED BY <3>1, <3>2
  <2> QED BY <1>3, <1>13, <2>1, <2>2 DEF Carries
<1>15. Pending(n)'
  <2>1. DOMAIN streams' = {1} /\ streams' # <<>>
    BY <1>2, <1>3, <1>4 DEF Changed
  <2>2. CASE streams[1].reader # "received"
    <3>1. Carries(1, n)'
      BY <1>2, <1>6, <1>10, <1>14, <2>2 DEF Pending
    <3> QED BY <1>3, <1>13, <2>1, <2>2, <3>1 DEF Pending
  <2>3. CASE streams[1].reader = "received"
    <3>1. n < Len(sent) /\ streams[1].received = sent[n + 1].message /\ Carries(1, n + 1)
      BY <1>2, <1>6, <2>3 DEF Pending
    <3>2. n + 1 \in Nat /\ n + 1 \in 1..Len(sent) /\ n + 1 <= Len(sent)
      BY <1>9, <1>10, <3>1
    <3>3. Carries(1, n + 1)'
      BY <1>14, <3>1, <3>2
    <3>4. n < Len(sent') /\ new[1].received = sent'[n + 1].message
      BY <1>9, <1>10, <1>13, <3>1, <3>2
    <3> QED BY <1>3, <1>13, <2>1, <2>3, <3>3, <3>4 DEF Pending
  <2> QED BY <2>2, <2>3
<1> QED BY <1>1, <1>5, <1>10, <1>11, <1>15 DEF Pipeline

\* The reader of the one stream.
LEMMA TheReader ==
  ASSUME PInv, broken = {}, NEW s \in DOMAIN streams
  PROVE  /\ s = 1 /\ DOMAIN streams = {1} /\ Len(streams) = 1 /\ sender = 1
         /\ streams[1].status # "reset" /\ IsList(streams[1].wire)
<1>1. streams \in Seq(StreamOf(built))
  BY DEF PInv, BInv, StreamShape
<1>2. Len(streams) <= 1 /\ sender = Len(streams) /\ streams[s].status # "reset"
  BY DEF PInv, OneStream
<1>3. DOMAIN streams = 1..Len(streams) /\ Len(streams) \in Nat
  BY <1>1
<1>4. Len(streams) = 1 /\ s = 1
  BY <1>2, <1>3
<1>5. IsList(streams[s].wire)
  BY <1>1, StreamAt DEF IsList
<1> QED BY <1>2, <1>3, <1>4, <1>5

\* The steps of a reader that move no message.
LEMMA ReaderIsStill ==
  ASSUME PInv, NEW s \in DOMAIN streams, Receive(s) \/ BreakStream(s), broken' = {},
         ~Read(s), ~ReceiveMessage(s)
  PROVE  broken = {} /\ Still
<1>1. broken = {} /\ ~BreakStream(s)
  BY DEF Receive, EndOfStream, ReadError, ReceiveError, BreakStream
<1>2. /\ DOMAIN streams = {1} /\ s = 1 /\ streams[1].status # "reset"
  BY <1>1, TheReader
<1>3. ~ReadError(s)
  BY <1>2 DEF ReadError
<1>4. UNCHANGED <<sender, pc, sent, responseManager, requestManager>>
  BY ReceiveFrame, ReceiveDelivers DEF PInv
<1>5. PICK rd : /\ Changed(streams, streams', s, streams[s].status, streams[s].wire, rd,
                           streams[s].received)
                /\ rd # "received" /\ streams[s].reader # "received"
  <2>1. CASE EndOfStream(s)
    BY <2>1, ReceiveEffects DEF EndOfStream, PInv
  <2>2. CASE ReceiveError(s)
    BY <2>2, ReceiveEffects DEF ReceiveError, PInv
  <2> QED BY <1>1, <1>3, <2>1, <2>2 DEF Receive
<1> QED BY <1>1, <1>2, <1>4, <1>5 DEF Still, Changed

\* FromMsgReader takes the next message off the wire.
LEMMA ReadKeeps ==
  ASSUME PInv, NEW s \in DOMAIN streams, Read(s), broken' = {}
  PROVE  broken = {} /\ OneStream' /\ Pipeline'
<1>1. /\ broken = {} /\ streams[s].reader = "reading" /\ streams[s].wire # <<>>
  BY Zenon DEF Read
<1>2. UNCHANGED <<sender, pc, sent, responseManager, requestManager>>
  BY ReceiveFrame, ReceiveDelivers, Zenon DEF PInv, Receive, Read, ReceiveMessage
<1>3. /\ s = 1 /\ DOMAIN streams = {1} /\ Len(streams) = 1 /\ sender = 1
      /\ streams[1].status # "reset" /\ IsList(streams[1].wire)
  BY <1>1, TheReader
<1>4. PICK new, w, t, m : /\ new = streams' /\ w = streams[1].wire /\ t = Tail(w)
                          /\ m = FromIPLD(Head(w))
  OBVIOUS
<1>5. Changed(streams, new, 1, streams[1].status, t, "received", m)
  BY <1>3, <1>4, ReceiveEffects DEF PInv
<1>6. /\ DOMAIN new = {1} /\ Len(new) = 1 /\ new[1].status = streams[1].status
      /\ new[1].wire = t /\ new[1].reader = "received" /\ new[1].received = m
  BY <1>3, <1>5 DEF Changed
<1>7. OneStream'
  BY <1>1, <1>2, <1>3, <1>4, <1>6 DEF OneStream, PInv
<1>8. PICK n \in 0..Len(sent) : Logged(n) /\ Pending(n)
  BY <1>1 DEF PInv, Pipeline
<1>9. Len(sent) \in Nat /\ IsList(sent) /\ DOMAIN sent = 1..Len(sent)
  BY ListAppended DEF PInv, BInv, LogShape
<1>10. n \in Nat /\ n <= Len(sent)
  BY <1>8, <1>9
<1>11. Carries(1, n)
  BY <1>1, <1>3, <1>8 DEF Pending
<1>12. n + Len(w) = Len(sent) /\ \A i \in 1..Len(w) : w[i] = ToIPLD(sent[n + i].message)
  BY <1>4, <1>11 DEF Carries
<1>13. /\ Len(w) \in Nat /\ Len(w) # 0 /\ Len(t) = Len(w) - 1 /\ Head(w) = w[1]
       /\ \A i \in 1..Len(t) : t[i] = w[i + 1]
  <2>1. PICK S : w \in Seq(S)
    BY <1>3, <1>4 DEF IsList
  <2>2. w # <<>>
    BY <1>1, <1>3, <1>4
  <2> QED BY <1>4, <2>1, <2>2
<1>14. 1 \in 1..Len(w) /\ n + 1 \in DOMAIN sent /\ n < Len(sent)
  BY <1>9, <1>10, <1>12, <1>13
<1>15. m = sent[n + 1].message
  <2>1. Head(w) = ToIPLD(sent[n + 1].message)
    BY <1>12, <1>13, <1>14
  <2>2. sent[n + 1].message \in built
    BY <1>14 DEF PInv, SentWasBuilt
  <2> QED BY <1>1, <1>3, <1>4, <2>1, <2>2, ReadsMessage DEF PInv
<1>16. Carries(1, n + 1)'
  <2>1. n + 1 + Len(t) = Len(sent)
    <3>1. n + Len(w) = Len(sent) /\ Len(t) = Len(w) - 1 /\ Len(w) \in Nat
      BY <1>12, <1>13, Zenon
    <3> QED BY <1>10, <3>1
  <2>2. \A i \in 1..Len(t) : t[i] = ToIPLD(sent[n + 1 + i].message)
    <3> TAKE i \in 1..Len(t)
    <3>1. i + 1 \in 1..Len(w) /\ n + (i + 1) = n + 1 + i
      BY <1>10, <1>13
    <3> QED BY <1>12, <1>13, <3>1
  <2> QED BY <1>2, <1>4, <1>6, <2>1, <2>2 DEF Carries
<1>17. Pending(n)'
  <2>1. streams' # <<>>
    <3>1. Len(streams') = 1 /\ Len(<<>>) = 0
      BY <1>4, <1>6
    <3> QED BY <3>1
  <2> QED BY <1>2, <1>4, <1>6, <1>14, <1>15, <1>16, <2>1 DEF Pending
<1>18. Logged(n)'
  BY <1>2, <1>8, <1>9, <1>10, LoggedStays
<1> QED BY <1>1, <1>2, <1>7, <1>8, <1>17, <1>18 DEF Pipeline

\* What ProcessRequests hears next is the last that was heard of its requests.
LEMMA HearsNext ==
  ASSUME IsList(responseManager), NEW q, NEW id,
         responseManager' = IF DOMAIN q = {} THEN responseManager ELSE Append(responseManager, q)
  PROVE  /\ id \in DOMAIN q => HeardLast(id, q[id])'
         /\ \A x : id \notin DOMAIN q /\ HeardLast(id, x) => HeardLast(id, x)'
<1>1. CASE DOMAIN q = {}
  <2>1. responseManager' = responseManager
    BY <1>1
  <2> QED BY <1>1, <2>1 DEF HeardLast, Heard
<1>2. CASE DOMAIN q # {}
  <2>1. PICK c, new : c = Len(responseManager) /\ new = responseManager'
    OBVIOUS
  <2>2. /\ c \in Nat /\ DOMAIN responseManager = 1..c /\ DOMAIN new = 1..(c + 1)
        /\ new[c + 1] = q /\ \A i \in 1..c : new[i] = responseManager[i]
    BY <1>2, <2>1, ListAppended
  <2>3. PICK H, K : H = Heard(id) /\ K = {i \in DOMAIN new : id \in DOMAIN new[i]}
    OBVIOUS
  <2>4. Heard(id)' = K
    BY <2>1, <2>3 DEF Heard
  <2>5. \A x, i : i \in K /\ new[i][id] = x /\ (\A j \in K : j <= i) => HeardLast(id, x)'
    BY <2>1, <2>4 DEF HeardLast
  <2>6. ASSUME id \in DOMAIN q PROVE HeardLast(id, q[id])'
    <3>1. c + 1 \in K /\ new[c + 1][id] = q[id] /\ \A j \in K : j <= c + 1
      BY <2>2, <2>3, <2>6
    <3> QED BY <2>5, <3>1
  <2>7. ASSUME NEW x, id \notin DOMAIN q, HeardLast(id, x) PROVE HeardLast(id, x)'
    <3>1. H = {i \in 1..c : id \in DOMAIN responseManager[i]}
      BY <2>2, <2>3 DEF Heard
    <3>2. K = H
      <4>1. \A i \in 1..(c + 1) : i \in 1..c \/ i = c + 1
        BY <2>2
      <4>2. 1..c \subseteq 1..(c + 1)
        BY <2>2
      <4> QED BY <2>2, <2>3, <2>7, <3>1, <4>1, <4>2
    <3>3. PICK i \in H : responseManager[i][id] = x /\ \A j \in H : j <= i
      BY <2>3, <2>7 DEF HeardLast
    <3>4. new[i] = responseManager[i]
      BY <2>2, <3>1, <3>3
    <3> QED BY <2>5, <3>2, <3>3, <3>4
  <2> QED BY <2>6, <2>7
<1> QED BY <1>1, <1>2

\* ReceiveMessage hands the next message to the managers.
LEMMA DeliverKeeps ==
  ASSUME PInv, NEW s \in DOMAIN streams, ReceiveMessage(s), broken' = {}
  PROVE  broken = {} /\ OneStream' /\ Pipeline'
<1>1. broken = {} /\ streams[s].reader = "received" /\ Receive(s)
  BY DEF ReceiveMessage, Receive
<1>2. UNCHANGED <<sender, pc, sent>>
  BY <1>1, ReceiveFrame
<1>3. /\ s = 1 /\ DOMAIN streams = {1} /\ Len(streams) = 1 /\ sender = 1
      /\ streams[1].status # "reset"
  BY <1>1, TheReader
<1>4. PICK m, new : /\ m = streams[1].received /\ new = streams'
                    /\ responseManager' = IF DOMAIN m.requests = {} THEN responseManager
                                          ELSE Append(responseManager, m.requests)
                    /\ requestManager' = IF DOMAIN m.responses = {} /\ DOMAIN m.blocks = {}
                                         THEN requestManager
                                         ELSE Append(requestManager, <<m.responses, m.blocks>>)
  BY <1>1, <1>3, ReceiveDelivers DEF PInv
<1>5. Changed(streams, new, 1, streams[1].status, streams[1].wire, "reading", NoMessage)
  BY <1>3, <1>4, ReceiveEffects DEF PInv
<1>6. /\ DOMAIN new = {1} /\ Len(new) = 1 /\ new[1].status = streams[1].status
      /\ new[1].wire = streams[1].wire /\ new[1].reader = "reading"
  BY <1>3, <1>5 DEF Changed
<1>7. DOMAIN streams' = {1} /\ Len(streams') = 1 /\ streams'[1] = new[1] /\ streams' # <<>>
  <2>1. streams' = new
    BY <1>4
  <2>2. streams' # <<>>
    <3>1. Len(streams') = 1 /\ Len(<<>>) = 0
      BY <1>6, <2>1
    <3> QED BY <3>1
  <2> QED BY <1>6, <2>1, <2>2
<1>8. OneStream'
  <2>1. pc # "stopped" => streams[1].status = "open"
    BY <1>1, <1>3 DEF PInv, OneStream
  <2> QED BY <1>2, <1>3, <1>6, <1>7, <2>1 DEF OneStream
<1>9. PICK n \in 0..Len(sent) : Logged(n) /\ Pending(n)
  BY <1>1 DEF PInv, Pipeline
<1>10. Len(sent) \in Nat /\ IsList(sent) /\ IsList(responseManager)
  BY ListAppended DEF PInv, BInv, LogShape
<1>11. n < Len(sent) /\ m = sent[n + 1].message /\ Carries(1, n + 1)
  BY <1>1, <1>3, <1>4, <1>9 DEF Pending
<1>12. n \in Nat /\ n + 1 \in 0..Len(sent) /\ n + 1 <= Len(sent)
  BY <1>9, <1>10, <1>11
<1>13. Pending(n + 1)'
  <2>1. Carries(1, n + 1)'
    BY <1>2, <1>6, <1>7, <1>11 DEF Carries
  <2> QED BY <1>6, <1>7, <2>1 DEF Pending
<1>14. /\ HasRanks(WithRequests(n)) /\ HasRanks(WithResponses(n)) /\ HeardUpTo(n)
       /\ responseManager = RequestsOf(n) /\ requestManager = ResponsesOf(n)
  BY <1>9 DEF Logged
<1>15. /\ HasRanks(WithRequests(n + 1)) /\ HasRanks(WithResponses(n + 1))
       /\ responseManager' = RequestsOf(n + 1) /\ requestManager' = ResponsesOf(n + 1)
  BY <1>4, <1>10, <1>11, <1>12, <1>14, ListedNext
<1>16. HeardUpTo(n + 1)'
  <2> SUFFICES ASSUME NEW id, NEW i \in 1..(n + 1), id \in DOMAIN sent[i].message.requests,
                      \A j \in 1..(n + 1) : j > i => id \notin DOMAIN sent[j].message.requests
               PROVE  HeardLast(id, sent[i].message.requests[id])'
    BY <1>2 DEF HeardUpTo
  <2>1. PICK q : q = m.requests
    OBVIOUS
  <2>2. PICK x : x = sent[i].message.requests[id]
    OBVIOUS
  <2>3. responseManager' = IF DOMAIN q = {} THEN responseManager ELSE Append(responseManager, q)
    BY <1>4, <2>1
  <2>4. /\ id \in DOMAIN q => HeardLast(id, q[id])'
        /\ \A y : id \notin DOMAIN q /\ HeardLast(id, y) => HeardLast(id, y)'
    BY <1>10, <2>3, HearsNext
  <2>5. HeardLast(id, x)'
    <3>1. CASE i = n + 1
      BY <1>11, <2>1, <2>2, <2>4, <3>1
    <3>2. CASE i # n + 1
      <4>1. i \in 1..n /\ n + 1 > i /\ n + 1 \in 1..(n + 1) /\ 1..n \subseteq 1..(n + 1)
        BY <1>12, <3>2
      <4>2. id \notin DOMAIN q
        BY <1>11, <2>1, <4>1
      <4>3. \A j \in 1..n : j > i => id \notin DOMAIN sent[j].message.requests
        BY <4>1
      <4>4. HeardLast(id, x)
        BY <1>14, <2>2, <4>1, <4>3 DEF HeardUpTo
      <4> QED BY <2>4, <4>2, <4>4
    <3> QED BY <3>1, <3>2
  <2> QED BY <1>2, <2>2, <2>5
<1>17. Logged(n + 1)'
  <2>1. /\ WithRequests(n + 1)' = WithRequests(n + 1) /\ RequestsOf(n + 1)' = RequestsOf(n + 1)
        /\ WithResponses(n + 1)' = WithResponses(n + 1)
        /\ ResponsesOf(n + 1)' = ResponsesOf(n + 1)
    BY <1>2 DEF WithRequests, WithResponses, RequestsOf, ResponsesOf
  <2> QED BY <1>15, <1>16, <2>1 DEF Logged
<1>18. Pipeline'
  BY <1>2, <1>12, <1>13, <1>17 DEF Pipeline
<1> QED BY <1>1, <1>8, <1>18

\* A step that changes no request that is on its way.
LEMMA LatestStays ==
  ASSUME NEW id, NEW x, LatestIs(id, x), builder'.requests = builder.requests,
         UNCHANGED <<sending, sent>>, Sending' <=> Sending
  PROVE  LatestIs(id, x)'
  BY DEF LatestIs

\* What is told of a request is the latest of it.
LEMMA TellKeeps ==
  ASSUME BInv, LastWord, NEW q, IsRequest(q), q.id \in IDs, SendRequest(q)
  PROVE  LastWord'
<1> SUFFICES ASSUME broken' = {}, ~givenUp', NEW id \in IDs, told'[id] # <<>>
             PROVE  LatestIs(id, Last(told[id]))'
  BY DEF LastWord, IDs
<1>1. /\ broken = {} /\ ~givenUp /\ UNCHANGED <<sending, sent, pc>>
      /\ told' = [told EXCEPT ![q.id] = Append(told[q.id], q)]
  BY DEF SendRequest, queueVars
<1>2. PICK r, old : r = builder'.requests /\ old = builder.requests /\ r = With(old, q.id, q)
  BY SendRequestBInv
<1>3. r = [k \in DOMAIN old \union {q.id} |-> IF k = q.id THEN q ELSE old[k]]
  BY <1>2, WithIs, Zenon
<1>4. told'[id] = IF id = q.id THEN Append(told[q.id], q) ELSE told[id]
  BY <1>1 DEF BInv, LogShape
<1>5. CASE id = q.id
  <2>1. IsList(told[id])
    BY DEF BInv, LogShape
  <2>2. PICK t : t = Append(told[id], q)
    OBVIOUS
  <2>3. Len(t) = Len(told[id]) + 1 /\ t[Len(told[id]) + 1] = q
    BY <2>1, <2>2, ListAppended
  <2>4. Last(told'[id]) = q
    BY <1>4, <1>5, <2>2, <2>3 DEF Last
  <2>5. id \in DOMAIN r /\ r[id] = q
    BY <1>3, <1>5
  <2> QED BY <1>2, <2>4, <2>5 DEF LatestIs
<1>6. CASE id # q.id
  <2>1. told'[id] = told[id] /\ LatestIs(id, Last(told[id]))
    BY <1>1, <1>4, <1>6 DEF LastWord
  <2>2. id \in DOMAIN r <=> id \in DOMAIN old
    BY <1>3, <1>6
  <2>3. id \in DOMAIN r => r[id] = old[id]
    BY <1>3, <1>6
  <2>4. Sending' <=> Sending
    BY <1>1 DEF Sending
  <2>5. PICK x : x = Last(told[id]) /\ x = Last(told'[id])
    BY <2>1
  <2>6. LatestIs(id, x)'
    <3>1. LatestIs(id, x)
      BY <2>1, <2>5
    <3>2. CASE id \in DOMAIN old
      BY <1>2, <2>2, <2>3, <3>1, <3>2 DEF LatestIs
    <3>3. CASE id \notin DOMAIN old
      BY <1>1, <1>2, <2>2, <2>4, <3>1, <3>3 DEF LatestIs
    <3> QED BY <3>2, <3>3
  <2> QED BY <2>5, <2>6
<1> QED BY <1>5, <1>6

\* TakeWork moves the requests of the builder to the message it sends.
LEMMA TakeKeeps ==
  ASSUME BInv, TakeWork, NEW id, NEW x, LatestIs(id, x)
  PROVE  LatestIs(id, x)'
<1>1. /\ pc = "select" /\ pc' = "open" /\ sent' = sent /\ builder' = NewBuilder
      /\ sending' = Build(builder)
  BY DEF TakeWork
<1>2. sending'.requests = builder.requests
  BY <1>1, Builds DEF BInv, QueueShape
<1>3. DOMAIN builder'.requests = {}
  <2>1. builder'.requests = NoEntries
    BY <1>1, BuilderWithRequest
  <2> QED BY <2>1, EmptyMap
<1>4. ~Sending /\ Sending'
  BY <1>1 DEF Sending
<1> QED BY <1>1, <1>2, <1>3, <1>4 DEF LatestIs

\* SendMsg adds the message to those that were sent.
LEMMA SendKeepsLatest ==
  ASSUME BInv, SendMsg, NEW id, NEW x, LatestIs(id, x)
  PROVE  LatestIs(id, x)'
<1>1. /\ pc = "send" /\ pc' = "select" /\ builder' = builder
      /\ sent' = Append(sent, [message |-> sending, stream |-> sender])
  BY DEF SendMsg, Return
<1>2. Sending /\ ~Sending'
  BY <1>1 DEF Sending
<1>3. PICK c, new, e : /\ c = Len(sent) /\ new = sent' /\ new = Append(sent, e)
                       /\ e = [message |-> sending, stream |-> sender]
  BY <1>1
<1>4. /\ c \in Nat /\ DOMAIN sent = 1..c /\ DOMAIN new = 1..(c + 1)
      /\ new[c + 1] = e /\ \A i \in 1..c : new[i] = sent[i]
  BY <1>3, ListAppended DEF BInv, LogShape
<1>5. e.message = sending
  BY <1>3
<1>6. CASE id \in DOMAIN builder.requests
  BY <1>1, <1>6 DEF LatestIs
<1>7. CASE id \notin DOMAIN builder.requests /\ id \in DOMAIN sending.requests
  <2>1. sending.requests[id] = x
    BY <1>2, <1>7 DEF LatestIs
  <2>2. c + 1 \in DOMAIN new /\ \A j \in DOMAIN new : ~(j > c + 1)
    BY <1>4
  <2>3. \E i \in DOMAIN new :
          /\ id \in DOMAIN new[i].message.requests /\ new[i].message.requests[id] = x
          /\ \A j \in DOMAIN new : j > i => id \notin DOMAIN new[j].message.requests
    BY <1>4, <1>5, <1>7, <2>1, <2>2
  <2> QED BY <1>1, <1>2, <1>3, <1>7, <2>3 DEF LatestIs
<1>8. CASE id \notin DOMAIN builder.requests /\ id \notin DOMAIN sending.requests
  <2>1. PICK i \in 1..c :
          /\ id \in DOMAIN sent[i].message.requests /\ sent[i].message.requests[id] = x
          /\ \A j \in 1..c : j > i => id \notin DOMAIN sent[j].message.requests
    BY <1>2, <1>4, <1>8 DEF LatestIs
  <2>2. i \in DOMAIN new /\ new[i] = sent[i]
    BY <1>4
  <2>3. ASSUME NEW j \in DOMAIN new, j > i PROVE id \notin DOMAIN new[j].message.requests
    <3>1. CASE j = c + 1
      BY <1>4, <1>5, <1>8, <3>1
    <3>2. CASE j # c + 1
      <4>1. j \in 1..c
        BY <1>4, <3>2
      <4> QED BY <1>4, <2>1, <2>3, <4>1
    <3> QED BY <3>1, <3>2
  <2>4. \E k \in DOMAIN new :
          /\ id \in DOMAIN new[k].message.requests /\ new[k].message.requests[id] = x
          /\ \A j \in DOMAIN new : j > k => id \notin DOMAIN new[j].message.requests
    BY <2>1, <2>2, <2>3
  <2> QED BY <1>1, <1>2, <1>3, <1>8, <2>4 DEF LatestIs
<1> QED BY <1>6, <1>7, <1>8

\* The other steps change no request that is on its way, or give something up.
LEMMA OthersKeepRequests ==
  ASSUME BInv, broken' = {}, ~givenUp',
         \/ \E t \in Transactions : Transaction(t)
         \/ Open \/ SendMsgFails \/ StopOnDone \/ StopOnContext \/ OpenFails \/ Shutdown
         \/ CancelContext \/ \E s \in DOMAIN streams : Receive(s) \/ BreakStream(s)
         \/ UNCHANGED vars
  PROVE  /\ builder'.requests = builder.requests /\ UNCHANGED <<sending, sent, told>>
         /\ Sending' <=> Sending
<1>1. ~SendMsgFails /\ ~OpenFails
  BY DEF SendMsgFails, OpenFails, PublishError
<1>2. ASSUME NEW t \in Transactions, Transaction(t)
      PROVE  /\ builder'.requests = builder.requests /\ UNCHANGED <<sending, sent, told, pc>>
  <2>1. builder' = WithStatus(WithExtensions(WithLink(builder, t), t), t)
    BY <1>2 DEF Transaction
  <2>2. IsBuilder(WithLink(builder, t)) /\ WithLink(builder, t).requests = builder.requests
    BY BuilderWithResponse DEF BInv, QueueShape
  <2>3. /\ IsBuilder(WithExtensions(WithLink(builder, t), t))
        /\ WithExtensions(WithLink(builder, t), t).requests = builder.requests
    BY <2>2, BuilderWithResponse
  <2>4. builder'.requests = builder.requests
    BY <2>1, <2>3, BuilderWithResponse
  <2> QED BY <1>2, <2>4 DEF Transaction, queueVars, history
<1>3. CASE \E t \in Transactions : Transaction(t)
  BY <1>2, <1>3 DEF Sending
<1>4. CASE Open
  <2>1. pc = "open" /\ pc' = "send" /\ UNCHANGED <<builder, sending, sent, told>>
    BY <1>4 DEF Open, PublishError
  <2> QED BY <2>1 DEF Sending
<1>5. CASE StopOnDone \/ StopOnContext
  <2>1. pc = "select" /\ pc' = "stopped" /\ UNCHANGED <<builder, sending, sent, told>>
    BY <1>5 DEF StopOnDone, StopOnContext, history
  <2> QED BY <2>1 DEF Sending
<1>6. CASE Shutdown \/ CancelContext \/ UNCHANGED vars
  BY <1>6 DEF Shutdown, CancelContext, vars, queueVars, history, Sending
<1>7. CASE \E s \in DOMAIN streams : Receive(s) \/ BreakStream(s)
  BY <1>7, ReceiveFrame DEF Sending
<1> QED BY <1>1, <1>3, <1>4, <1>5, <1>6, <1>7

\* Every step keeps the last word on its way.
LEMMA NextLastWord ==
  ASSUME PInv, [Next]_vars, broken' = {} => broken = {}
  PROVE  LastWord'
<1> SUFFICES ASSUME broken' = {}, ~givenUp' PROVE LastWord'
  BY DEF LastWord
<1>1. BInv /\ LastWord
  BY DEF PInv
<1>2. ASSUME NEW r \in Requests,
             \/ StartRequest(r) \/ CancelRequest(r) \/ ResumeRequest(r)
             \/ \E u \in Updates : UpdateRequest(r, u)
      PROVE  LastWord'
  <2>1. r.id \in IDs
    BY DEF IDs
  <2>2. PICK q : SendRequest(q) /\ IsRequest(q) /\ q.id = r.id
    BY <1>2, RequestsAreWellFormed
      DEF StartRequest, CancelRequest, ResumeRequest, UpdateRequest
  <2> QED BY <1>1, <2>1, <2>2, TellKeeps
<1>3. ASSUME UNCHANGED <<told, givenUp>>,
             \A id, x : LatestIs(id, x) => LatestIs(id, x)'
      PROVE  LastWord'
  <2>1. broken = {} /\ ~givenUp
    BY <1>3
  <2>2. ASSUME NEW id \in IDs, told'[id] # <<>> PROVE LatestIs(id, Last(told[id]))'
    <3>1. PICK x : x = Last(told[id]) /\ x = Last(told'[id])
      BY <1>3
    <3>2. LatestIs(id, x)
      BY <1>1, <1>3, <2>1, <2>2, <3>1 DEF LastWord
    <3> QED BY <1>3, <3>1, <3>2
  <2> QED BY <2>2 DEF LastWord, IDs
<1>4. CASE TakeWork
  <2>1. UNCHANGED <<told, givenUp>>
    BY <1>4 DEF TakeWork
  <2> QED BY <1>1, <1>3, <1>4, <2>1, TakeKeeps
<1>5. CASE SendMsg
  <2>1. UNCHANGED <<told, givenUp>>
    BY <1>5 DEF SendMsg
  <2> QED BY <1>1, <1>3, <1>5, <2>1, SendKeepsLatest
<1>6. ASSUME \/ \E t \in Transactions : Transaction(t)
             \/ Open \/ SendMsgFails \/ StopOnDone \/ StopOnContext \/ OpenFails \/ Shutdown
             \/ CancelContext \/ \E s \in DOMAIN streams : Receive(s) \/ BreakStream(s)
             \/ UNCHANGED vars
      PROVE  LastWord'
  <2>1. ~givenUp
    <3>1. CASE \E s \in DOMAIN streams : Receive(s) \/ BreakStream(s)
      BY <3>1, ReceiveFrame
    <3>2. CASE ~\E s \in DOMAIN streams : Receive(s) \/ BreakStream(s)
      BY <1>6, <3>2
        DEF Transaction, Open, SendMsgFails, StopOnDone, StopOnContext, OpenFails, Shutdown,
            CancelContext, PublishError, vars, history
    <3> QED BY <3>1, <3>2
  <2>2. /\ builder'.requests = builder.requests /\ UNCHANGED <<sending, sent, told>>
        /\ Sending' <=> Sending
    BY <1>1, <1>6, OthersKeepRequests
  <2>3. ASSUME NEW id \in IDs, told'[id] # <<>> PROVE LatestIs(id, Last(told[id]))'
    <3>1. PICK x : x = Last(told[id]) /\ x = Last(told'[id])
      BY <2>2
    <3>2. LatestIs(id, x)
      BY <1>1, <2>1, <2>2, <2>3, <3>1 DEF LastWord
    <3>3. LatestIs(id, x)'
      BY <2>2, <3>2, LatestStays
    <3> QED BY <3>1, <3>3
  <2> QED BY <2>3 DEF LastWord, IDs
<1> QED BY <1>2, <1>4, <1>5, <1>6 DEF Next, Send, Managers

\* A stream that broke stays broken.
LEMMA BrokenStays ==
  ASSUME [Next]_vars, broken' = {}
  PROVE  broken = {}
<1>1. CASE UNCHANGED vars
  BY <1>1 DEF vars
<1>2. CASE Managers
  BY <1>2 DEF Managers, StartRequest, CancelRequest, ResumeRequest, UpdateRequest, SendRequest,
              Transaction
<1>3. CASE Send \/ OpenFails \/ Shutdown \/ CancelContext
  BY <1>3 DEF Send, TakeWork, Open, SendMsg, SendMsgFails, StopOnDone, StopOnContext, OpenFails,
              Shutdown, CancelContext
<1>4. CASE \E s \in DOMAIN streams : Receive(s) \/ BreakStream(s)
  BY <1>4 DEF Receive, Read, EndOfStream, ReadError, ReceiveError, ReceiveMessage, BreakStream
<1> QED BY <1>1, <1>2, <1>3, <1>4 DEF Next

\* Every step keeps the one stream and what is on its way.
LEMMA NextPipeline ==
  ASSUME PInv, BInv', [Next]_vars
  PROVE  OneStream' /\ Pipeline'
<1>1. CASE broken' # {}
  BY <1>1 DEF OneStream, Pipeline
<1>2. CASE broken' = {}
  <2>1. BInv /\ OneStream /\ Pipeline
    BY DEF PInv
  <2>2. CASE Open /\ sender = 0
    BY <1>2, <2>2, OpenKeeps
  <2>3. CASE SendMsg
    BY <1>2, <2>3, SendKeeps
  <2>4. CASE \/ Managers \/ TakeWork \/ (Open /\ sender # 0) \/ SendMsgFails \/ StopOnDone
             \/ StopOnContext \/ OpenFails \/ Shutdown \/ CancelContext \/ UNCHANGED vars
    BY <1>2, <2>1, <2>4, QuietSteps, StillKeeps
  <2>5. ASSUME NEW s \in DOMAIN streams, Receive(s) \/ BreakStream(s)
        PROVE  OneStream' /\ Pipeline'
    <3>1. CASE Read(s)
      BY <1>2, <3>1, ReadKeeps
    <3>2. CASE ReceiveMessage(s)
      BY <1>2, <3>2, DeliverKeeps
    <3>3. CASE ~Read(s) /\ ~ReceiveMessage(s)
      <4>1. broken = {} /\ Still
        BY <1>2, <2>5, <3>3, ReaderIsStill
      <4> QED BY <2>1, <4>1, StillKeeps
    <3> QED BY <3>1, <3>2, <3>3
  <2>6. CASE \E s \in DOMAIN streams : Receive(s) \/ BreakStream(s)
    BY <2>5, <2>6
  <2>7. CASE Open
    BY <2>2, <2>4, <2>7
  <2>8. CASE Send
    BY <2>3, <2>4, <2>7, <2>8 DEF Send
  <2> QED BY <2>4, <2>6, <2>8 DEF Next
<1> QED BY <1>1, <1>2

\* What is sent was built.
LEMMA NextSentWasBuilt ==
  ASSUME BInv, SentWasBuilt, [Next]_vars
  PROVE  SentWasBuilt'
<1>1. CASE SendMsg
  <2>1. PICK e : sent' = Append(sent, e) /\ e = [message |-> sending, stream |-> sender]
    BY <1>1 DEF SendMsg
  <2>2. e.message = sending
    BY <2>1
  <2>3. pc = "send" /\ built' = built
    BY <1>1 DEF SendMsg
  <2>4. sending \in built
    BY <2>3 DEF BInv, QueueShape, Sending
  <2>5. /\ Len(sent) \in Nat /\ DOMAIN sent = 1..Len(sent)
        /\ DOMAIN sent' = 1..(Len(sent) + 1) /\ sent'[Len(sent) + 1] = e
        /\ \A i \in 1..Len(sent) : sent'[i] = sent[i]
    BY <2>1, ListAppended DEF BInv, LogShape
  <2>6. \A i \in 1..(Len(sent) + 1) : i \in 1..Len(sent) \/ i = Len(sent) + 1
    BY <2>5
  <2>7. ASSUME NEW i \in DOMAIN sent' PROVE sent'[i].message \in built
    BY <2>2, <2>4, <2>5, <2>6 DEF SentWasBuilt
  <2> QED BY <2>3, <2>7 DEF SentWasBuilt
<1>2. CASE ~SendMsg
  <2>1. sent' = sent /\ built \subseteq built'
    <3>1. CASE UNCHANGED vars
      BY <3>1 DEF vars, history
    <3>2. CASE Managers
      BY <3>2 DEF Managers, StartRequest, CancelRequest, ResumeRequest, UpdateRequest,
                  SendRequest, Transaction, history
    <3>3. CASE Send \/ OpenFails \/ Shutdown \/ CancelContext
      BY <1>2, <3>3 DEF Send, TakeWork, Open, SendMsgFails, StopOnDone, StopOnContext, OpenFails,
                        Shutdown, CancelContext, history
    <3>4. CASE \E s \in DOMAIN streams : Receive(s) \/ BreakStream(s)
      BY <3>4, ReceiveFrame
    <3> QED BY <3>1, <3>2, <3>3, <3>4 DEF Next
  <2> QED BY <2>1 DEF SentWasBuilt
<1> QED BY <1>1, <1>2

\* At the start nothing is on its way.
LEMMA InitPInv == Init => PInv
<1> SUFFICES ASSUME Init PROVE PInv
  OBVIOUS
<1>1. BInv
  BY InitBInv
<1>2. /\ sent = <<>> /\ streams = <<>> /\ responseManager = <<>> /\ requestManager = <<>>
      /\ sender = 0 /\ told = [id \in IDs |-> <<>>]
  BY DEF Init
<1>3. /\ Len(sent) = 0 /\ DOMAIN sent = {} /\ Len(streams) = 0 /\ DOMAIN streams = {}
  BY <1>2
<1>4. SentWasBuilt
  BY <1>3 DEF SentWasBuilt
<1>5. OneStream
  BY <1>2, <1>3 DEF OneStream
<1>6. LastWord
  BY <1>2 DEF LastWord
<1>7. Pipeline
  <2>1. 1..0 = {} /\ 0 \in 0..Len(sent)
    BY <1>3
  <2>2. WithRequests(0) = {} /\ WithResponses(0) = {}
    BY <2>1 DEF WithRequests, WithResponses
  <2>3. Cardinality({}) = 0
    BY FS_EmptySet
  <2>4. HasRanks({})
    BY <2>1, <2>3 DEF HasRanks
  <2>5. ASSUME NEW f, f = [k \in 1..0 |-> f[k]] PROVE f = <<>>
    <3>1. IsList(f) /\ Len(f) = 0
      BY <2>5, FunctionIsList
    <3>2. PICK S : f \in Seq(S)
      BY <3>1 DEF IsList
    <3> QED BY <3>1, <3>2, EmptySeq
  <2>6. RequestsOf(0) = <<>> /\ ResponsesOf(0) = <<>>
    <3>1. PICK f, g : f = RequestsOf(0) /\ g = ResponsesOf(0)
      OBVIOUS
    <3>2. f = [k \in 1..0 |-> f[k]] /\ g = [k \in 1..0 |-> g[k]]
      BY <2>2, <2>3, <3>1 DEF RequestsOf, ResponsesOf
    <3> QED BY <2>5, <3>1, <3>2
  <2>7. HeardUpTo(0)
    BY <2>1 DEF HeardUpTo
  <2>8. Logged(0)
    BY <1>2, <2>2, <2>4, <2>6, <2>7 DEF Logged
  <2>9. Pending(0)
    BY <1>3 DEF Pending
  <2> QED BY <2>1, <2>8, <2>9 DEF Pipeline
<1> QED BY <1>1, <1>4, <1>5, <1>6, <1>7 DEF PInv

\* As long as no stream broke there is one stream, the managers got the first of the
\* messages that were sent and the others are on it in their order, and the last word
\* on each request is in the latest message that has the request.
THEOREM OneStreamInOrder == Spec => []PInv
<1>1. Init => PInv
  BY InitPInv
<1>2. PInv /\ [Next]_vars => PInv'
  <2> SUFFICES ASSUME PInv, [Next]_vars PROVE PInv'
    OBVIOUS
  <2>1. BInv'
    BY NextBInv DEF PInv
  <2>2. SentWasBuilt'
    BY NextSentWasBuilt DEF PInv
  <2>3. OneStream' /\ Pipeline'
    BY <2>1, NextPipeline
  <2>4. LastWord'
    BY BrokenStays, NextLastWord
  <2> QED BY <2>1, <2>2, <2>3, <2>4 DEF PInv
<1> QED BY <1>1, <1>2, PTL DEF Spec

\* Both managers get what runQueue sent in its order and without gaps, as long as no
\* stream broke.
THEOREM DeliveredInSendOrderHolds == Spec => []DeliveredInSendOrder
<1>1. PInv => DeliveredInSendOrder
  <2> SUFFICES ASSUME PInv, broken = {}
               PROVE  /\ IsPrefix(responseManager, RequestsOf(Len(sent)))
                      /\ IsPrefix(requestManager, ResponsesOf(Len(sent)))
    BY DEF DeliveredInSendOrder
  <2>1. PICK n \in 0..Len(sent) : Logged(n)
    BY DEF PInv, Pipeline
  <2>2. PICK N : N = Len(sent)
    OBVIOUS
  <2>3. IsList(sent) /\ N \in Nat /\ n \in Nat /\ n <= N /\ DOMAIN sent = 1..N
    BY <2>1, <2>2, ListAppended DEF PInv, BInv, LogShape
  <2>4. PICK I, J, P, Q : /\ I = WithRequests(N) /\ J = WithRequests(n)
                          /\ P = WithResponses(N) /\ Q = WithResponses(n)
    OBVIOUS
  <2>5. /\ I \in SUBSET Nat /\ IsFiniteSet(I) /\ P \in SUBSET Nat /\ IsFiniteSet(P)
        /\ Cardinality(I) \in Nat /\ Cardinality(P) \in Nat
    BY <2>3, <2>4, WithSets, FS_CardinalityType
  <2>6. /\ J \in SUBSET I /\ Q \in SUBSET P /\ J \subseteq DOMAIN sent /\ Q \subseteq DOMAIN sent
        /\ \A i \in I \ J : \A j \in J : j < i
        /\ \A i \in P \ Q : \A j \in Q : j < i
    <3>1. /\ \A i \in 1..N : i \in 1..n \/ \A j \in 1..n : j < i
          /\ 1..n \subseteq 1..N
      BY <2>3
    <3> QED BY <2>3, <2>4, <3>1 DEF WithRequests, WithResponses
  <2>7. HasRanks(J) /\ HasRanks(Q)
    BY <2>1, <2>4 DEF Logged
  <2>8. responseManager = Selection(J, RequestLog) /\ requestManager = Selection(Q, ResponseLog)
    BY <2>1, <2>3, <2>4, ListedMessages, <2>2 DEF Logged
  <2>9. PICK t, u : t = RequestsOf(N) /\ u = ResponsesOf(N)
    OBVIOUS
  <2>10. IsPrefix(responseManager, t)
    <3>1. t = [k \in 1..Cardinality(I) |-> sent[Ranked(I, k)].message.requests]
      BY <2>4, <2>9 DEF RequestsOf
    <3>2. t = [k \in 1..Cardinality(I) |-> t[k]]
      BY <3>1
    <3>3. IsList(t) /\ Len(t) = Cardinality(I)
      BY <2>5, <3>2, FunctionIsList
    <3>4. Cardinality(J) <= Cardinality(I) /\ Cardinality(J) \in Nat
      BY <2>5, <2>6, <2>7, RanksStay
    <3>5. \A k \in 1..Cardinality(J) : Ranked(I, k) \in J => t[k] = RequestLog[Ranked(I, k)]
      BY <2>5, <2>6, <3>1, <3>4 DEF RequestLog
    <3> QED BY <2>5, <2>6, <2>7, <2>8, <3>3, <3>5, SelectionPrefix
  <2>11. IsPrefix(requestManager, u)
    <3>1. u = [k \in 1..Cardinality(P) |-> <<sent[Ranked(P, k)].message.responses,
                                             sent[Ranked(P, k)].message.blocks>>]
      BY <2>4, <2>9 DEF ResponsesOf
    <3>2. u = [k \in 1..Cardinality(P) |-> u[k]]
      BY <3>1
    <3>3. IsList(u) /\ Len(u) = Cardinality(P)
      BY <2>5, <3>2, FunctionIsList
    <3>4. Cardinality(Q) <= Cardinality(P) /\ Cardinality(Q) \in Nat
      BY <2>5, <2>6, <2>7, RanksStay
    <3>5. \A k \in 1..Cardinality(Q) : Ranked(P, k) \in Q => u[k] = ResponseLog[Ranked(P, k)]
      <4>1. SUFFICES ASSUME NEW k \in 1..Cardinality(Q), Ranked(P, k) \in Q
                     PROVE  u[k] = ResponseLog[Ranked(P, k)]
        OBVIOUS
      <4>2. k \in 1..Cardinality(P) /\ Ranked(P, k) \in DOMAIN sent
        BY <2>5, <2>6, <3>4, <4>1
      <4> QED BY <3>1, <4>2 DEF ResponseLog
    <3> QED BY <2>5, <2>6, <2>7, <2>8, <3>3, <3>5, SelectionPrefix
  <2> QED BY <2>2, <2>9, <2>10, <2>11
<1> QED BY <1>1, OneStreamInOrder, PTL

\* The last that the requestor told of a request is the last the responder heard of it,
\* once everything has arrived and nothing broke or was given up.
THEOREM LastWordIsHeardHolds == Spec => []LastWordIsHeard
<1>1. PInv => LastWordIsHeard
  <2> SUFFICES ASSUME PInv, Quiet, NEW id \in IDs, told[id] # <<>>
               PROVE  HeardLast(id, Last(told[id]))
    BY DEF LastWordIsHeard
  <2>1. /\ broken = {} /\ ~givenUp /\ ~Sending /\ id \notin DOMAIN builder.requests
        /\ \A s \in DOMAIN streams : streams[s].wire = <<>> /\ streams[s].reader # "received"
    BY DEF Quiet, Empty, Sending
  <2>2. PICK x : x = Last(told[id])
    OBVIOUS
  <2>3. LatestIs(id, x)
    BY <2>1, <2>2 DEF PInv, LastWord
  <2>4. PICK i \in DOMAIN sent :
          /\ id \in DOMAIN sent[i].message.requests /\ sent[i].message.requests[id] = x
          /\ \A j \in DOMAIN sent : j > i => id \notin DOMAIN sent[j].message.requests
    BY <2>1, <2>3 DEF LatestIs
  <2>5. PICK n \in 0..Len(sent) : Logged(n) /\ Pending(n)
    BY <2>1 DEF PInv, Pipeline
  <2>6. Len(sent) \in Nat /\ DOMAIN sent = 1..Len(sent)
    BY ListAppended DEF PInv, BInv, LogShape
  <2>7. n = Len(sent)
    <3>1. CASE streams = <<>>
      BY <2>5, <3>1 DEF Pending
    <3>2. CASE streams # <<>>
      <4>1. streams \in Seq(StreamOf(built))
        BY DEF PInv, BInv, StreamShape
      <4>2. 1 \in DOMAIN streams
        BY <3>2, <4>1
      <4>3. Carries(1, n) /\ Len(streams[1].wire) = 0
        <5>1. Carries(1, n) /\ streams[1].wire = <<>>
          BY <2>1, <2>5, <4>2 DEF Pending
        <5> QED BY <5>1
      <4>4. n + 0 = Len(sent)
        BY <4>3 DEF Carries
      <4> QED BY <2>5, <2>6, <4>4
    <3> QED BY <3>1, <3>2
  <2>8. HeardUpTo(n)
    BY <2>5 DEF Logged
  <2>9. HeardLast(id, sent[i].message.requests[id])
    BY <2>4, <2>6, <2>7, <2>8 DEF HeardUpTo
  <2> QED BY <2>2, <2>4, <2>9
<1> QED BY <1>1, OneStreamInOrder, PTL
=============================================================================
