------------------------ MODULE ResponseAssemblerProofs ------------------------
(***************************************************************************)
(* Proofs about the link tracking of a peer, for every set of responses,   *)
(* links and keys, and for responses that visit any number of links.       *)
(***************************************************************************)
EXTENDS ResponseAssembler, FiniteSetTheorems, TLAPS

-----------------------------------------------------------------------------
(* The inductive invariant *)

Phases == {"new", "keyed", "listed", "running", "finished"}
AnyLink == Links \union {NoLink}
Operations == [request : Requests, tracker : Trackers, link : AnyLink,
               hasBlock : BOOLEAN, sendBlock : BOOLEAN]
Messages == [ops : SUBSET Operations, blocks : SUBSET AnyLink]
Loads == [link : Links, hasBlock : BOOLEAN]

\* Every variable has its type.  That a count of traversals does not go below zero
\* is not part of it: that follows from what is counted.
TypeOK ==
  /\ phase \in [Requests -> Phases]
  /\ missingBlocks \in [Trackers -> [Requests -> SUBSET Links]]
  /\ linksTraversed \in [Trackers -> [Requests -> [Links -> Nat]]]
  /\ inProgress \in [Trackers -> [Links -> Int]]
  /\ altTrackers \subseteq Keys
  /\ dedupKeys \in [Requests -> Trackers]
  /\ blockSentCount \in [Requests -> Nat]
  /\ skipFirstBlocks \in [Requests -> Nat]
  /\ operation \in [Requests -> Operations]
  /\ queue \in Seq(Messages)
  /\ sent \subseteq Trackers \X AnyLink
  /\ withheld \subseteq Trackers \X AnyLink
  /\ closed \subseteq Requests
  /\ lost \subseteq Trackers \X AnyLink
  /\ loads \in [Requests -> Seq(Loads)]
  /\ claimed \subseteq Trackers \X Links
  /\ status \in [Requests -> {"none", "full", "partial", "failed"}]

\* A response that is not in progress has no key and nothing to skip, one that has
\* not begun to run has visited nothing, and the blocks of one that has not ended
\* are counted as it visits them.
PhaseFits(r) ==
  /\ phase[r] \in {"new", "finished"} => dedupKeys[r] = NoKey /\ skipFirstBlocks[r] = 0
  /\ phase[r] \in {"new", "keyed", "listed"} => loads[r] = <<>>
  /\ phase[r] # "finished" => blockSentCount[r] = Len(loads[r])
  /\ status[r] # "none" => phase[r] = "finished"

\* A response is only in the lists of the tracker it has the key of, and only while
\* it is in progress; it has a missing link there only once it runs.
OnlyInItsTracker(r) ==
  \A t \in Trackers :
    /\ \A l \in Links : linksTraversed[t][r][l] > 0
         => t = dedupKeys[r] /\ phase[r] \in {"listed", "running"}
    /\ missingBlocks[t][r] # {} => t = dedupKeys[r] /\ phase[r] = "running"

\* What a running response has visited is in the lists of its tracker, and it has a
\* missing link there only if it has visited one.
VisitsAreListed(r) ==
  phase[r] = "running" =>
    /\ \A i \in DOMAIN loads[r] :
         IF loads[r][i].hasBlock THEN linksTraversed[dedupKeys[r]][r][loads[r][i].link] > 0
                                 ELSE loads[r][i].link \in missingBlocks[dedupKeys[r]][r]
    /\ missingBlocks[dedupKeys[r]][r] # {} => \E i \in DOMAIN loads[r] : ~loads[r][i].hasBlock

\* The status says whether every block was there.
StatusIsTrue(r) ==
  status[r] \in {"full", "partial"}
    => (status[r] = "full" <=> \A i \in DOMAIN loads[r] : loads[r][i].hasBlock)

ResponseInv(r) ==
  /\ PhaseFits(r)
  /\ OnlyInItsTracker(r)
  /\ VisitsAreListed(r)
  /\ StatusIsTrue(r)

\* A key has a tracker exactly while a response has the key.
KeysHaveTrackers == altTrackers = {dedupKeys[r] : r \in Requests} \ {NoKey}

\* The count of a link is that of the visits in the lists of the tracker.
CountsAreExact ==
  \A t \in Trackers : \A l \in Links :
    IsFiniteSet(Visits(t, l)) /\ inProgress[t][l] = Cardinality(Visits(t, l))

\* A link that some response has visited with its block is covered.
VisitedIsCovered ==
  \A t \in Trackers : \A r \in Requests : \A l \in Links :
    linksTraversed[t][r][l] > 0 => Covered(t, l)

\* The inductive invariant.
IInv ==
  /\ TypeOK
  /\ \A r \in Requests : ResponseInv(r)
  /\ KeysHaveTrackers
  /\ CountsAreExact
  /\ VisitedIsCovered
  /\ WithheldIsSentOrClaimed

-----------------------------------------------------------------------------
(* Counting visits *)

\* The visits of a link, when g says how often each response has visited it.
Counted(g) == UNION {{r} \X (1..g[r]) : r \in Requests}

\* A visit is a response and a number up to its count.
LEMMA CountedMember ==
  ASSUME NEW g \in [Requests -> Nat]
  PROVE  \A v : v \in Counted(g) <=> \E r \in Requests : \E i \in 1..g[r] : v = <<r, i>>
BY DEF Counted

\* One more visit by one response adds one visit.
LEMMA CountUp ==
  ASSUME NEW g \in [Requests -> Nat], NEW h \in [Requests -> Nat], NEW r \in Requests,
         h[r] = g[r] + 1, \A q \in Requests \ {r} : h[q] = g[q],
         IsFiniteSet(Counted(g))
  PROVE  IsFiniteSet(Counted(h)) /\ Cardinality(Counted(h)) = Cardinality(Counted(g)) + 1
<1>1. <<r, g[r] + 1>> \notin Counted(g)
  BY CountedMember
<1>2. Counted(h) \subseteq Counted(g) \union {<<r, g[r] + 1>>}
  <2>1. SUFFICES ASSUME NEW q \in Requests, NEW i \in 1..h[q]
                 PROVE  <<q, i>> \in Counted(g) \union {<<r, g[r] + 1>>}
    BY CountedMember
  <2>2. CASE i \in 1..g[q]
    BY <2>2, CountedMember
  <2>3. CASE i \notin 1..g[q]
    <3>1. q = r
      BY <2>3
    <3>2. i = g[r] + 1
      BY <2>3, <3>1
    <3> QED BY <3>1, <3>2
  <2> QED BY <2>2, <2>3
<1>3. Counted(g) \union {<<r, g[r] + 1>>} \subseteq Counted(h)
  <2>1. <<r, g[r] + 1>> \in Counted(h)
    BY CountedMember
  <2>2. \A q \in Requests : \A i \in 1..g[q] : i \in 1..h[q]
    OBVIOUS
  <2>3. Counted(g) \subseteq Counted(h)
    BY <2>2, CountedMember
  <2> QED BY <2>1, <2>3
<1>4. Counted(h) = Counted(g) \union {<<r, g[r] + 1>>}
  BY <1>2, <1>3
<1> QED BY <1>1, <1>4, FS_AddElement

\* Without the visits of one response there are as many fewer.
LEMMA CountDown ==
  ASSUME NEW g \in [Requests -> Nat], NEW h \in [Requests -> Nat], NEW r \in Requests,
         h[r] = 0, \A q \in Requests \ {r} : h[q] = g[q],
         IsFiniteSet(Counted(g))
  PROVE  IsFiniteSet(Counted(h)) /\ Cardinality(Counted(h)) = Cardinality(Counted(g)) - g[r]
<1> DEFINE mine == {r} \X (1..g[r])
<1>1. \A v : v \in mine <=> \E i \in 1..g[r] : v = <<r, i>>
  OBVIOUS
<1>2. IsFiniteSet({r}) /\ Cardinality({r}) = 1
  BY FS_Singleton
<1>3. IsFiniteSet(1..g[r]) /\ Cardinality(1..g[r]) = g[r]
  BY FS_Interval
<1>4. IsFiniteSet(mine) /\ Cardinality(mine) = g[r]
  BY <1>2, <1>3, FS_Product
<1> HIDE DEF mine
<1>5. Counted(g) \cap mine = mine
  BY <1>1, CountedMember
<1>6. Counted(h) \subseteq Counted(g) \ mine
  <2>1. SUFFICES ASSUME NEW q \in Requests, NEW i \in 1..h[q]
                 PROVE  <<q, i>> \in Counted(g) /\ <<q, i>> \notin mine
    BY CountedMember
  <2>2. q # r /\ i \in 1..g[q]
    OBVIOUS
  <2> QED BY <1>1, <2>2, CountedMember
<1>7. Counted(g) \ mine \subseteq Counted(h)
  <2>1. SUFFICES ASSUME NEW q \in Requests, NEW i \in 1..g[q], <<q, i>> \notin mine
                 PROVE  <<q, i>> \in Counted(h)
    BY CountedMember
  <2>2. q # r
    BY <1>1, <2>1
  <2> QED BY <2>2, CountedMember
<1>8. Counted(h) = Counted(g) \ mine
  BY <1>6, <1>7
<1>9. /\ IsFiniteSet(Counted(g) \ mine)
      /\ Cardinality(Counted(g) \ mine)
           = Cardinality(Counted(g)) - Cardinality(Counted(g) \cap mine)
  BY FS_Difference
<1> QED BY <1>4, <1>5, <1>8, <1>9

\* There are visits exactly if some response has visited the link.
LEMMA CountSome ==
  ASSUME NEW g \in [Requests -> Nat]
  PROVE  /\ (\A r \in Requests : g[r] = 0)
              => IsFiniteSet(Counted(g)) /\ Cardinality(Counted(g)) = 0
         /\ IsFiniteSet(Counted(g))
              => /\ Cardinality(Counted(g)) \in Nat
                 /\ Cardinality(Counted(g)) > 0 <=> \E r \in Requests : g[r] > 0
<1>1. Counted(g) = {} <=> \A r \in Requests : g[r] = 0
  <2>1. ASSUME NEW r \in Requests, g[r] # 0
        PROVE  Counted(g) # {}
    <3>1. 1 \in 1..g[r]
      BY <2>1
    <3>2. <<r, 1>> \in Counted(g)
      BY <3>1, CountedMember
    <3> QED BY <3>2
  <2>2. ASSUME \A r \in Requests : g[r] = 0
        PROVE  Counted(g) = {}
    <3>1. \A r \in Requests : 1..g[r] = {}
      BY <2>2
    <3> QED BY <3>1, CountedMember
  <2> QED BY <2>1, <2>2
<1>2. (\E r \in Requests : g[r] > 0) <=> ~\A r \in Requests : g[r] = 0
  OBVIOUS
<1>3. IsFiniteSet(Counted(g)) => Cardinality(Counted(g)) \in Nat
  BY FS_CardinalityType
<1>4. IsFiniteSet(Counted(g)) => (Cardinality(Counted(g)) = 0 <=> Counted(g) = {})
  BY FS_EmptySet
<1>5. IsFiniteSet({}) /\ Cardinality({}) = 0
  BY FS_EmptySet
<1>6. ASSUME \A r \in Requests : g[r] = 0
      PROVE  IsFiniteSet(Counted(g)) /\ Cardinality(Counted(g)) = 0
  BY <1>1, <1>5, <1>6
<1>7. IsFiniteSet(Counted(g))
        => (Cardinality(Counted(g)) > 0 <=> \E r \in Requests : g[r] > 0)
  BY <1>1, <1>2, <1>3, <1>4
<1> QED BY <1>3, <1>6, <1>7

-----------------------------------------------------------------------------
(* The operations of the tracker, entry by entry *)

\* What RecordLinkTraversal changes: the lists of one response in one tracker, and
\* the counts of the links it is given.
EntriesRecorded(t, r, links, b) ==
  /\ missingBlocks' \in [Trackers -> [Requests -> SUBSET Links]]
  /\ linksTraversed' \in [Trackers -> [Requests -> [Links -> Nat]]]
  /\ inProgress' \in [Trackers -> [Links -> Int]]
  /\ \A u \in Trackers : \A q \in Requests : \A l \in Links :
       linksTraversed'[u][q][l] =
         IF b /\ u = t /\ q = r /\ l \in links THEN linksTraversed[u][q][l] + 1
                                               ELSE linksTraversed[u][q][l]
  /\ \A u \in Trackers : \A l \in Links :
       inProgress'[u][l] = IF b /\ u = t /\ l \in links THEN inProgress[u][l] + 1
                                                        ELSE inProgress[u][l]
  /\ \A u \in Trackers : \A q \in Requests :
       missingBlocks'[u][q] = IF ~b /\ u = t /\ q = r THEN missingBlocks[u][q] \union links
                                                      ELSE missingBlocks[u][q]

\* RecordLinkTraversal changes these entries and no other.
LEMMA Recording ==
  ASSUME TypeOK, NEW t \in Trackers, NEW r \in Requests, NEW links \in SUBSET Links,
         NEW b \in BOOLEAN, RecordLinks(t, r, links, b)
  PROVE  EntriesRecorded(t, r, links, b)
<1>1. /\ missingBlocks \in [Trackers -> [Requests -> SUBSET Links]]
      /\ linksTraversed \in [Trackers -> [Requests -> [Links -> Nat]]]
      /\ inProgress \in [Trackers -> [Links -> Int]]
  BY DEF TypeOK
<1>2. CASE b
  <2> DEFINE more == [l \in Links |-> linksTraversed[t][r][l] + (IF l \in links THEN 1 ELSE 0)]
             count == [l \in Links |-> inProgress[t][l] + (IF l \in links THEN 1 ELSE 0)]
  <2>1. /\ linksTraversed' = [linksTraversed EXCEPT ![t][r] = more]
        /\ inProgress' = [inProgress EXCEPT ![t] = count]
        /\ missingBlocks' = missingBlocks
    BY <1>2 DEF RecordLinks
  <2>2. more \in [Links -> Nat] /\ \A l \in Links :
          more[l] = IF l \in links THEN linksTraversed[t][r][l] + 1 ELSE linksTraversed[t][r][l]
    BY <1>1
  <2>3. count \in [Links -> Int] /\ \A l \in Links :
          count[l] = IF l \in links THEN inProgress[t][l] + 1 ELSE inProgress[t][l]
    BY <1>1
  <2> HIDE DEF more, count
  <2>4. linksTraversed' \in [Trackers -> [Requests -> [Links -> Nat]]]
    BY <1>1, <2>1, <2>2
  <2>5. inProgress' \in [Trackers -> [Links -> Int]]
    BY <1>1, <2>1, <2>3
  <2>6. \A u \in Trackers : \A q \in Requests :
          linksTraversed'[u][q] = IF u = t /\ q = r THEN more ELSE linksTraversed[u][q]
    BY <1>1, <2>1
  <2>7. \A u \in Trackers : inProgress'[u] = IF u = t THEN count ELSE inProgress[u]
    BY <1>1, <2>1
  <2>8. \A u \in Trackers : \A q \in Requests : \A l \in Links :
          linksTraversed'[u][q][l] =
            IF u = t /\ q = r /\ l \in links THEN linksTraversed[u][q][l] + 1
                                             ELSE linksTraversed[u][q][l]
    BY <2>2, <2>6
  <2>9. \A u \in Trackers : \A l \in Links :
          inProgress'[u][l] = IF u = t /\ l \in links THEN inProgress[u][l] + 1
                                                      ELSE inProgress[u][l]
    BY <2>3, <2>7
  <2> QED BY <1>1, <1>2, <2>1, <2>4, <2>5, <2>8, <2>9 DEF EntriesRecorded
<1>3. CASE ~b
  <2>1. /\ missingBlocks' = [missingBlocks EXCEPT ![t][r] = missingBlocks[t][r] \union links]
        /\ linksTraversed' = linksTraversed
        /\ inProgress' = inProgress
    BY <1>3 DEF RecordLinks
  <2>2. missingBlocks[t][r] \union links \in SUBSET Links
    BY <1>1
  <2>3. missingBlocks' \in [Trackers -> [Requests -> SUBSET Links]]
    BY <1>1, <2>1, <2>2
  <2>4. \A u \in Trackers : \A q \in Requests :
          missingBlocks'[u][q] = IF u = t /\ q = r THEN missingBlocks[u][q] \union links
                                                   ELSE missingBlocks[u][q]
    BY <1>1, <2>1
  <2> QED BY <1>1, <1>3, <2>1, <2>3, <2>4 DEF EntriesRecorded
<1> QED BY <1>2, <1>3

\* What is recorded is counted.
LEMMA RecordingCounts ==
  ASSUME TypeOK, CountsAreExact,
         NEW t \in Trackers, NEW r \in Requests, NEW links \in SUBSET Links,
         NEW b \in BOOLEAN, RecordLinks(t, r, links, b)
  PROVE  CountsAreExact'
<1> SUFFICES ASSUME NEW u \in Trackers, NEW l \in Links
             PROVE  /\ IsFiniteSet(Visits(u, l)')
                    /\ inProgress'[u][l] = Cardinality(Visits(u, l)')
  BY DEF CountsAreExact
<1> DEFINE g == [q \in Requests |-> linksTraversed[u][q][l]]
           h == [q \in Requests |-> linksTraversed'[u][q][l]]
<1>r. EntriesRecorded(t, r, links, b)
  BY Recording
<1>0. /\ linksTraversed' \in [Trackers -> [Requests -> [Links -> Nat]]]
      /\ \A q \in Requests :
           linksTraversed'[u][q][l] =
             IF b /\ u = t /\ q = r /\ l \in links THEN linksTraversed[u][q][l] + 1
                                                   ELSE linksTraversed[u][q][l]
      /\ inProgress'[u][l] = IF b /\ u = t /\ l \in links THEN inProgress[u][l] + 1
                                                         ELSE inProgress[u][l]
  BY <1>r DEF EntriesRecorded
<1>1. g \in [Requests -> Nat]
  BY DEF TypeOK
<1>2. h \in [Requests -> Nat]
  BY <1>0
<1>3. Visits(u, l) = Counted(g) /\ Visits(u, l)' = Counted(h)
  BY DEF Visits, Counted
<1>4. IsFiniteSet(Counted(g)) /\ inProgress[u][l] = Cardinality(Counted(g))
  BY <1>3 DEF CountsAreExact
<1>5. CASE b /\ u = t /\ l \in links
  <2>1. h[r] = g[r] + 1
    BY <1>0, <1>5
  <2>2. \A q \in Requests \ {r} : h[q] = g[q]
    BY <1>0, <1>5
  <2>3. inProgress'[u][l] = inProgress[u][l] + 1
    BY <1>0, <1>5
  <2> HIDE DEF g, h
  <2> QED BY <1>1, <1>2, <1>3, <1>4, <2>1, <2>2, <2>3, CountUp
<1>6. CASE ~(b /\ u = t /\ l \in links)
  <2>1. \A q \in Requests : linksTraversed'[u][q][l] = linksTraversed[u][q][l]
    BY <1>0, <1>6
  <2>2. h = g
    BY <2>1
  <2>3. inProgress'[u][l] = inProgress[u][l]
    BY <1>0, <1>6
  <2> HIDE DEF g, h
  <2> QED BY <1>3, <1>4, <2>2, <2>3
<1> QED BY <1>5, <1>6

\* What FinishTracking changes: the response is in no list any more, the lists of
\* the others are as they were, although a tracker may have been deleted.
EntriesForgotten(r) ==
  /\ missingBlocks' \in [Trackers -> [Requests -> SUBSET Links]]
  /\ linksTraversed' \in [Trackers -> [Requests -> [Links -> Nat]]]
  /\ inProgress' \in [Trackers -> [Links -> Int]]
  /\ \A u \in Trackers : \A q \in Requests \ {r} :
       /\ linksTraversed'[u][q] = linksTraversed[u][q]
       /\ missingBlocks'[u][q] = missingBlocks[u][q]
  /\ \A u \in Trackers :
       missingBlocks'[u][r] = {} /\ \A l \in Links : linksTraversed'[u][r][l] = 0
  /\ \A u \in Trackers : \A l \in Links :
       inProgress'[u][l] = IF u # dedupKeys[r] THEN inProgress[u][l]
                           ELSE IF u # NoKey /\ Alone(r) THEN 0 ELSE StillTraversed(u, r, l)

\* A tracker that is deleted has nothing in it of another response.
LEMMA Forgetting ==
  ASSUME TypeOK, \A q \in Requests : ResponseInv(q), NEW r \in Requests, FinishTracking(r)
  PROVE  EntriesForgotten(r)
<1> DEFINE t == dedupKeys[r]
           none == [l \in Links |-> 0]
<1>1. /\ missingBlocks \in [Trackers -> [Requests -> SUBSET Links]]
      /\ linksTraversed \in [Trackers -> [Requests -> [Links -> Nat]]]
      /\ inProgress \in [Trackers -> [Links -> Int]]
      /\ t \in Trackers
  BY DEF TypeOK
<1>2. none \in [Links -> Nat] /\ none \in [Links -> Int] /\ \A l \in Links : none[l] = 0
  OBVIOUS
<1>3. \A u \in Trackers : \A q \in Requests : u # dedupKeys[q]
        => linksTraversed[u][q] = none /\ missingBlocks[u][q] = {}
  <2>1. SUFFICES ASSUME NEW u \in Trackers, NEW q \in Requests, u # dedupKeys[q]
                 PROVE  linksTraversed[u][q] = none /\ missingBlocks[u][q] = {}
    OBVIOUS
  <2>2. OnlyInItsTracker(q)
    BY DEF ResponseInv
  <2>3. missingBlocks[u][q] = {} /\ \A l \in Links : ~(linksTraversed[u][q][l] > 0)
    BY <2>1, <2>2 DEF OnlyInItsTracker
  <2>4. linksTraversed[u][q] \in [Links -> Nat]
    BY <1>1
  <2>5. \A l \in Links : linksTraversed[u][q][l] = 0
    BY <2>3, <2>4
  <2> QED BY <2>3, <2>4, <2>5
<1>4. Without(t, r)
  BY DEF FinishTracking, GetLinkTracker
<1> HIDE DEF none
<1>5. CASE t # NoKey /\ Alone(r)
  <2>1. /\ missingBlocks' = [missingBlocks EXCEPT ![t] = [q \in Requests |-> {}]]
        /\ linksTraversed' = [linksTraversed EXCEPT ![t] = [q \in Requests |-> none]]
        /\ inProgress' = [inProgress EXCEPT ![t] = none]
    BY <1>4, <1>5 DEF Without, none
  <2>2. \A q \in Requests \ {r} : dedupKeys[q] # t
    BY <1>5 DEF Alone
  <2> HIDE DEF t
  <2>3. /\ [q \in Requests |-> {}] \in [Requests -> SUBSET Links]
        /\ [q \in Requests |-> none] \in [Requests -> [Links -> Nat]]
    BY <1>2
  <2>4. missingBlocks' \in [Trackers -> [Requests -> SUBSET Links]]
    BY <1>1, <2>1, <2>3
  <2>5. linksTraversed' \in [Trackers -> [Requests -> [Links -> Nat]]]
    BY <1>1, <2>1, <2>3
  <2>6. inProgress' \in [Trackers -> [Links -> Int]]
    BY <1>1, <1>2, <2>1
  <2>7. \A u \in Trackers : \A q \in Requests :
          /\ missingBlocks'[u][q] = IF u = t THEN {} ELSE missingBlocks[u][q]
          /\ linksTraversed'[u][q] = IF u = t THEN none ELSE linksTraversed[u][q]
    BY <1>1, <2>1
  <2>8. \A u \in Trackers : inProgress'[u] = IF u = t THEN none ELSE inProgress[u]
    BY <1>1, <2>1
  <2>9. \A u \in Trackers : \A q \in Requests \ {r} :
          /\ linksTraversed'[u][q] = linksTraversed[u][q]
          /\ missingBlocks'[u][q] = missingBlocks[u][q]
    <3>1. SUFFICES ASSUME NEW q \in Requests \ {r}
                   PROVE  linksTraversed[t][q] = none /\ missingBlocks[t][q] = {}
      BY <2>7
    <3>2. t # dedupKeys[q]
      BY <2>2
    <3> QED BY <1>1, <1>3, <3>2
  <2>10. \A u \in Trackers : missingBlocks'[u][r] = {} /\ linksTraversed'[u][r] = none
    BY <1>3, <2>7 DEF t
  <2>11. \A u \in Trackers : \A l \in Links :
           inProgress'[u][l] = IF u # dedupKeys[r] THEN inProgress[u][l]
                               ELSE IF u # NoKey /\ Alone(r) THEN 0 ELSE StillTraversed(u, r, l)
    BY <1>2, <1>5, <2>8 DEF t
  <2> QED BY <1>2, <2>4, <2>5, <2>6, <2>9, <2>10, <2>11 DEF EntriesForgotten
<1>6. CASE ~(t # NoKey /\ Alone(r))
  <2> DEFINE left == [l \in Links |-> StillTraversed(t, r, l)]
  <2>1. /\ missingBlocks' = [missingBlocks EXCEPT ![t][r] = {}]
        /\ linksTraversed' = [linksTraversed EXCEPT ![t][r] = none]
        /\ inProgress' = [inProgress EXCEPT ![t] = left]
    BY <1>4, <1>6 DEF Without, none
  <2>2. \A l \in Links : StillTraversed(t, r, l) \in Int
    BY <1>1 DEF StillTraversed
  <2>3. left \in [Links -> Int] /\ \A l \in Links : left[l] = StillTraversed(t, r, l)
    BY <2>2
  <2> HIDE DEF left, t
  <2>4. missingBlocks' \in [Trackers -> [Requests -> SUBSET Links]]
    BY <1>1, <2>1
  <2>5. linksTraversed' \in [Trackers -> [Requests -> [Links -> Nat]]]
    BY <1>1, <1>2, <2>1
  <2>6. inProgress' \in [Trackers -> [Links -> Int]]
    BY <1>1, <2>1, <2>3
  <2>7. \A u \in Trackers : \A q \in Requests :
          /\ missingBlocks'[u][q] = IF u = t /\ q = r THEN {} ELSE missingBlocks[u][q]
          /\ linksTraversed'[u][q] = IF u = t /\ q = r THEN none ELSE linksTraversed[u][q]
    BY <1>1, <2>1
  <2>8. \A u \in Trackers : inProgress'[u] = IF u = t THEN left ELSE inProgress[u]
    BY <1>1, <2>1
  <2>9. \A u \in Trackers : \A q \in Requests \ {r} :
          /\ linksTraversed'[u][q] = linksTraversed[u][q]
          /\ missingBlocks'[u][q] = missingBlocks[u][q]
    BY <2>7
  <2>10. \A u \in Trackers : missingBlocks'[u][r] = {} /\ linksTraversed'[u][r] = none
    BY <1>3, <2>7 DEF t
  <2>11. \A u \in Trackers : \A l \in Links :
           inProgress'[u][l] = IF u # dedupKeys[r] THEN inProgress[u][l]
                               ELSE IF u # NoKey /\ Alone(r) THEN 0 ELSE StillTraversed(u, r, l)
    BY <1>6, <2>3, <2>8 DEF t
  <2> QED BY <1>2, <2>4, <2>5, <2>6, <2>9, <2>10, <2>11 DEF EntriesForgotten
<1> QED BY <1>5, <1>6

\* The visits of the response are taken from the counts, and no others.
LEMMA ForgettingCounts ==
  ASSUME TypeOK, CountsAreExact, \A q \in Requests : ResponseInv(q), NEW r \in Requests,
         FinishTracking(r)
  PROVE  CountsAreExact'
<1> SUFFICES ASSUME NEW u \in Trackers, NEW l \in Links
             PROVE  /\ IsFiniteSet(Visits(u, l)')
                    /\ inProgress'[u][l] = Cardinality(Visits(u, l)')
  BY DEF CountsAreExact
<1> DEFINE g == [q \in Requests |-> linksTraversed[u][q][l]]
           h == [q \in Requests |-> linksTraversed'[u][q][l]]
<1>1. EntriesForgotten(r)
  BY Forgetting
<1>2. /\ linksTraversed' \in [Trackers -> [Requests -> [Links -> Nat]]]
      /\ linksTraversed'[u][r][l] = 0
      /\ \A q \in Requests \ {r} : linksTraversed'[u][q][l] = linksTraversed[u][q][l]
      /\ inProgress'[u][l] = IF u # dedupKeys[r] THEN inProgress[u][l]
                             ELSE IF u # NoKey /\ Alone(r) THEN 0 ELSE StillTraversed(u, r, l)
  BY <1>1 DEF EntriesForgotten
<1>3. g \in [Requests -> Nat] /\ h \in [Requests -> Nat]
  BY <1>2 DEF TypeOK
<1>4. Visits(u, l) = Counted(g) /\ Visits(u, l)' = Counted(h)
  BY DEF Visits, Counted
<1>5. IsFiniteSet(Counted(g)) /\ inProgress[u][l] = Cardinality(Counted(g))
  BY <1>4 DEF CountsAreExact
<1>6. h[r] = 0 /\ \A q \in Requests \ {r} : h[q] = g[q]
  BY <1>2
<1>7. u # dedupKeys[r] => g[r] = 0
  <2>1. OnlyInItsTracker(r)
    BY DEF ResponseInv
  <2> QED BY <1>3, <2>1 DEF OnlyInItsTracker
<1>8. u # NoKey /\ u = dedupKeys[r] /\ Alone(r) => \A q \in Requests : h[q] = 0
  <2>1. SUFFICES ASSUME u = dedupKeys[r], Alone(r), NEW q \in Requests, q # r
                 PROVE  g[q] = 0
    BY <1>6
  <2>2. OnlyInItsTracker(q)
    BY DEF ResponseInv
  <2>3. u # dedupKeys[q]
    BY <2>1 DEF Alone
  <2> QED BY <1>3, <2>2, <2>3 DEF OnlyInItsTracker
<1>9. StillTraversed(u, r, l) = inProgress[u][l] - g[r]
  BY DEF StillTraversed
<1> HIDE DEF g, h
<1>10. /\ IsFiniteSet(Counted(h))
       /\ Cardinality(Counted(h)) = Cardinality(Counted(g)) - g[r]
  BY <1>3, <1>5, <1>6, CountDown
<1>11. (\A q \in Requests : h[q] = 0) => Cardinality(Counted(h)) = 0
  BY <1>3, CountSome
<1>12. Cardinality(Counted(g)) \in Nat
  BY <1>3, <1>5, CountSome
<1> QED BY <1>2, <1>4, <1>5, <1>7, <1>8, <1>9, <1>10, <1>11, <1>12

\* A tracker goes with the last response that has its key.
LEMMA ForgettingKeys ==
  ASSUME TypeOK, KeysHaveTrackers, NEW r \in Requests, FinishTracking(r)
  PROVE  /\ KeysHaveTrackers'
         /\ altTrackers' \subseteq Keys
         /\ dedupKeys' \in [Requests -> Trackers]
         /\ dedupKeys' = [dedupKeys EXCEPT ![r] = NoKey]
<1>1. dedupKeys \in [Requests -> Trackers] /\ altTrackers \subseteq Keys /\ NoKey \in Trackers
  BY DEF TypeOK, Trackers
<1>2. dedupKeys' = [dedupKeys EXCEPT ![r] = NoKey]
  BY DEF FinishTracking
<1>3. \A q \in Requests : dedupKeys'[q] = IF q = r THEN NoKey ELSE dedupKeys[q]
  BY <1>1, <1>2
<1>4. altTrackers' = IF dedupKeys[r] # NoKey /\ Alone(r) THEN altTrackers \ {dedupKeys[r]}
                                                         ELSE altTrackers
  BY DEF FinishTracking, Without, GetLinkTracker
<1>5. \A k : k \in altTrackers <=> k # NoKey /\ \E q \in Requests : dedupKeys[q] = k
  BY DEF KeysHaveTrackers
<1>6. \A k : k \in altTrackers' <=> k # NoKey /\ \E q \in Requests \ {r} : dedupKeys[q] = k
  BY <1>4, <1>5 DEF Alone
<1>7. \A k : k \in altTrackers' <=> k # NoKey /\ \E q \in Requests : dedupKeys'[q] = k
  BY <1>3, <1>6
<1> QED BY <1>1, <1>2, <1>4, <1>7 DEF KeysHaveTrackers

-----------------------------------------------------------------------------
(* What a step leaves alone *)

\* What is known of a response stays known when a step changes nothing of it.
LEMMA OthersKeep ==
  ASSUME TypeOK, NEW q \in Requests, ResponseInv(q),
         phase'[q] = phase[q], dedupKeys'[q] = dedupKeys[q],
         skipFirstBlocks'[q] = skipFirstBlocks[q], blockSentCount'[q] = blockSentCount[q],
         loads'[q] = loads[q], status'[q] = status[q],
         \A u \in Trackers : /\ linksTraversed'[u][q] = linksTraversed[u][q]
                             /\ missingBlocks'[u][q] = missingBlocks[u][q]
  PROVE  ResponseInv(q)'
<1>1. dedupKeys[q] \in Trackers
  BY DEF TypeOK
<1>2. PhaseFits(q)'
  BY DEF ResponseInv, PhaseFits
<1>3. OnlyInItsTracker(q)'
  BY DEF ResponseInv, OnlyInItsTracker
<1>4. VisitsAreListed(q)'
  BY <1>1 DEF ResponseInv, VisitsAreListed
<1>5. StatusIsTrue(q)'
  BY DEF ResponseInv, StatusIsTrue
<1> QED BY <1>2, <1>3, <1>4, <1>5 DEF ResponseInv

\* The operation of an executor has the fields it was given.
LEMMA OperationFields ==
  ASSUME NEW r \in Requests, NEW t \in Trackers, NEW l \in AnyLink,
         NEW h \in BOOLEAN, NEW b \in BOOLEAN
  PROVE  /\ BlockOperation(r, t, l, h, b) \in Operations
         /\ BlockOperation(r, t, l, h, b).request = r
         /\ BlockOperation(r, t, l, h, b).tracker = t
         /\ BlockOperation(r, t, l, h, b).link = l
         /\ BlockOperation(r, t, l, h, b).hasBlock = h
         /\ BlockOperation(r, t, l, h, b).sendBlock = b
BY DEF BlockOperation, Operations

\* What an executor that has recorded nothing has neither has a block nor sends one.
LEMMA NoOperationType ==
  ASSUME NEW r \in Requests
  PROVE  /\ NoOperation(r) \in Operations
         /\ NoOperation(r).hasBlock = FALSE
         /\ NoOperation(r).sendBlock = FALSE
<1>1. NoKey \in Trackers /\ NoLink \in AnyLink
  BY DEF Trackers, AnyLink
<1> QED BY <1>1 DEF NoOperation, BlockOperation, Operations

\* An operation is recorded by an executor or in a message.
LEMMA RecordedMember ==
  \A op : op \in Recorded <=> \/ \E r \in Requests : op = operation[r]
                             \/ \E i \in DOMAIN queue : op \in queue[i].ops
BY DEF Recorded

\* A block is withheld by an operation that has it and does not send it.
LEMMA WithholdsMember ==
  ASSUME NEW S
  PROVE  \A b : b \in Withholds(S)
            <=> \E op \in S : op.hasBlock /\ ~op.sendBlock /\ b = <<op.tracker, op.link>>
BY DEF Withholds

\* A block is provided by a message that has it and an operation with its link.
LEMMA ProvidesMember ==
  ASSUME NEW m
  PROVE  \A b : b \in Provides(m) <=> \E op \in m.ops : /\ op.hasBlock /\ op.link \in m.blocks
                                                       /\ b = <<op.tracker, op.link>>
BY DEF Provides

\* A queue provides what its messages do.
LEMMA ProvidedMember ==
  ASSUME NEW q
  PROVE  \A b : b \in Provided(q) <=> \E i \in DOMAIN q : b \in Provides(q[i])
BY DEF Provided

\* What a message provides and withholds are links of trackers.
LEMMA MessageBlocks ==
  ASSUME NEW m \in Messages
  PROVE  /\ Provides(m) \subseteq Trackers \X AnyLink
         /\ Withholds(m.ops) \subseteq Trackers \X AnyLink
<1>1. \A op \in m.ops : op.tracker \in Trackers /\ op.link \in AnyLink
  BY DEF Messages, Operations
<1>2. \A op \in m.ops : <<op.tracker, op.link>> \in Trackers \X AnyLink
  BY <1>1
<1> QED BY <1>2, ProvidesMember, WithholdsMember

\* A link stays covered when what the queue provided is still there, was sent or
\* lost, and what an executor is to send stays with it or goes the same way.
LEMMA CoveredKeeps ==
  ASSUME sent \subseteq sent', lost \subseteq lost', claimed \subseteq claimed',
         \A b \in Provided(queue) : b \in Provided(queue') \/ b \in sent' \/ b \in lost',
         \A q \in Requests : \A u, k : operation[q] = BlockOperation(q, u, k, TRUE, TRUE)
           => Covered(u, k)'
  PROVE  \A t, l : Covered(t, l) => Covered(t, l)'
BY DEF Covered

\* No block is withheld anew when only operations are added that say nothing.
LEMMA WithheldShrinks ==
  ASSUME \A op \in Recorded' : op \in Recorded \/ ~op.hasBlock
  PROVE  Withholds(Recorded') \subseteq Withholds(Recorded)
<1> SUFFICES ASSUME NEW b \in Withholds(Recorded')
             PROVE  b \in Withholds(Recorded)
  OBVIOUS
<1>1. PICK op \in Recorded' : op.hasBlock /\ ~op.sendBlock /\ b = <<op.tracker, op.link>>
  BY WithholdsMember
<1>2. op \in Recorded
  BY <1>1
<1> QED BY <1>1, <1>2, WithholdsMember

\* A step that keeps what is covered, withholds nothing anew and visits no link anew
\* that was not claimed leaves every visited and every withheld link covered.
LEMMA CoverageFollows ==
  ASSUME VisitedIsCovered, WithheldIsSentOrClaimed,
         \A t, l : Covered(t, l) => Covered(t, l)',
         withheld' \union Withholds(Recorded') \subseteq withheld \union Withholds(Recorded),
         \A t \in Trackers : \A r \in Requests : \A l \in Links :
           linksTraversed'[t][r][l] > 0 => linksTraversed[t][r][l] > 0 \/ <<t, l>> \in claimed'
  PROVE  VisitedIsCovered' /\ WithheldIsSentOrClaimed'
<1>1. \A t, l : <<t, l>> \in claimed' => Covered(t, l)'
  BY DEF Covered
<1>2. VisitedIsCovered'
  BY <1>1 DEF VisitedIsCovered
<1>3. WithheldIsSentOrClaimed'
  <2>1. SUFFICES ASSUME NEW b \in withheld' \union Withholds(Recorded')
                 PROVE  Covered(b[1], b[2])'
    BY DEF WithheldIsSentOrClaimed
  <2>2. Covered(b[1], b[2])
    BY <2>1 DEF WithheldIsSentOrClaimed
  <2> QED BY <2>2
<1> QED BY <1>2, <1>3

\* A step that leaves the messages alone, records no operation, visits no link anew
\* and takes back no claim leaves every link covered.
LEMMA CoverageKeeps ==
  ASSUME TypeOK, VisitedIsCovered, WithheldIsSentOrClaimed,
         UNCHANGED <<operation, queue, sent, withheld, lost>>, claimed \subseteq claimed',
         \A t \in Trackers : \A r \in Requests : \A l \in Links :
           linksTraversed'[t][r][l] > 0 => linksTraversed[t][r][l] > 0 \/ <<t, l>> \in claimed'
  PROVE  VisitedIsCovered' /\ WithheldIsSentOrClaimed'
<1>1. Recorded' = Recorded
  BY DEF Recorded
<1>2. \A t, l : Covered(t, l) => Covered(t, l)'
  BY DEF Covered
<1> QED BY <1>1, <1>2, CoverageFollows

-----------------------------------------------------------------------------
(* The actions *)

\* prepareQuery takes the key of a request.
LEMMA ProcessDedupByKeyKeeps ==
  ASSUME IInv, NEW r \in Requests, ProcessDedupByKey(r)
  PROVE  IInv'
<1>1. /\ phase[r] = "new"
      /\ phase' = [phase EXCEPT ![r] = "keyed"]
      /\ UNCHANGED <<missingBlocks, linksTraversed, inProgress, blockSentCount, skipFirstBlocks,
                     operation, queue, sent, withheld, closed, lost, loads, status, claimed>>
  BY DEF ProcessDedupByKey, Move, tracker, work, messages
<1>2. PICK k \in Trackers : /\ dedupKeys' = [dedupKeys EXCEPT ![r] = k]
                            /\ altTrackers' = altTrackers \union ({k} \ {NoKey})
  <2>1. CASE \E key \in Keys : DedupKey(r, key)
    <3>1. PICK key \in Keys : DedupKey(r, key)
      BY <2>1
    <3>2. key # NoKey /\ key \in Trackers
      BY BoundsAssumption DEF Trackers
    <3>3. altTrackers' = altTrackers \union ({key} \ {NoKey})
      BY <3>1, <3>2 DEF DedupKey
    <3> QED BY <3>1, <3>2, <3>3 DEF DedupKey
  <2>2. CASE UNCHANGED <<dedupKeys, altTrackers>>
    <3>1. dedupKeys[r] = NoKey
      BY <1>1 DEF IInv, ResponseInv, PhaseFits
    <3>2. dedupKeys' = [dedupKeys EXCEPT ![r] = NoKey]
      BY <2>2, <3>1 DEF IInv, TypeOK
    <3> QED BY <2>2, <3>2 DEF Trackers
  <2> QED BY <2>1, <2>2 DEF ProcessDedupByKey
<1>3. dedupKeys[r] = NoKey /\ skipFirstBlocks[r] = 0 /\ loads[r] = <<>> /\ status[r] = "none"
  BY <1>1 DEF IInv, ResponseInv, PhaseFits
<1>4. TypeOK'
  BY <1>1, <1>2 DEF IInv, TypeOK, Phases, Trackers
<1>5. /\ phase'[r] = "keyed"
      /\ dedupKeys'[r] = k
      /\ \A q \in Requests \ {r} : phase'[q] = phase[q] /\ dedupKeys'[q] = dedupKeys[q]
  BY <1>1, <1>2 DEF IInv, TypeOK
<1>6. ASSUME NEW q \in Requests PROVE ResponseInv(q)'
  <2>1. CASE q = r
    <3>1. \A t \in Trackers : /\ missingBlocks[t][r] = {}
                              /\ \A l \in Links : ~(linksTraversed[t][r][l] > 0)
      BY <1>1 DEF IInv, ResponseInv, OnlyInItsTracker
    <3>2. PhaseFits(r)'
      BY <1>1, <1>3, <1>5 DEF IInv, ResponseInv, PhaseFits
    <3>3. OnlyInItsTracker(r)'
      BY <1>1, <3>1 DEF OnlyInItsTracker
    <3>4. VisitsAreListed(r)' /\ StatusIsTrue(r)'
      BY <1>1, <1>3, <1>5 DEF VisitsAreListed, StatusIsTrue
    <3> QED BY <2>1, <3>2, <3>3, <3>4 DEF ResponseInv
  <2>2. CASE q # r
    BY <1>1, <1>5, <2>2, OthersKeep DEF IInv
  <2> QED BY <2>1, <2>2
<1>7. KeysHaveTrackers'
  BY <1>2, <1>3, <1>5 DEF IInv, KeysHaveTrackers
<1>8. CountsAreExact'
  BY <1>1 DEF IInv, CountsAreExact, Visits
<1>9. VisitedIsCovered' /\ WithheldIsSentOrClaimed'
  BY <1>1, CoverageKeeps DEF IInv
<1> QED BY <1>4, <1>6, <1>7, <1>8, <1>9 DEF IInv

\* prepareQuery lists the blocks the peer has.
LEMMA ProcessDoNoSendCidsKeeps ==
  ASSUME IInv, NEW r \in Requests, ProcessDoNoSendCids(r)
  PROVE  IInv'
<1>1. PICK links \in SUBSET Links : /\ RecordLinks(dedupKeys[r], r, links, TRUE)
                                    /\ claimed' = claimed \union ({dedupKeys[r]} \X links)
  BY DEF ProcessDoNoSendCids, IgnoreBlocks, GetLinkTracker
<1>2. /\ phase[r] = "keyed"
      /\ phase' = [phase EXCEPT ![r] = "listed"]
      /\ UNCHANGED <<altTrackers, dedupKeys, blockSentCount, skipFirstBlocks,
                     operation, queue, sent, withheld, closed, lost, loads, status>>
  BY DEF ProcessDoNoSendCids, Move, work, messages
<1>3. dedupKeys[r] \in Trackers
  BY DEF IInv, TypeOK
<1>4. EntriesRecorded(dedupKeys[r], r, links, TRUE)
  BY <1>1, <1>3, Recording DEF IInv
<1>5. TypeOK'
  BY <1>1, <1>2, <1>3, <1>4 DEF IInv, TypeOK, Phases, EntriesRecorded
<1>6. phase'[r] = "listed" /\ \A q \in Requests \ {r} : phase'[q] = phase[q]
  BY <1>2 DEF IInv, TypeOK
<1>7. \A u \in Trackers : \A q \in Requests : missingBlocks'[u][q] = missingBlocks[u][q]
  BY <1>4 DEF EntriesRecorded
<1>8. \A u \in Trackers : \A q \in Requests : \A l \in Links :
        linksTraversed'[u][q][l] # linksTraversed[u][q][l]
          => u = dedupKeys[r] /\ q = r /\ l \in links
  BY <1>4 DEF EntriesRecorded
<1>9. ASSUME NEW q \in Requests PROVE ResponseInv(q)'
  <2>1. CASE q = r
    <3>1. PhaseFits(r)'
      BY <1>2, <1>6 DEF IInv, ResponseInv, PhaseFits
    <3>2. OnlyInItsTracker(r)'
      <4>1. OnlyInItsTracker(r)
        BY DEF IInv, ResponseInv
      <4> QED BY <1>2, <1>6, <1>7, <1>8, <4>1 DEF OnlyInItsTracker
    <3>3. VisitsAreListed(r)' /\ StatusIsTrue(r)'
      BY <1>2, <1>6 DEF IInv, ResponseInv, PhaseFits, VisitsAreListed, StatusIsTrue
    <3> QED BY <2>1, <3>1, <3>2, <3>3 DEF ResponseInv
  <2>2. CASE q # r
    <3>1. \A u \in Trackers : linksTraversed'[u][q] = linksTraversed[u][q]
      <4>1. SUFFICES ASSUME NEW u \in Trackers
                     PROVE  linksTraversed'[u][q] = linksTraversed[u][q]
        OBVIOUS
      <4>2. linksTraversed'[u][q] \in [Links -> Nat] /\ linksTraversed[u][q] \in [Links -> Nat]
        BY <1>4 DEF EntriesRecorded, IInv, TypeOK
      <4>3. \A l \in Links : linksTraversed'[u][q][l] = linksTraversed[u][q][l]
        BY <1>8, <2>2
      <4> QED BY <4>2, <4>3
    <3> QED BY <1>2, <1>6, <1>7, <2>2, <3>1, OthersKeep DEF IInv
  <2> QED BY <2>1, <2>2
<1>10. KeysHaveTrackers'
  BY <1>2 DEF IInv, KeysHaveTrackers
<1>11. CountsAreExact'
  BY <1>1, <1>3, RecordingCounts DEF IInv
<1>12. VisitedIsCovered' /\ WithheldIsSentOrClaimed'
  <2>1. \A u \in Trackers : \A q \in Requests : \A l \in Links :
          linksTraversed'[u][q][l] > 0 => linksTraversed[u][q][l] > 0 \/ <<u, l>> \in claimed'
    BY <1>1, <1>8
  <2> QED BY <1>1, <1>2, <2>1, CoverageKeeps DEF IInv
<1> QED BY <1>5, <1>9, <1>10, <1>11, <1>12 DEF IInv

\* prepareQuery takes the number of blocks to skip.
LEMMA ProcessDoNotSendFirstBlocksKeeps ==
  ASSUME IInv, NEW r \in Requests, ProcessDoNotSendFirstBlocks(r)
  PROVE  IInv'
<1>1. PICK n \in 0..MaxSkip : skipFirstBlocks' = [skipFirstBlocks EXCEPT ![r] = n]
  BY DEF ProcessDoNotSendFirstBlocks, SkipFirstBlocks
<1>2. /\ phase[r] = "listed"
      /\ phase' = [phase EXCEPT ![r] = "running"]
      /\ UNCHANGED <<missingBlocks, linksTraversed, inProgress, altTrackers, dedupKeys,
                     blockSentCount, operation, queue, sent, withheld, closed, lost, loads, status, claimed>>
  BY DEF ProcessDoNotSendFirstBlocks, Move, tracker, work, messages
<1>3. TypeOK'
  <2>1. skipFirstBlocks' \in [Requests -> Nat]
    BY <1>1, BoundsAssumption DEF IInv, TypeOK
  <2>2. phase' \in [Requests -> Phases]
    BY <1>2 DEF IInv, TypeOK, Phases
  <2> QED BY <1>2, <2>1, <2>2 DEF IInv, TypeOK
<1>4. /\ phase'[r] = "running"
      /\ \A q \in Requests \ {r} : /\ phase'[q] = phase[q]
                                   /\ skipFirstBlocks'[q] = skipFirstBlocks[q]
  BY <1>1, <1>2 DEF IInv, TypeOK
<1>5. ASSUME NEW q \in Requests PROVE ResponseInv(q)'
  <2>1. CASE q = r
    <3>1. loads[r] = <<>> /\ \A t \in Trackers : missingBlocks[t][r] = {}
      BY <1>2 DEF IInv, ResponseInv, PhaseFits, OnlyInItsTracker
    <3>2. dedupKeys[r] \in Trackers
      BY DEF IInv, TypeOK
    <3>3. PhaseFits(r)'
      BY <1>2, <1>4 DEF IInv, ResponseInv, PhaseFits
    <3>4. OnlyInItsTracker(r)'
      BY <1>2, <1>4 DEF IInv, ResponseInv, OnlyInItsTracker
    <3>5. VisitsAreListed(r)'
      BY <1>2, <1>4, <3>1, <3>2 DEF VisitsAreListed
    <3>6. StatusIsTrue(r)'
      BY <1>2 DEF IInv, ResponseInv, StatusIsTrue
    <3> QED BY <2>1, <3>3, <3>4, <3>5, <3>6 DEF ResponseInv
  <2>2. CASE q # r
    BY <1>2, <1>4, <2>2, OthersKeep DEF IInv
  <2> QED BY <2>1, <2>2
<1>6. KeysHaveTrackers' /\ CountsAreExact'
  BY <1>2 DEF IInv, KeysHaveTrackers, CountsAreExact, Visits
<1>7. VisitedIsCovered' /\ WithheldIsSentOrClaimed'
  BY <1>2, CoverageKeeps DEF IInv
<1> QED BY <1>3, <1>5, <1>6, <1>7 DEF IInv

\* An executor records a link that it has visited.
LEMMA SendResponseKeeps ==
  ASSUME IInv, NEW r \in Requests, NEW l \in Links, NEW hasBlock \in BOOLEAN,
         SendResponse(r, l, hasBlock)
  PROVE  IInv'
<1>a. PICK t \in Trackers : t = dedupKeys[r]
  BY DEF IInv, TypeOK
<1>b. PICK sendBlock \in BOOLEAN : sendBlock = (hasBlock /\ NotSkipped(r) /\ IsUnique(t, l))
  BY DEF NotSkipped, IsUnique
<1> DEFINE op == BlockOperation(r, t, l, hasBlock, sendBlock)
           load == [link |-> l, hasBlock |-> hasBlock]
<1>1. /\ phase[r] = "running"
      /\ operation[r] = NoOperation(r)
      /\ blockSentCount' = [blockSentCount EXCEPT ![r] = @ + 1]
      /\ RecordLinks(t, r, {l}, hasBlock)
      /\ operation' = [operation EXCEPT ![r] = op]
      /\ loads' = [loads EXCEPT ![r] = Append(@, load)]
      /\ claimed' = IF skipFirstBlocks[r] > Len(loads[r]) THEN claimed \union {<<t, l>>}
                                                          ELSE claimed
      /\ UNCHANGED <<phase, altTrackers, dedupKeys, skipFirstBlocks, queue, sent, withheld,
                     closed, lost, status>>
  BY <1>a, <1>b DEF SendResponse, GetLinkTracker, messages
<1>2. t \in Trackers /\ {l} \in SUBSET Links
  OBVIOUS
<1>4. op \in Operations /\ op.tracker = t /\ op.link = l /\ op.hasBlock = hasBlock
        /\ op.sendBlock = sendBlock
  BY OperationFields DEF AnyLink
<1>5. load \in Loads /\ load.link = l /\ load.hasBlock = hasBlock
  BY DEF Loads
<1> HIDE DEF op, load
<1>6. EntriesRecorded(t, r, {l}, hasBlock)
  BY <1>1, <1>2, Recording DEF IInv
<1>7. /\ loads[r] \in Seq(Loads) /\ blockSentCount[r] \in Nat /\ skipFirstBlocks[r] \in Nat
      /\ blockSentCount[r] = Len(loads[r])
      /\ status[r] = "none"
  BY <1>1 DEF IInv, TypeOK, ResponseInv, PhaseFits
<1>8. /\ loads'[r] = Append(loads[r], load)
      /\ blockSentCount'[r] = blockSentCount[r] + 1
      /\ operation'[r] = op
      /\ \A q \in Requests \ {r} : /\ loads'[q] = loads[q]
                                   /\ blockSentCount'[q] = blockSentCount[q]
                                   /\ operation'[q] = operation[q]
  BY <1>1 DEF IInv, TypeOK
<1>9. /\ loads'[r] \in Seq(Loads)
      /\ Len(loads'[r]) = Len(loads[r]) + 1
      /\ DOMAIN loads'[r] = 1..(Len(loads[r]) + 1)
      /\ DOMAIN loads[r] = 1..Len(loads[r])
      /\ \A i \in DOMAIN loads[r] : i \in DOMAIN loads'[r] /\ loads'[r][i] = loads[r][i]
      /\ Len(loads[r]) + 1 \in DOMAIN loads'[r]
      /\ loads'[r][Len(loads[r]) + 1] = load
  BY <1>5, <1>7, <1>8
<1>10. TypeOK'
  <2>1. claimed' \subseteq Trackers \X Links
    BY <1>1, <1>2 DEF IInv, TypeOK
  <2>2. loads' \in [Requests -> Seq(Loads)] /\ blockSentCount' \in [Requests -> Nat]
    BY <1>1, <1>5, <1>7 DEF IInv, TypeOK
  <2>3. operation' \in [Requests -> Operations]
    BY <1>1, <1>4 DEF IInv, TypeOK
  <2> QED BY <1>1, <1>6, <2>1, <2>2, <2>3 DEF IInv, TypeOK, EntriesRecorded
<1>11. /\ \A u \in Trackers : \A q \in Requests : \A k \in Links :
            /\ linksTraversed'[u][q][k] >= linksTraversed[u][q][k]
            /\ linksTraversed'[u][q][k] # linksTraversed[u][q][k]
                 => hasBlock /\ u = t /\ q = r /\ k = l
       /\ hasBlock => linksTraversed'[t][r][l] > 0
       /\ \A u \in Trackers : \A q \in Requests :
            missingBlocks'[u][q] = IF ~hasBlock /\ u = t /\ q = r
                                     THEN missingBlocks[u][q] \union {l} ELSE missingBlocks[u][q]
  <2>1. \A u \in Trackers : \A q \in Requests : \A k \in Links : linksTraversed[u][q][k] \in Nat
    BY DEF IInv, TypeOK
  <2>2. \A u \in Trackers : \A q \in Requests : \A k \in Links :
          linksTraversed'[u][q][k] = IF hasBlock /\ u = t /\ q = r /\ k = l
                                       THEN linksTraversed[u][q][k] + 1
                                       ELSE linksTraversed[u][q][k]
    BY <1>6 DEF EntriesRecorded
  <2>3. \A u \in Trackers : \A q \in Requests :
          missingBlocks'[u][q] = IF ~hasBlock /\ u = t /\ q = r
                                   THEN missingBlocks[u][q] \union {l} ELSE missingBlocks[u][q]
    BY <1>6 DEF EntriesRecorded
  <2>4. \A u \in Trackers : \A q \in Requests : \A k \in Links :
          /\ linksTraversed'[u][q][k] >= linksTraversed[u][q][k]
          /\ linksTraversed'[u][q][k] # linksTraversed[u][q][k]
               => hasBlock /\ u = t /\ q = r /\ k = l
    BY <2>1, <2>2
  <2>5. hasBlock => linksTraversed'[t][r][l] > 0
    BY <2>1, <2>2
  <2> QED BY <2>3, <2>4, <2>5
<1>12. ResponseInv(r)'
  <2>1. dedupKeys'[r] = t /\ phase'[r] = "running" /\ dedupKeys[r] = t
    BY <1>1, <1>a
  <2>2. PhaseFits(r)'
    BY <1>1, <1>7, <1>8, <1>9 DEF PhaseFits
  <2>3. OnlyInItsTracker(r)'
    <3>1. OnlyInItsTracker(r)
      BY DEF IInv, ResponseInv
    <3>2. ASSUME NEW u \in Trackers, NEW k \in Links, linksTraversed'[u][r][k] > 0
          PROVE  u = t
      <4>1. CASE linksTraversed'[u][r][k] = linksTraversed[u][r][k]
        BY <2>1, <3>1, <3>2, <4>1 DEF OnlyInItsTracker
      <4>2. CASE linksTraversed'[u][r][k] # linksTraversed[u][r][k]
        BY <1>11, <4>2
      <4> QED BY <4>1, <4>2
    <3>3. ASSUME NEW u \in Trackers, missingBlocks'[u][r] # {}
          PROVE  u = t
      BY <1>11, <2>1, <3>1, <3>3 DEF OnlyInItsTracker
    <3> QED BY <2>1, <3>2, <3>3 DEF OnlyInItsTracker
  <2>4. VisitsAreListed(r)'
    <3>1. VisitsAreListed(r)
      BY DEF IInv, ResponseInv
    <3>2. ASSUME NEW i \in DOMAIN loads'[r]
          PROVE  IF loads'[r][i].hasBlock THEN linksTraversed'[t][r][loads'[r][i].link] > 0
                                          ELSE loads'[r][i].link \in missingBlocks'[t][r]
      <4>1. CASE i \in DOMAIN loads[r]
        <5>1. loads'[r][i] = loads[r][i] /\ loads[r][i] \in Loads
          BY <1>7, <1>9, <4>1
        <5>2. loads[r][i].link \in Links
          BY <5>1 DEF Loads
        <5>3. IF loads[r][i].hasBlock THEN linksTraversed[t][r][loads[r][i].link] > 0
                                      ELSE loads[r][i].link \in missingBlocks[t][r]
          BY <1>1, <2>1, <3>1, <4>1 DEF VisitsAreListed
        <5>4. \A k \in Links : linksTraversed[t][r][k] \in Nat /\ linksTraversed'[t][r][k] \in Nat
          BY <1>2, <1>10 DEF IInv, TypeOK
        <5>5. missingBlocks[t][r] \subseteq missingBlocks'[t][r]
          BY <1>2, <1>11
        <5>6. linksTraversed'[t][r][loads[r][i].link] >= linksTraversed[t][r][loads[r][i].link]
          BY <1>2, <1>11, <5>2
        <5> QED BY <5>1, <5>2, <5>3, <5>4, <5>5, <5>6
      <4>2. CASE i \notin DOMAIN loads[r]
        <5>1. i = Len(loads[r]) + 1
          BY <1>7, <1>9, <4>2
        <5>2. loads'[r][i] = load
          BY <1>9, <5>1
        <5>3. ~hasBlock => l \in missingBlocks'[t][r]
          BY <1>2, <1>11
        <5> QED BY <1>5, <1>11, <5>2, <5>3
      <4> QED BY <4>1, <4>2
    <3>3. ASSUME missingBlocks'[t][r] # {}
          PROVE  \E i \in DOMAIN loads'[r] : ~loads'[r][i].hasBlock
      <4>1. CASE hasBlock
        <5>1. missingBlocks[t][r] # {}
          BY <1>2, <1>11, <3>3, <4>1
        <5>2. PICK i \in DOMAIN loads[r] : ~loads[r][i].hasBlock
          BY <1>1, <2>1, <3>1, <5>1 DEF VisitsAreListed
        <5> QED BY <1>9, <5>2
      <4>2. CASE ~hasBlock
        BY <1>5, <1>9, <4>2
      <4> QED BY <4>1, <4>2
    <3> QED BY <2>1, <3>2, <3>3 DEF VisitsAreListed
  <2>5. StatusIsTrue(r)'
    BY <1>1, <1>7 DEF StatusIsTrue
  <2> QED BY <2>2, <2>3, <2>4, <2>5 DEF ResponseInv
<1>13. ASSUME NEW q \in Requests, q # r PROVE ResponseInv(q)'
  <2>1. \A u \in Trackers : linksTraversed'[u][q] = linksTraversed[u][q]
    <3>1. SUFFICES ASSUME NEW u \in Trackers
                   PROVE  linksTraversed'[u][q] = linksTraversed[u][q]
      OBVIOUS
    <3>2. linksTraversed'[u][q] \in [Links -> Nat] /\ linksTraversed[u][q] \in [Links -> Nat]
      <4>1. linksTraversed \in [Trackers -> [Requests -> [Links -> Nat]]]
        BY DEF IInv, TypeOK
      <4>2. linksTraversed' \in [Trackers -> [Requests -> [Links -> Nat]]]
        BY <1>10 DEF TypeOK
      <4> QED BY <4>1, <4>2
    <3>3. \A k \in Links : linksTraversed'[u][q][k] = linksTraversed[u][q][k]
      BY <1>11, <1>13
    <3> QED BY <3>2, <3>3
  <2>2. \A u \in Trackers : missingBlocks'[u][q] = missingBlocks[u][q]
    BY <1>11, <1>13
  <2> QED BY <1>1, <1>8, <1>13, <2>1, <2>2, OthersKeep DEF IInv
<1>14. KeysHaveTrackers'
  BY <1>1 DEF IInv, KeysHaveTrackers
<1>15. CountsAreExact'
  BY <1>1, <1>2, RecordingCounts DEF IInv
<1>16. \A o \in Recorded' : o \in Recorded \/ o = op
  BY <1>1, <1>8 DEF Recorded
<1>17. claimed \subseteq claimed'
  BY <1>1
<1>18. \A u, k : Covered(u, k) => Covered(u, k)'
  <2>1. ASSUME NEW q \in Requests, NEW u, NEW k,
               operation[q] = BlockOperation(q, u, k, TRUE, TRUE)
        PROVE  Covered(u, k)'
    <3>1. operation[q].hasBlock = TRUE
      BY <2>1 DEF BlockOperation
    <3>2. q # r
      BY <1>1, <3>1, NoOperationType
    <3>3. operation'[q] = operation[q]
      BY <1>8, <3>2
    <3> QED BY <2>1, <3>3 DEF Covered
  <2> QED BY <1>1, <1>17, <2>1, CoveredKeeps
<1>19. hasBlock => Covered(t, l)'
  <2>1. CASE sendBlock
    <3>1. operation'[r] = BlockOperation(r, t, l, TRUE, TRUE)
      BY <1>b, <1>8, <2>1 DEF op
    <3> QED BY <3>1 DEF Covered
  <2>2. CASE hasBlock /\ ~NotSkipped(r)
    <3>1. skipFirstBlocks[r] > Len(loads[r])
      BY <1>7, <2>2 DEF NotSkipped
    <3> QED BY <1>1, <3>1 DEF Covered
  <2>3. CASE hasBlock /\ ~IsUnique(t, l)
    <3> DEFINE g == [q \in Requests |-> linksTraversed[t][q][l]]
    <3>1. g \in [Requests -> Nat]
      BY <1>2 DEF IInv, TypeOK
    <3>2. IsFiniteSet(Counted(g)) /\ inProgress[t][l] = Cardinality(Counted(g))
      BY <1>2 DEF IInv, CountsAreExact, Visits, Counted
    <3>3. inProgress[t][l] # 0
      BY <2>3 DEF IsUnique
    <3>4. \E q \in Requests : g[q] > 0
      <4> HIDE DEF g
      <4> QED BY <3>1, <3>2, <3>3, CountSome
    <3>5. Covered(t, l)
      BY <1>2, <3>4 DEF IInv, VisitedIsCovered
    <3> QED BY <1>18, <3>5
  <2> QED BY <1>b, <2>1, <2>2, <2>3
<1>20. VisitedIsCovered'
  <2>1. SUFFICES ASSUME NEW u \in Trackers, NEW q \in Requests, NEW k \in Links,
                        linksTraversed'[u][q][k] > 0
                 PROVE  Covered(u, k)'
    BY DEF VisitedIsCovered
  <2>2. CASE linksTraversed'[u][q][k] = linksTraversed[u][q][k]
    BY <1>18, <2>1, <2>2 DEF IInv, VisitedIsCovered
  <2>3. CASE linksTraversed'[u][q][k] # linksTraversed[u][q][k]
    BY <1>11, <1>19, <2>3
  <2> QED BY <2>2, <2>3
<1>21. WithheldIsSentOrClaimed'
  <2>1. SUFFICES ASSUME NEW b \in withheld' \union Withholds(Recorded')
                 PROVE  Covered(b[1], b[2])'
    BY DEF WithheldIsSentOrClaimed
  <2>2. CASE b \in withheld \union Withholds(Recorded)
    BY <1>18, <2>2 DEF IInv, WithheldIsSentOrClaimed
  <2>3. CASE b \notin withheld \union Withholds(Recorded)
    <3>1. b \in Withholds(Recorded')
      BY <1>1, <2>1, <2>3
    <3>2. PICK o \in Recorded' : o.hasBlock /\ ~o.sendBlock /\ b = <<o.tracker, o.link>>
      BY <3>1, WithholdsMember
    <3>3. o \notin Recorded
      BY <2>3, <3>2, WithholdsMember
    <3>4. o = op
      BY <1>16, <3>3
    <3>5. hasBlock /\ b = <<t, l>>
      BY <1>4, <3>2, <3>4
    <3> QED BY <1>19, <3>5
  <2> QED BY <2>2, <2>3
<1> QED BY <1>10, <1>12, <1>13, <1>14, <1>15, <1>20, <1>21 DEF IInv

\* A step of the messages leaves what is tracked alone.
LEMMA MessagesKeep ==
  ASSUME IInv, TypeOK',
         UNCHANGED <<phase, missingBlocks, linksTraversed, inProgress, altTrackers, dedupKeys,
                     blockSentCount, skipFirstBlocks, loads, claimed, status>>,
         \A t, l : Covered(t, l) => Covered(t, l)',
         withheld' \union Withholds(Recorded') \subseteq withheld \union Withholds(Recorded)
  PROVE  IInv'
<1>1. \A q \in Requests : ResponseInv(q)'
  BY OthersKeep DEF IInv
<1>2. KeysHaveTrackers' /\ CountsAreExact'
  BY DEF IInv, KeysHaveTrackers, CountsAreExact, Visits
<1>3. VisitedIsCovered' /\ WithheldIsSentOrClaimed'
  BY CoverageFollows DEF IInv
<1> QED BY <1>1, <1>2, <1>3 DEF IInv

\* A message that an operation is put into has what it had, and the block if there
\* is one to send.
LEMMA PutIs ==
  ASSUME NEW m \in Messages, NEW op \in Operations
  PROVE  /\ Put(m, op) \in Messages
         /\ Put(m, op).ops = m.ops \union {op}
         /\ Provides(m) \subseteq Provides(Put(m, op))
         /\ op.hasBlock /\ op.sendBlock => <<op.tracker, op.link>> \in Provides(Put(m, op))
<1>1. /\ m.ops \subseteq Operations /\ m.blocks \subseteq AnyLink /\ op.link \in AnyLink
  BY DEF Messages, Operations
<1>2. /\ Put(m, op).ops = m.ops \union {op}
      /\ Put(m, op).blocks = m.blocks \union (IF op.sendBlock THEN {op.link} ELSE {})
  BY DEF Put
<1>3. Put(m, op) \in Messages
  BY <1>1 DEF Put, Messages
<1>4. Provides(m) \subseteq Provides(Put(m, op))
  BY <1>2, ProvidesMember
<1>5. op.hasBlock /\ op.sendBlock => <<op.tracker, op.link>> \in Provides(Put(m, op))
  BY <1>2, ProvidesMember
<1> QED BY <1>2, <1>3, <1>4, <1>5

\* The positions before the last one.
LEMMA BeforeLast ==
  ASSUME NEW k \in Nat, NEW n \in Nat, n = k + 1
  PROVE  /\ \A i \in 1..k : i \in 1..n
         /\ \A i \in 1..n : i # n => i \in 1..k
         /\ n \notin 1..k
OBVIOUS

\* The length of a sequence, and one more.
LEMMA LengthType ==
  ASSUME NEW S, NEW s \in Seq(S)
  PROVE  Len(s) \in Nat /\ Len(s) + 1 \in Nat
OBVIOUS

\* An operation is put into the last message, or into a new one.
LEMMA BuildsKeep ==
  ASSUME IInv, NEW r \in Requests, NEW n \in Nat, NEW m \in Messages,
         \/ /\ n = Len(queue) + 1
            /\ m = NewMessage
         \/ /\ n = Len(queue)
            /\ n > 0
            /\ m = queue[n],
         queue' \in Seq(Messages), Len(queue') = n,
         queue'[n] = Put(m, operation[r]),
         \A i \in 1..n : i # n => queue'[i] = queue[i],
         operation' = [operation EXCEPT ![r] = NoOperation(r)],
         UNCHANGED <<phase, missingBlocks, linksTraversed, inProgress, altTrackers, dedupKeys,
                     blockSentCount, skipFirstBlocks, sent, withheld, closed, lost, loads,
                     claimed, status>>
  PROVE  IInv'
<1> DEFINE op == operation[r]
<1>1. /\ queue \in Seq(Messages) /\ op \in Operations /\ operation \in [Requests -> Operations]
  BY DEF IInv, TypeOK
<1>2. \A q \in Requests : operation'[q] = IF q = r THEN NoOperation(r) ELSE operation[q]
  BY <1>1
<1>3. TypeOK'
  <2>1. operation' \in [Requests -> Operations]
    BY <1>1, NoOperationType
  <2> QED BY <2>1 DEF IInv, TypeOK
<1>4. /\ DOMAIN queue = 1..Len(queue) /\ DOMAIN queue' = 1..n /\ Len(queue) \in Nat
      /\ n \in DOMAIN queue'
  BY <1>1
<1>m. /\ \A i \in DOMAIN queue : i \in 1..n
      /\ \A i \in 1..n : i # n => i \in DOMAIN queue
      /\ m = NewMessage \/ (m = queue[n] /\ n \in DOMAIN queue)
      /\ n \in DOMAIN queue => m = queue[n]
  <2>1. CASE n = Len(queue) + 1 /\ m = NewMessage
    BY <1>4, <2>1, BeforeLast, Zenon
  <2>2. CASE n = Len(queue) /\ n > 0 /\ m = queue[n]
    BY <1>4, <2>2, Zenon
  <2> QED BY <2>1, <2>2
<1>5. /\ Put(m, op).ops = m.ops \union {op}
      /\ Provides(m) \subseteq Provides(Put(m, op))
      /\ op.hasBlock /\ op.sendBlock => <<op.tracker, op.link>> \in Provides(Put(m, op))
  BY <1>1, PutIs
<1>6. \A i \in DOMAIN queue : i \in DOMAIN queue' /\ Provides(queue[i]) \subseteq Provides(queue'[i])
  <2>1. SUFFICES ASSUME NEW i \in DOMAIN queue
                 PROVE  i \in DOMAIN queue' /\ Provides(queue[i]) \subseteq Provides(queue'[i])
    OBVIOUS
  <2>2. CASE i # n
    <3>1. queue'[i] = queue[i] /\ i \in DOMAIN queue'
      BY <1>4, <1>m, <2>2, Zenon
    <3> QED BY <3>1
  <2>3. CASE i = n
    <3>1. i = n /\ m = queue[n]
      BY <1>m, <2>1, <2>3
    <3> QED BY <1>4, <1>5, <3>1, Zenon
  <2> QED BY <2>2, <2>3
<1>7. Provided(queue) \subseteq Provided(queue')
  BY <1>6, ProvidedMember, Zenon
<1>8. Provides(queue'[n]) \subseteq Provided(queue')
  BY <1>4, ProvidedMember, Zenon
<1>9. \A t, l : Covered(t, l) => Covered(t, l)'
  <2>1. ASSUME NEW q \in Requests, NEW u, NEW k,
               operation[q] = BlockOperation(q, u, k, TRUE, TRUE)
        PROVE  Covered(u, k)'
    <3>1. CASE q = r
      <4>1. op.hasBlock /\ op.sendBlock /\ op.tracker = u /\ op.link = k
        BY <2>1, <3>1 DEF BlockOperation
      <4>2. <<u, k>> \in Provided(queue')
        BY <1>5, <1>8, <4>1
      <4> QED BY <4>2 DEF Covered
    <3>2. CASE q # r
      BY <1>2, <2>1, <3>2 DEF Covered
    <3> QED BY <3>1, <3>2
  <2> QED BY <1>7, <2>1, CoveredKeeps
<1>10. \A o \in Recorded' : o \in Recorded \/ ~o.hasBlock
  <2>1. SUFFICES ASSUME NEW o \in Recorded'
                 PROVE  o \in Recorded \/ ~o.hasBlock
    OBVIOUS
  <2>2. CASE \E q \in Requests : o = operation'[q]
    <3>1. PICK q \in Requests : o = operation'[q]
      BY <2>2
    <3>2. o = NoOperation(r) \/ o = operation[q]
      BY <1>2, <3>1
    <3>3. ~NoOperation(r).hasBlock
      BY NoOperationType
    <3>4. operation[q] \in Recorded
      BY RecordedMember
    <3> QED BY <3>2, <3>3, <3>4
  <2>3. CASE \E i \in DOMAIN queue' : o \in queue'[i].ops
    <3>1. PICK i \in DOMAIN queue' : o \in queue'[i].ops
      BY <2>3
    <3>2. CASE i # n
      <4>1. i \in DOMAIN queue /\ queue'[i] = queue[i]
        BY <1>4, <1>m, <3>1, <3>2, Zenon
      <4> QED BY <3>1, <4>1, RecordedMember
    <3>3. CASE i = n
      <4>1. o \in m.ops \/ o = op
        BY <1>5, <3>1, <3>3
      <4>2. NewMessage.ops = {}
        BY DEF NewMessage
      <4>3. o \in m.ops => n \in DOMAIN queue /\ m = queue[n]
        BY <1>m, <4>2
      <4> QED BY <4>1, <4>3, RecordedMember
    <3> QED BY <3>2, <3>3
  <2> QED BY <2>1, <2>2, <2>3 DEF Recorded
<1>11. Withholds(Recorded') \subseteq Withholds(Recorded)
  BY <1>10, WithheldShrinks
<1> QED BY <1>3, <1>9, <1>11, MessagesKeep

\* An operation is put into a message, or is lost because the stream is closed.
LEMMA BuildKeeps ==
  ASSUME IInv, NEW r \in Requests, Build(r)
  PROVE  IInv'
<1> DEFINE op == operation[r]
<1>1. /\ operation' = [operation EXCEPT ![r] = NoOperation(r)]
      /\ UNCHANGED <<phase, missingBlocks, linksTraversed, inProgress, altTrackers, dedupKeys,
                     blockSentCount, skipFirstBlocks, sent, withheld, closed, loads, claimed,
                     status>>
  BY DEF Build, tracker
<1>2. /\ queue \in Seq(Messages) /\ op \in Operations /\ operation \in [Requests -> Operations]
      /\ Len(queue) \in Nat /\ lost \subseteq Trackers \X AnyLink
  BY DEF IInv, TypeOK
<1>3. CASE queue' = Append(queue, Put(NewMessage, op)) /\ UNCHANGED lost
  <2>1. NewMessage \in Messages
    BY DEF NewMessage, Messages
  <2>2. Put(NewMessage, op) \in Messages
    BY <1>2, <2>1, PutIs
  <2> DEFINE n == Len(queue) + 1
  <2>3. /\ queue' \in Seq(Messages) /\ Len(queue') = n
        /\ queue'[n] = Put(NewMessage, op)
        /\ \A i \in 1..n : i # n => queue'[i] = queue[i]
    BY <1>2, <1>3, <2>2
  <2>4. n \in Nat
    BY <1>2, LengthType, Zenon
  <2> QED BY <1>1, <1>3, <2>1, <2>3, <2>4, BuildsKeep
<1>4. CASE /\ queue # <<>> /\ UNCHANGED lost
           /\ queue' = [queue EXCEPT ![Len(queue)] = Put(@, op)]
  <2> DEFINE n == Len(queue)
  <2>1. n \in Nat /\ n > 0 /\ DOMAIN queue = 1..n /\ n \in DOMAIN queue /\ queue[n] \in Messages
    BY <1>2, <1>4
  <2>2. Put(queue[n], op) \in Messages
    BY <1>2, <2>1, PutIs, Zenon
  <2>3. queue' = [queue EXCEPT ![n] = Put(queue[n], op)]
    BY <1>4
  <2>4. queue' \in Seq(Messages) /\ Len(queue') = n
    BY <1>2, <2>1, <2>2, <2>3
  <2>5. queue'[n] = Put(queue[n], op) /\ \A i \in 1..n : i # n => queue'[i] = queue[i]
    BY <2>1, <2>3, Zenon
  <2> QED BY <1>1, <1>4, <2>1, <2>4, <2>5, BuildsKeep, Zenon
<1>5. CASE /\ lost' = lost \union (IF op.sendBlock THEN {<<op.tracker, op.link>>} ELSE {})
           /\ UNCHANGED queue
  <2>1. \A q \in Requests : operation'[q] = IF q = r THEN NoOperation(r) ELSE operation[q]
    BY <1>1, <1>2
  <2>2. TypeOK'
    <3>1. operation' \in [Requests -> Operations]
      BY <1>1, <1>2, NoOperationType
    <3>2. <<op.tracker, op.link>> \in Trackers \X AnyLink
      BY <1>2 DEF Operations
    <3>3. lost' \subseteq Trackers \X AnyLink
      BY <1>2, <1>5, <3>2
    <3> QED BY <1>1, <1>5, <3>1, <3>3 DEF IInv, TypeOK
  <2>3. \A t, l : Covered(t, l) => Covered(t, l)'
    <3>1. ASSUME NEW q \in Requests, NEW u, NEW k,
                 operation[q] = BlockOperation(q, u, k, TRUE, TRUE)
          PROVE  Covered(u, k)'
      <4>1. CASE q = r
        <5>1. op.sendBlock /\ op.tracker = u /\ op.link = k
          BY <3>1, <4>1 DEF BlockOperation
        <5>2. <<u, k>> \in lost'
          BY <1>5, <5>1
        <5> QED BY <5>2 DEF Covered
      <4>2. CASE q # r
        BY <2>1, <3>1, <4>2 DEF Covered
      <4> QED BY <4>1, <4>2
    <3> QED BY <1>1, <1>5, <3>1, CoveredKeeps
  <2>4. \A o \in Recorded' : o \in Recorded \/ ~o.hasBlock
    <3>1. \A o \in Recorded' : o = NoOperation(r) \/ o \in Recorded
      BY <1>5, <2>1 DEF Recorded
    <3> QED BY <3>1, NoOperationType
  <2>5. Withholds(Recorded') \subseteq Withholds(Recorded)
    BY <2>4, WithheldShrinks
  <2> QED BY <1>1, <2>2, <2>3, <2>5, MessagesKeep
<1> QED BY <1>3, <1>4, <1>5 DEF Build

\* A message is sent: what it provided has arrived.
LEMMA MessageSentKeeps ==
  ASSUME IInv, MessageSent
  PROVE  IInv'
<1> DEFINE m == Head(queue)
<1>1. /\ queue # <<>> /\ queue' = Tail(queue)
      /\ sent' = sent \union Provides(m)
      /\ withheld' = withheld \union Withholds(m.ops)
      /\ UNCHANGED <<phase, missingBlocks, linksTraversed, inProgress, altTrackers, dedupKeys,
                     blockSentCount, skipFirstBlocks, operation, closed, lost, loads, claimed,
                     status>>
  BY DEF MessageSent, tracker
<1>2. queue \in Seq(Messages)
  BY DEF IInv, TypeOK
<1>3. /\ m \in Messages /\ m = queue[1] /\ 1 \in DOMAIN queue /\ queue' \in Seq(Messages)
      /\ \A i \in DOMAIN queue' : i + 1 \in DOMAIN queue /\ queue'[i] = queue[i + 1]
      /\ \A i \in DOMAIN queue : i # 1 => i - 1 \in DOMAIN queue' /\ queue'[i - 1] = queue[i]
  BY <1>1, <1>2
<1> HIDE DEF m
<1>4. TypeOK'
  <2>1. Provides(m) \subseteq Trackers \X AnyLink /\ Withholds(m.ops) \subseteq Trackers \X AnyLink
    BY <1>3, MessageBlocks
  <2>2. sent' \subseteq Trackers \X AnyLink /\ withheld' \subseteq Trackers \X AnyLink
    BY <1>1, <2>1 DEF IInv, TypeOK
  <2> QED BY <1>1, <1>3, <2>2 DEF IInv, TypeOK
<1>5. ASSUME NEW b \in Provided(queue)
      PROVE  b \in Provided(queue') \/ b \in sent'
  <2>1. PICK i \in DOMAIN queue : b \in Provides(queue[i])
    BY <1>5, ProvidedMember
  <2>2. CASE i = 1
    BY <1>1, <1>3, <2>1, <2>2
  <2>3. CASE i # 1
    <3>1. i - 1 \in DOMAIN queue' /\ queue'[i - 1] = queue[i]
      BY <1>3, <2>3
    <3>2. b \in Provides(queue'[i - 1])
      BY <2>1, <3>1
    <3> QED BY <3>1, <3>2, ProvidedMember
  <2> QED BY <2>2, <2>3
<1>6. \A t, l : Covered(t, l) => Covered(t, l)'
  <2>1. \A q \in Requests : \A u, k : operation[q] = BlockOperation(q, u, k, TRUE, TRUE)
          => Covered(u, k)'
    BY <1>1 DEF Covered
  <2> QED BY <1>1, <1>5, <2>1, CoveredKeeps
<1>7. \A o \in Recorded' : o \in Recorded
  BY <1>1, <1>3 DEF Recorded
<1>8. \A o \in m.ops : o \in Recorded
  BY <1>3 DEF Recorded
<1>9. Withholds(Recorded') \subseteq Withholds(Recorded)
  BY <1>7, WithheldShrinks
<1>10. Withholds(m.ops) \subseteq Withholds(Recorded)
  BY <1>8, WithholdsMember
<1>11. withheld' \union Withholds(Recorded') \subseteq withheld \union Withholds(Recorded)
  BY <1>1, <1>9, <1>10
<1> QED BY <1>1, <1>4, <1>6, <1>11, MessagesKeep

\* A message fails: what it provided is lost, and what is scrubbed with its responses.
LEMMA MessageFailedKeeps ==
  ASSUME IInv, MessageFailed
  PROVE  IInv'
<1> DEFINE gone == {op.request : op \in Head(queue).ops}
           rest == [i \in DOMAIN Tail(queue) |-> Scrubbed(Tail(queue)[i], gone)]
           kept == {i \in DOMAIN rest : rest[i].ops # {}}
<1>1. /\ queue # <<>>
      /\ closed' = closed \union gone
      /\ lost' = lost \union (Provided(queue) \ Provided(queue'))
      /\ UNCHANGED <<phase, missingBlocks, linksTraversed, inProgress, altTrackers, dedupKeys,
                     blockSentCount, skipFirstBlocks, operation, sent, withheld, loads, claimed,
                     status>>
  BY DEF MessageFailed, tracker
<1>2. PICK n \in 0..Len(queue) : \E order \in Ascending(n, kept) :
        queue' = [k \in 1..n |-> rest[order[k]]]
  BY Zenon DEF MessageFailed
<1>3. PICK order \in Ascending(n, kept) : queue' = [k \in 1..n |-> rest[order[k]]]
  BY <1>2
<1>4. order \in [1..n -> kept]
  BY <1>3 DEF Ascending, Surjection
<1>5. queue \in Seq(Messages)
  BY DEF IInv, TypeOK
<1>6. /\ Head(queue) \in Messages /\ Len(queue) \in Nat
      /\ \A i \in DOMAIN Tail(queue) : /\ i + 1 \in DOMAIN queue
                                       /\ Tail(queue)[i] = queue[i + 1]
                                       /\ Tail(queue)[i] \in Messages
  BY <1>1, <1>5
<1>7. \A i \in kept : /\ i \in DOMAIN Tail(queue)
                     /\ rest[i] = Scrubbed(Tail(queue)[i], gone)
  OBVIOUS
<1>8. gone \subseteq Requests
  BY <1>6 DEF Messages, Operations
<1> HIDE DEF gone, rest, kept
<1>9. ASSUME NEW m \in Messages
      PROVE  Scrubbed(m, gone) \in Messages /\ Scrubbed(m, gone).ops \subseteq m.ops
  BY DEF Scrubbed, Messages
<1>10. DOMAIN queue' = 1..n /\ \A k \in 1..n :
         /\ queue'[k] = rest[order[k]] /\ order[k] \in kept
  BY <1>3, <1>4
<1>11. \A k \in 1..n : /\ queue'[k] \in Messages
                       /\ \E i \in DOMAIN queue : queue'[k].ops \subseteq queue[i].ops
  <2>1. SUFFICES ASSUME NEW k \in 1..n
                 PROVE  /\ queue'[k] \in Messages
                        /\ \E i \in DOMAIN queue : queue'[k].ops \subseteq queue[i].ops
    OBVIOUS
  <2>2. PICK i \in DOMAIN Tail(queue) : queue'[k] = Scrubbed(Tail(queue)[i], gone)
    BY <1>7, <1>10
  <2>3. i + 1 \in DOMAIN queue /\ Tail(queue)[i] = queue[i + 1] /\ Tail(queue)[i] \in Messages
    BY <1>6
  <2>4. queue'[k] \in Messages /\ queue'[k].ops \subseteq queue[i + 1].ops
    BY <1>9, <2>2, <2>3
  <2> QED BY <2>3, <2>4
<1>12. TypeOK'
  <2>1. queue' \in [1..n -> Messages] /\ n \in Nat
    BY <1>3, <1>6, <1>11
  <2>2. queue' \in Seq(Messages)
    BY <2>1
  <2>3. Provided(queue) \subseteq Trackers \X AnyLink
    BY <1>5, ProvidedMember, MessageBlocks
  <2>4. lost' \subseteq Trackers \X AnyLink
    BY <1>1, <2>3 DEF IInv, TypeOK
  <2> QED BY <1>1, <1>8, <2>2, <2>4 DEF IInv, TypeOK
<1>13. \A t, l : Covered(t, l) => Covered(t, l)'
  <2>1. \A q \in Requests : \A u, k : operation[q] = BlockOperation(q, u, k, TRUE, TRUE)
          => Covered(u, k)'
    BY <1>1 DEF Covered
  <2>2. \A b \in Provided(queue) : b \in Provided(queue') \/ b \in lost'
    BY <1>1
  <2> QED BY <1>1, <2>1, <2>2, CoveredKeeps
<1>14. \A o \in Recorded' : o \in Recorded
  <2>1. \A k \in DOMAIN queue' : \A o \in queue'[k].ops : \E i \in DOMAIN queue : o \in queue[i].ops
    BY <1>10, <1>11
  <2> QED BY <1>1, <2>1 DEF Recorded
<1>15. Withholds(Recorded') \subseteq Withholds(Recorded)
  BY <1>14, WithheldShrinks
<1> QED BY <1>1, <1>12, <1>13, <1>15, MessagesKeep

\* A response that ends takes what it tracked with it, and nothing else.
LEMMA EndKeeps ==
  ASSUME IInv, NEW r \in Requests, NEW s \in {"full", "partial", "failed"},
         phase' = [phase EXCEPT ![r] = "finished"],
         status' = [status EXCEPT ![r] = s],
         s \in {"full", "partial"}
           => (s = "full" <=> \A i \in DOMAIN loads[r] : loads[r][i].hasBlock),
         FinishTracking(r),
         UNCHANGED <<operation, queue, sent, withheld, closed, lost, loads, claimed>>
  PROVE  IInv'
<1>1. EntriesForgotten(r)
  BY Forgetting DEF IInv
<1>2. /\ KeysHaveTrackers'
      /\ altTrackers' \subseteq Keys
      /\ dedupKeys' \in [Requests -> Trackers]
      /\ dedupKeys' = [dedupKeys EXCEPT ![r] = NoKey]
  BY ForgettingKeys DEF IInv
<1>3. /\ blockSentCount' = [blockSentCount EXCEPT ![r] = 0]
      /\ skipFirstBlocks' = [skipFirstBlocks EXCEPT ![r] = 0]
  BY DEF FinishTracking
<1>4. TypeOK'
  <2>1. /\ phase' \in [Requests -> Phases]
        /\ status' \in [Requests -> {"none", "full", "partial", "failed"}]
    BY DEF IInv, TypeOK, Phases
  <2>2. blockSentCount' \in [Requests -> Nat] /\ skipFirstBlocks' \in [Requests -> Nat]
    BY <1>3 DEF IInv, TypeOK
  <2> QED BY <1>1, <1>2, <2>1, <2>2 DEF IInv, TypeOK, EntriesForgotten
<1>5. /\ phase'[r] = "finished" /\ status'[r] = s /\ dedupKeys'[r] = NoKey
      /\ skipFirstBlocks'[r] = 0
      /\ \A q \in Requests \ {r} :
           /\ phase'[q] = phase[q] /\ status'[q] = status[q] /\ dedupKeys'[q] = dedupKeys[q]
           /\ skipFirstBlocks'[q] = skipFirstBlocks[q]
           /\ blockSentCount'[q] = blockSentCount[q]
  BY <1>2, <1>3 DEF IInv, TypeOK
<1>6. /\ \A u \in Trackers : \A q \in Requests \ {r} :
           /\ linksTraversed'[u][q] = linksTraversed[u][q]
           /\ missingBlocks'[u][q] = missingBlocks[u][q]
      /\ \A u \in Trackers :
           missingBlocks'[u][r] = {} /\ \A l \in Links : linksTraversed'[u][r][l] = 0
  BY <1>1 DEF EntriesForgotten
<1>7. ResponseInv(r)'
  <2>1. PhaseFits(r)' /\ VisitsAreListed(r)' /\ StatusIsTrue(r)'
    BY <1>5 DEF PhaseFits, VisitsAreListed, StatusIsTrue
  <2>2. OnlyInItsTracker(r)'
    BY <1>6 DEF OnlyInItsTracker
  <2> QED BY <2>1, <2>2 DEF ResponseInv
<1>8. \A q \in Requests \ {r} : ResponseInv(q)'
  BY <1>5, <1>6, OthersKeep DEF IInv
<1>9. CountsAreExact'
  BY ForgettingCounts DEF IInv
<1>10. VisitedIsCovered' /\ WithheldIsSentOrClaimed'
  <2>1. \A u \in Trackers : \A q \in Requests : \A l \in Links :
          linksTraversed'[u][q][l] > 0 => linksTraversed[u][q][l] > 0
    BY <1>6
  <2> QED BY <2>1, CoverageKeeps DEF IInv
<1> QED BY <1>2, <1>4, <1>7, <1>8, <1>9, <1>10 DEF IInv

\* A response fails.
LEMMA FinishWithErrorKeeps ==
  ASSUME IInv, NEW r \in Requests, FinishWithError(r)
  PROVE  IInv'
<1>1. /\ phase' = [phase EXCEPT ![r] = "finished"]
      /\ status' = [status EXCEPT ![r] = "failed"]
      /\ FinishTracking(r)
      /\ UNCHANGED <<operation, queue, sent, withheld, closed, lost, loads, claimed>>
  BY DEF FinishWithError, Move, messages
<1> QED BY <1>1, EndKeeps

\* A response is complete, or complete but for missing blocks.
LEMMA FinishRequestKeeps ==
  ASSUME IInv, NEW r \in Requests, FinishRequest(r)
  PROVE  IInv'
<1>1. /\ phase[r] = "running"
      /\ phase' = [phase EXCEPT ![r] = "finished"]
      /\ FinishTracking(r)
      /\ UNCHANGED <<operation, queue, sent, withheld, closed, lost, loads, claimed>>
  BY DEF FinishRequest, Move, messages
<1>2. PICK s \in {"full", "partial"} :
         /\ s = (IF HasAllBlocks(dedupKeys[r], r) THEN "full" ELSE "partial")
         /\ status' = [status EXCEPT ![r] = s]
  BY DEF FinishRequest, GetLinkTracker
<1>3. HasAllBlocks(dedupKeys[r], r) <=> \A i \in DOMAIN loads[r] : loads[r][i].hasBlock
  BY <1>1 DEF IInv, ResponseInv, VisitsAreListed, HasAllBlocks
<1>4. s = "full" <=> \A i \in DOMAIN loads[r] : loads[r][i].hasBlock
  BY <1>2, <1>3
<1> QED BY <1>1, <1>2, <1>4, EndKeeps

-----------------------------------------------------------------------------
(* The theorems *)

\* At first there is nothing in any list.
LEMMA InitIsFine == Init => IInv
<1> SUFFICES ASSUME Init PROVE IInv
  OBVIOUS
<1>1. TypeOK
  <2>1. operation \in [Requests -> Operations]
    BY NoOperationType DEF Init
  <2> QED BY <2>1, BoundsAssumption DEF Init, TypeOK, Phases, Trackers
<1>2. /\ \A t \in Trackers : \A r \in Requests :
           missingBlocks[t][r] = {} /\ \A l \in Links : linksTraversed[t][r][l] = 0
      /\ \A t \in Trackers : \A l \in Links : inProgress[t][l] = 0
      /\ \A r \in Requests : /\ phase[r] = "new" /\ dedupKeys[r] = NoKey
                             /\ skipFirstBlocks[r] = 0 /\ blockSentCount[r] = 0
                             /\ loads[r] = <<>> /\ status[r] = "none"
                             /\ operation[r] = NoOperation(r)
      /\ altTrackers = {} /\ queue = <<>> /\ withheld = {}
  BY DEF Init
<1>3. ASSUME NEW r \in Requests PROVE ResponseInv(r)
  BY <1>2 DEF ResponseInv, PhaseFits, OnlyInItsTracker, VisitsAreListed, StatusIsTrue
<1>4. KeysHaveTrackers
  BY <1>2 DEF KeysHaveTrackers
<1>5. CountsAreExact
  <2>1. SUFFICES ASSUME NEW t \in Trackers, NEW l \in Links
                 PROVE  IsFiniteSet(Visits(t, l)) /\ inProgress[t][l] = Cardinality(Visits(t, l))
    BY DEF CountsAreExact
  <2> DEFINE g == [r \in Requests |-> linksTraversed[t][r][l]]
  <2>2. g \in [Requests -> Nat] /\ \A r \in Requests : g[r] = 0
    BY <1>2
  <2>3. Visits(t, l) = Counted(g)
    BY DEF Visits, Counted
  <2> HIDE DEF g
  <2>4. IsFiniteSet(Counted(g)) /\ Cardinality(Counted(g)) = 0
    BY <2>2, CountSome
  <2> QED BY <1>2, <2>3, <2>4
<1>6. VisitedIsCovered
  BY <1>2 DEF VisitedIsCovered
<1>7. WithheldIsSentOrClaimed
  <2>1. \A op \in Recorded : ~op.hasBlock
    <3>1. \A op \in Recorded : \E r \in Requests : op = NoOperation(r)
      BY <1>2 DEF Recorded
    <3> QED BY <3>1, NoOperationType
  <2>2. Withholds(Recorded) = {}
    BY <2>1, WithholdsMember
  <2> QED BY <1>2, <2>2 DEF WithheldIsSentOrClaimed
<1> QED BY <1>1, <1>3, <1>4, <1>5, <1>6, <1>7 DEF IInv

\* The invariant holds in every state of the link tracking.
THEOREM Invariance == Spec => []IInv
<1>1. IInv /\ [Next]_vars => IInv'
  <2>1. SUFFICES ASSUME IInv, [Next]_vars PROVE IInv'
    OBVIOUS
  <2>2. CASE UNCHANGED vars
    <3>1. TypeOK'
      BY <2>1, <2>2 DEF vars, IInv, TypeOK
    <3>2. \A r \in Requests : ResponseInv(r)'
      BY <2>1, <2>2, OthersKeep DEF vars, IInv
    <3>3. KeysHaveTrackers' /\ CountsAreExact'
      BY <2>1, <2>2 DEF vars, IInv, KeysHaveTrackers, CountsAreExact, Visits
    <3>4. VisitedIsCovered' /\ WithheldIsSentOrClaimed'
      BY <2>1, <2>2, CoverageKeeps DEF vars, IInv
    <3> QED BY <3>1, <3>2, <3>3, <3>4 DEF IInv
  <2>3. CASE Next
    <3> SUFFICES ASSUME NEW r \in Requests,
                        \/ ProcessDedupByKey(r)
                        \/ ProcessDoNoSendCids(r)
                        \/ ProcessDoNotSendFirstBlocks(r)
                        \/ FinishWithError(r)
                        \/ \E l \in Links, hasBlock \in BOOLEAN : SendResponse(r, l, hasBlock)
                        \/ Build(r)
                        \/ FinishRequest(r)
                 PROVE  IInv'
      BY <2>1, <2>3, MessageSentKeeps, MessageFailedKeeps DEF Next
    <3>2. CASE ProcessDedupByKey(r)
      BY <2>1, <3>2, ProcessDedupByKeyKeeps
    <3>3. CASE ProcessDoNoSendCids(r)
      BY <2>1, <3>3, ProcessDoNoSendCidsKeeps
    <3>4. CASE ProcessDoNotSendFirstBlocks(r)
      BY <2>1, <3>4, ProcessDoNotSendFirstBlocksKeeps
    <3>5. CASE FinishWithError(r)
      BY <2>1, <3>5, FinishWithErrorKeeps
    <3>6. CASE \E l \in Links, hasBlock \in BOOLEAN : SendResponse(r, l, hasBlock)
      BY <2>1, <3>6, SendResponseKeeps
    <3>7. CASE Build(r)
      BY <2>1, <3>7, BuildKeeps
    <3>8. CASE FinishRequest(r)
      BY <2>1, <3>8, FinishRequestKeeps
    <3> QED BY <3>2, <3>3, <3>4, <3>5, <3>6, <3>7, <3>8
  <2> QED BY <2>1, <2>2, <2>3
<1> QED BY <1>1, InitIsFine, PTL DEF Spec

\* The state of the link tracking has its type.
THEOREM TypeCorrect == Spec => []TypeOK
<1>1. IInv => TypeOK
  BY DEF IInv
<1> QED BY <1>1, Invariance, PTL

\* FinishTracking and RecordLinkTraversal, for any number of responses that share a
\* tracker and end in any order: no response loses what it visited to the end of
\* another, the counts are exact and the status is true.
THEOREM TraversalsAreKeptHolds == Spec => []TraversalsAreKept
<1>1. IInv => TraversalsAreKept
  <2>1. SUFFICES ASSUME IInv PROVE TraversalsAreKept
    OBVIOUS
  <2>2. ASSUME NEW r \in Requests, dedupKeys[r] # NoKey
        PROVE  dedupKeys[r] \in altTrackers
    BY <2>1, <2>2 DEF IInv, KeysHaveTrackers
  <2>3. ASSUME NEW r \in Requests, phase[r] = "running", NEW i \in DOMAIN loads[r],
               loads[r][i].hasBlock
        PROVE  inProgress[dedupKeys[r]][loads[r][i].link] > 0
    <3>1. PICK t \in Trackers : t = dedupKeys[r]
      BY <2>1 DEF IInv, TypeOK
    <3>2. PICK l \in Links : l = loads[r][i].link
      <4>1. loads[r] \in Seq(Loads)
        BY <2>1 DEF IInv, TypeOK
      <4>2. loads[r][i] \in Loads
        BY <2>3, <4>1
      <4> QED BY <4>2 DEF Loads
    <3>3. linksTraversed[t][r][l] > 0
      BY <2>1, <2>3, <3>1, <3>2 DEF IInv, ResponseInv, VisitsAreListed
    <3> DEFINE g == [q \in Requests |-> linksTraversed[t][q][l]]
    <3>4. g \in [Requests -> Nat] /\ g[r] > 0
      BY <2>1, <3>3 DEF IInv, TypeOK
    <3>5. IsFiniteSet(Counted(g)) /\ inProgress[t][l] = Cardinality(Counted(g))
      BY <2>1 DEF IInv, CountsAreExact, Visits, Counted
    <3> HIDE DEF g
    <3>6. Cardinality(Counted(g)) > 0
      BY <3>4, <3>5, CountSome
    <3> QED BY <3>1, <3>2, <3>5, <3>6
  <2>4. ASSUME NEW r \in Requests, status[r] \in {"full", "partial"}
        PROVE  status[r] = "full" <=> \A i \in DOMAIN loads[r] : loads[r][i].hasBlock
    BY <2>1, <2>4 DEF IInv, ResponseInv, StatusIsTrue
  <2>5. \A t \in Trackers : \A l \in Links : inProgress[t][l] = Cardinality(Visits(t, l))
    BY <2>1 DEF IInv, CountsAreExact
  <2> QED BY <2>2, <2>3, <2>4, <2>5 DEF TraversalsAreKept
<1> QED BY <1>1, Invariance, PTL

\* FinishTracking leaves nothing behind, whichever responses had a key in common.
THEOREM NothingIsLeftHolds == Spec => []NothingIsLeft
<1>1. IInv => NothingIsLeft
  <2>1. SUFFICES ASSUME IInv, \A r \in Requests : phase[r] \in {"new", "finished"}
                 PROVE  /\ altTrackers = {}
                        /\ \A r \in Requests : dedupKeys[r] = NoKey /\ skipFirstBlocks[r] = 0
                        /\ \A t \in Trackers : /\ \A l \in Links : inProgress[t][l] = 0
                                               /\ \A r \in Requests : missingBlocks[t][r] = {}
    BY DEF NothingIsLeft
  <2>2. \A r \in Requests : dedupKeys[r] = NoKey /\ skipFirstBlocks[r] = 0
    BY <2>1 DEF IInv, ResponseInv, PhaseFits
  <2>3. altTrackers = {}
    BY <2>1, <2>2 DEF IInv, KeysHaveTrackers
  <2>4. ASSUME NEW t \in Trackers, NEW r \in Requests
        PROVE  missingBlocks[t][r] = {} /\ \A l \in Links : ~(linksTraversed[t][r][l] > 0)
    <3>1. phase[r] \notin {"listed", "running"}
      BY <2>1
    <3> QED BY <2>1, <3>1 DEF IInv, ResponseInv, OnlyInItsTracker
  <2>5. ASSUME NEW t \in Trackers, NEW l \in Links
        PROVE  inProgress[t][l] = 0
    <3> DEFINE g == [q \in Requests |-> linksTraversed[t][q][l]]
    <3>1. g \in [Requests -> Nat] /\ \A r \in Requests : g[r] = 0
      BY <2>1, <2>4 DEF IInv, TypeOK
    <3>2. inProgress[t][l] = Cardinality(Counted(g))
      BY <2>1 DEF IInv, CountsAreExact, Visits, Counted
    <3> HIDE DEF g
    <3>3. Cardinality(Counted(g)) = 0
      BY <3>1, CountSome
    <3> QED BY <3>2, <3>3
  <2> QED BY <2>2, <2>3, <2>4, <2>5
<1> QED BY <1>1, Invariance, PTL

\* RecordLinkTraversal withholds a block only on account of a response with the same
\* key that was sent it, is being sent it or said it has it, or whose message failed
\* or stream was closed with the block still to go, through every failure of a
\* message, scrub of the queue and end of a response.
THEOREM WithheldIsSentOrClaimedHolds == Spec => []WithheldIsSentOrClaimed
<1>1. IInv => WithheldIsSentOrClaimed
  BY DEF IInv
<1> QED BY <1>1, Invariance, PTL

=============================================================================
