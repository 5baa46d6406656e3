------------------------- MODULE AdnlResolveProofs -------------------------
(***************************************************************************)
(* Proofs about bin/adnl_resolve.rs, for any set of peers, any global      *)
(* config and any limit on the known peers.                                *)
(***************************************************************************)
EXTENDS AdnlResolve, FiniteSetTheorems, SequenceTheorems, TLAPS

\* What Vec::remove leaves.
LEMMA RemoveAtElements ==
  ASSUME NEW s \in Seq(Peer), NEW i \in 1 .. Len(s)
  PROVE  /\ RemoveAt(s, i) \in Seq(Peer)
         /\ Len(RemoveAt(s, i)) = Len(s) - 1
         /\ \A j \in 1 .. Len(s) - 1 :
              RemoveAt(s, i)[j] = IF j < i THEN s[j] ELSE s[j + 1]
<1> DEFINE a == SubSeq(s, 1, i - 1)
           b == SubSeq(s, i + 1, Len(s))
<1>0. Len(s) \in Nat /\ i \in Int
  OBVIOUS
<1>1. /\ a \in Seq(Peer) /\ Len(a) = i - 1
      /\ \A j \in 1 .. i - 1 : a[j] = s[j]
  BY SubSeqProperties
<1>2. /\ b \in Seq(Peer) /\ Len(b) = Len(s) - i
      /\ \A j \in 1 .. Len(s) - i : b[j] = s[i + j]
  BY SubSeqProperties
<1>3. RemoveAt(s, i) = a \o b
  BY DEF RemoveAt
<1> HIDE DEF a, b
<1>4. a \o b \in Seq(Peer) /\ Len(a \o b) = Len(s) - 1
  <2>1. (a \o b) \in Seq(Peer) /\ Len(a \o b) = Len(a) + Len(b)
    BY <1>1, <1>2, ConcatProperties
  <2> QED BY <2>1, <1>0, <1>1, <1>2
<1>5. ASSUME NEW j \in 1 .. Len(s) - 1
      PROVE  (a \o b)[j] = IF j < i THEN s[j] ELSE s[j + 1]
  <2>1. CASE j < i
    BY <1>1, <1>2, <2>1
  <2>2. CASE j >= i
    <3>1. (a \o b)[j] = b[j - (i - 1)]
      BY <1>1, <1>2, <2>2
    <3>2. j - (i - 1) \in 1 .. Len(s) - i
      BY <2>2
    <3> QED BY <1>2, <2>2, <3>1, <3>2
  <2>3. j < i \/ j >= i
    BY <1>0
  <2> QED BY <2>1, <2>2, <2>3
<1> QED BY <1>3, <1>4, <1>5

\* An arrangement of a set of peers is a sequence without repetitions.
LEMMA ArrangementElements ==
  ASSUME NEW S \in SUBSET Peer, NEW s \in SetToSeqs(S)
  PROVE  /\ s \in Seq(Peer)
         /\ Len(s) = Cardinality(S)
         /\ \A i \in 1 .. Len(s) : s[i] \in S
         /\ IsInjective(s)
         /\ s = <<>> => S = {}
<1>1. IsFiniteSet(S) /\ Cardinality(S) \in Nat
  BY PeerAssumption, FS_Subset, FS_CardinalityType
<1>2. s \in [1 .. Cardinality(S) -> S] /\ IsInjective(s)
  BY DEF SetToSeqs, IsInjective
<1>3. s \in Seq(Peer) /\ Len(s) = Cardinality(S)
  BY <1>1, <1>2
<1>4. s = <<>> => S = {}
  BY <1>1, <1>3, FS_EmptySet
<1> QED BY <1>2, <1>3, <1>4

LEMMA InitResolveInv == Init => ResolveInv
BY ResolveAssumption
   DEF Init, ResolveInv, TypeOK, IndexInRange, SkipsNone, GivesUpOnlyIfAllBad, IsInjective

-----------------------------------------------------------------------------
(* The steps of scan() *)

\* Only the control state moves, within the loop or to an end.
LEMMA MoveResolveInv ==
  ASSUME ResolveInv, pc' \in {"presets", "lookup", "probe", "found", "failed", "panicked"},
         pc' = "probe" => pc = "lookup" /\ index < Len(nodes),
         pc' = "presets" => pc = "start",
         pc' = "lookup" => index = 0,
         pc' \notin {"presets", "failed"} => Range(preset) \subseteq known \cap Usable,
         UNCHANGED <<known, preset, nodes, bad_nodes, index, responded>>
  PROVE  ResolveInv'
<1>1. SkipsNone'
  <2>1. CASE pc' = "probe"
    BY <2>1 DEF ResolveInv, SkipsNone
  <2>2. CASE pc' = "lookup"
    BY <2>2 DEF ResolveInv, TypeOK, SkipsNone
  <2> QED BY <2>1, <2>2 DEF SkipsNone
<1> QED BY <1>1 DEF ResolveInv, TypeOK, IndexInRange, GivesUpOnlyIfAllBad, Ended

LEMMA AddPresetInv ==
  ASSUME ResolveInv, AddPreset
  PROVE  ResolveInv'
<1> DEFINE n == Len(nodes)
           p == preset[n + 1]
<1>1. /\ pc = "presets" /\ pc' = "presets" /\ preset' = preset
      /\ nodes' = Append(nodes, p) /\ known' = known \cup {p} /\ p \in Usable
      /\ bad_nodes' = {} /\ index' = 0 /\ responded' = responded
      /\ n \in Nat /\ n + 1 <= Len(preset) /\ Len(preset) \in Nat
  BY DEF AddPreset, add_peer, ResolveInv, TypeOK
<1>2. p \in Peer
  BY <1>1, PeerAssumption
<1> HIDE DEF p
<1>3. /\ nodes' \in Seq(Peer) /\ Len(nodes') = n + 1 /\ nodes'[n + 1] = p
      /\ \A i \in 1 .. n : nodes'[i] = nodes[i]
  BY <1>1, <1>2 DEF ResolveInv, TypeOK
<1>4. TypeOK'
  BY <1>1, <1>2, <1>3 DEF ResolveInv, TypeOK
<1>5. ASSUME NEW i \in 1 .. n + 1
      PROVE  nodes'[i] = preset[i] /\ preset[i] \in known' \cap Usable
  <2>1. CASE i = n + 1
    BY <1>1, <1>3, <2>1 DEF p
  <2>2. CASE i \in 1 .. n
    BY <1>1, <1>3, <2>2 DEF ResolveInv
  <2> QED BY <1>1, <2>1, <2>2
<1>6. IsInjective(preset) => IsInjective(nodes')
  <2>1. DOMAIN nodes' = 1 .. n + 1 /\ DOMAIN preset = 1 .. Len(preset)
    BY <1>3 DEF ResolveInv, TypeOK
  <2>2. \A i \in 1 .. n + 1 : i \in 1 .. Len(preset)
    BY <1>1
  <2> QED BY <2>1, <2>2, <1>5 DEF IsInjective
<1> QED BY <1>1, <1>3, <1>4, <1>5, <1>6
        DEF ResolveInv, IndexInRange, SkipsNone, GivesUpOnlyIfAllBad

LEMMA RefillInv ==
  ASSUME ResolveInv, Refill
  PROVE  ResolveInv'
<1>0. PICK S \in get_known_nodes(KnownLimit) :
        \E s \in SetToSeqs(Candidates(S)) :
          /\ nodes' = s
          /\ IF s = <<>> THEN Goto("no good peers") /\ UNCHANGED index
                         ELSE Goto("probe") /\ index' = 0
  BY DEF Refill
<1>1. PICK s \in SetToSeqs(Candidates(S)) :
        /\ nodes' = s
        /\ IF s = <<>> THEN Goto("no good peers") /\ UNCHANGED index
                       ELSE Goto("probe") /\ index' = 0
  BY <1>0
<1>2. pc = "lookup" /\ responded' = {} /\ UNCHANGED <<known, preset, bad_nodes>>
  BY DEF Refill
<1>3. S \subseteq known /\ (Cardinality(known) <= KnownLimit => S = known)
  BY DEF get_known_nodes, kSubset
<1>4. Candidates(S) \subseteq Peer /\ Candidates(S) \cap bad_nodes = {}
  BY PeerAssumption DEF Candidates
<1>5. /\ s \in Seq(Peer) /\ \A i \in 1 .. Len(s) : s[i] \in Candidates(S)
      /\ IsInjective(s) /\ (s = <<>> => Candidates(S) = {})
  BY <1>4, ArrangementElements
<1>6. TypeOK'
  <2>1. index' \in Nat
    <3>1. index' = index \/ index' = 0
      BY <1>1
    <3> QED BY <3>1 DEF ResolveInv, TypeOK
  <2>3. pc' \in {"probe", "no good peers"}
    BY <1>1 DEF Goto
  <2>2. nodes' \in Seq(Peer)
    BY <1>1, <1>5
  <2> QED BY <1>2, <2>1, <2>2, <2>3 DEF ResolveInv, TypeOK, Ended
<1>7. IndexInRange'
  <2>1. s # <<>> => Len(s) > 0
    BY <1>5
  <2> QED BY <1>1, <2>1 DEF IndexInRange, Goto
<1>8. Range(preset) \subseteq known \cap Usable
  BY <1>2 DEF ResolveInv
<1>9. GivesUpOnlyIfAllBad'
  <2> SUFFICES ASSUME pc' = "no good peers", Cardinality(known') <= KnownLimit
               PROVE  known' \cap Usable \subseteq bad_nodes' /\ Range(preset') \subseteq bad_nodes'
    BY DEF GivesUpOnlyIfAllBad
  <2>1. s = <<>> /\ S = known
    BY <1>1, <1>2, <1>3 DEF Goto
  <2>2. known \cap Usable \subseteq bad_nodes
    BY <1>5, <2>1 DEF Candidates
  <2> QED BY <1>2, <1>8, <2>2
<1>10. IsInjective(nodes') /\ \A i \in 1 .. Len(nodes') : nodes'[i] \notin bad_nodes'
  BY <1>1, <1>2, <1>4, <1>5
<1>11. pc' \in {"probe", "no good peers"}
  BY <1>1 DEF Goto
<1>12. SkipsNone'
  <2> SUFFICES ASSUME pc' = "probe" PROVE SkipsNone'
    BY <1>11 DEF SkipsNone
  <2>1. index' = 0
    BY <1>1 DEF Goto
  <2>2. Len(nodes') \in Nat
    BY <1>6 DEF TypeOK
  <2> QED BY <2>1, <2>2 DEF SkipsNone
<1> QED BY <1>2, <1>6, <1>7, <1>8, <1>9, <1>10, <1>11, <1>12 DEF ResolveInv

\* The removed peer is in none of the other places, so what is left of the
\* round has no bad peer.
LEMMA NonResponsiveInv ==
  ASSUME ResolveInv, NonResponsive
  PROVE  ResolveInv'
<1> DEFINE n == Len(nodes)
           k == index + 1
<1>1. /\ pc = "probe" /\ pc' = "lookup" /\ UNCHANGED <<known, preset, index, responded>>
      /\ bad_nodes' = bad_nodes \cup {nodes[k]} /\ nodes' = RemoveAt(nodes, k)
  BY DEF NonResponsive, Goto
<1>2. nodes \in Seq(Peer) /\ n \in Nat /\ k \in 1 .. n /\ DOMAIN nodes = 1 .. n
  BY <1>1 DEF ResolveInv, TypeOK, IndexInRange
<1> HIDE DEF k
<1>3. /\ nodes' \in Seq(Peer) /\ Len(nodes') = n - 1
      /\ \A j \in 1 .. n - 1 : nodes'[j] = IF j < k THEN nodes[j] ELSE nodes[j + 1]
  BY <1>1, <1>2, RemoveAtElements
<1>4. TypeOK'
  BY <1>1, <1>2, <1>3 DEF ResolveInv, TypeOK
<1>5. ASSUME IsInjective(preset)
      PROVE  IsInjective(nodes') /\ \A i \in 1 .. Len(nodes') : nodes'[i] \notin bad_nodes'
  <2>1. IsInjective(nodes) /\ \A i \in 1 .. n : nodes[i] \notin bad_nodes
    BY <1>5 DEF ResolveInv
  <2>2. DOMAIN nodes' = 1 .. n - 1
    BY <1>3
  <2> DEFINE old(j) == IF j < k THEN j ELSE j + 1
  <2>3. \A j \in 1 .. n - 1 : old(j) \in 1 .. n /\ old(j) # k /\ nodes'[j] = nodes[old(j)]
    BY <1>2, <1>3
  <2>4. \A i, j \in 1 .. n - 1 : old(i) = old(j) => i = j
    BY <1>2
  <2> HIDE DEF old
  <2>5. IsInjective(nodes')
    BY <1>2, <2>1, <2>2, <2>3, <2>4 DEF IsInjective
  <2>6. \A j \in 1 .. n - 1 : nodes'[j] # nodes[k]
    BY <1>2, <2>1, <2>3 DEF IsInjective
  <2> QED BY <1>1, <1>3, <2>1, <2>3, <2>5, <2>6
<1>6. SkipsNone'
  <2>1. index \in Nat /\ k = index + 1 /\ index <= n - 1
    BY <1>1 DEF ResolveInv, TypeOK, IndexInRange, k
  <2>2. \A i \in 1 .. index : nodes[i] \in responded
    BY <1>1 DEF ResolveInv, SkipsNone
  <2>3. ASSUME NEW i \in 1 .. index
        PROVE  nodes'[i] \in responded
    <3>1. i \in 1 .. n - 1 /\ i < k
      BY <1>2, <2>1
    <3>2. nodes'[i] = nodes[i]
      BY <1>3, <3>1
    <3> QED BY <2>2, <3>2
  <2> QED BY <1>1, <1>3, <2>1, <2>3 DEF SkipsNone
<1> QED BY <1>1, <1>4, <1>5, <1>6 DEF ResolveInv, IndexInRange, GivesUpOnlyIfAllBad

LEMMA ResponsiveInv ==
  ASSUME ResolveInv, Responsive
  PROVE  ResolveInv'
<1>1. /\ pc = "probe" /\ pc' = "lookup" /\ UNCHANGED <<known, preset, nodes, bad_nodes>>
      /\ index' = index + 1 /\ responded' = responded \cup {nodes[index + 1]}
  BY DEF Responsive, Goto
<1>2. /\ index \in Nat /\ Len(nodes) \in Nat /\ index + 1 \in 1 .. Len(nodes)
      /\ nodes \in Seq(Peer)
  BY <1>1 DEF ResolveInv, TypeOK, IndexInRange
<1>3. TypeOK'
  <2>1. nodes[index + 1] \in Peer
    BY <1>2
  <2> QED BY <1>1, <1>2, <2>1 DEF ResolveInv, TypeOK
<1>4. SkipsNone'
  <2>1. \A i \in 1 .. index : nodes[i] \in responded
    BY <1>1 DEF ResolveInv, SkipsNone
  <2>2. ASSUME NEW i \in 1 .. index + 1
        PROVE  nodes[i] \in responded'
    <3>1. i = index + 1 \/ i \in 1 .. index
      BY <1>2
    <3> QED BY <1>1, <2>1, <3>1
  <2>3. index + 1 <= Len(nodes)
    BY <1>2
  <2> QED BY <1>1, <2>2, <2>3 DEF SkipsNone
<1> QED BY <1>1, <1>3, <1>4 DEF ResolveInv, IndexInRange, GivesUpOnlyIfAllBad

LEMMA NextResolveInv == ResolveInv /\ [Next]_vars => ResolveInv'
<1> SUFFICES ASSUME ResolveInv, [Next]_vars PROVE ResolveInv'
  OBVIOUS
<1>0. CASE StartNode \/ StartFails
  BY <1>0, MoveResolveInv DEF StartNode, StartFails, Goto
<1>1. CASE AddPreset
  BY <1>1, AddPresetInv
<1>2. CASE PresetFails
  BY <1>2, MoveResolveInv DEF PresetFails, Goto
<1>3. CASE ParseId
  <2>1. Range(preset) \subseteq known \cap Usable
    BY <1>3 DEF ParseId, ResolveInv, TypeOK, Range
  <2>2. index = 0
    BY <1>3 DEF ParseId, ResolveInv
  <2> QED BY <1>3, <2>1, <2>2, MoveResolveInv DEF ParseId, Goto
<1>4. CASE Found \/ RefillFails \/ ProbeFails
  BY <1>4, MoveResolveInv DEF Found, RefillFails, ProbeFails, Goto, ResolveInv
<1>5. CASE NextPeer
  BY <1>5, MoveResolveInv DEF NextPeer, Goto, ResolveInv
<1>6. CASE Refill
  BY <1>6, RefillInv
<1>7. CASE NonResponsive
  BY <1>7, NonResponsiveInv
<1>8. CASE Responsive
  BY <1>8, ResponsiveInv
<1>9. CASE Background
  <2>1. known \subseteq known' /\ known' \subseteq Peer
    BY <1>9 DEF Background, Learn, ResolveInv, TypeOK
  <2>2. pc \notin Ended /\ UNCHANGED <<pc, preset, nodes, bad_nodes, index, responded>>
    BY <1>9 DEF Background
  <2>3. SkipsNone'
    BY <2>2 DEF ResolveInv, SkipsNone
  <2> QED BY <2>1, <2>2, <2>3 DEF ResolveInv, TypeOK, IndexInRange, GivesUpOnlyIfAllBad, Ended
<1>10. CASE UNCHANGED vars
  BY <1>10 DEF vars, ResolveInv, TypeOK, IndexInRange, SkipsNone, GivesUpOnlyIfAllBad
<1> QED BY <1>0, <1>1, <1>2, <1>3, <1>4, <1>5, <1>6, <1>7, <1>8, <1>9, <1>10 DEF Next, Scan

-----------------------------------------------------------------------------
\* The invariant of scan()'s loop.
THEOREM ResolveInvariant == Spec => []ResolveInv
<1>1. Init => ResolveInv
  BY InitResolveInv
<1>2. ResolveInv /\ [Next]_vars => ResolveInv'
  BY NextResolveInv
<1> QED BY <1>1, <1>2, PTL DEF Spec

\* Type correctness of scan()'s variables.
THEOREM ResolveTypes == Spec => []TypeOK
<1>1. ResolveInv => TypeOK
  BY DEF ResolveInv
<1> QED BY <1>1, ResolveInvariant, PTL

\* scan() never indexes or removes past the end of nodes.
THEOREM IndexSafe == Spec => []IndexInRange
<1>1. ResolveInv => IndexInRange
  BY DEF ResolveInv
<1> QED BY <1>1, ResolveInvariant, PTL

\* scan() passes over no peer of a round when it removes one.
THEOREM NoneSkipped == Spec => []SkipsNone
<1>1. ResolveInv => SkipsNone
  BY DEF ResolveInv
<1> QED BY <1>1, ResolveInvariant, PTL

\* scan() never asks a peer again that did not respond, if the global config
\* lists no peer twice.
THEOREM BadNeverAsked == Spec => []BadNotAsked
<1>1. ResolveInv => BadNotAsked
  BY DEF ResolveInv, TypeOK, IndexInRange, BadNotAsked
<1> QED BY <1>1, ResolveInvariant, PTL

\* scan() reports "No good DHT peers" only when all peers it could have asked
\* did not respond.
THEOREM GivesUpCorrectly == Spec => []GivesUpOnlyIfAllBad
<1>1. ResolveInv => GivesUpOnlyIfAllBad
  BY DEF ResolveInv
<1> QED BY <1>1, ResolveInvariant, PTL

=============================================================================
