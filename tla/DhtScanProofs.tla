--------------------------- MODULE DhtScanProofs ---------------------------
(***************************************************************************)
(* Proofs about bin/dhtscan.rs, for any sets of peers and overlay members, *)
(* any global config and any limit on the known peers.                     *)
(***************************************************************************)
EXTENDS DhtScan, FiniteSetTheorems, SequenceTheorems, TLAPS

-----------------------------------------------------------------------------
(* Counting *)

\* A global config names no more peers than it has entries.
LEMMA RangeCardinality ==
  ASSUME NEW s \in Seq(Peer)
  PROVE  /\ Range(s) \subseteq Peer /\ IsFiniteSet(Range(s))
         /\ Cardinality(Range(s)) \in Nat /\ Cardinality(Range(s)) <= Len(s)
<1>1. Range(s) \subseteq Peer
  BY DEF Range
<1>2. IsFiniteSet(Range(s)) /\ Cardinality(Range(s)) \in Nat
  BY <1>1, PeerAssumption, FS_Subset, FS_CardinalityType
<1>3. Len(s) \in Nat /\ s \in Surjection(1 .. Len(s), Range(s))
  BY DEF Range, Surjection
<1>4. ExistsSurjection(1 .. Len(s), Range(s))
  BY <1>3 DEF ExistsSurjection
<1>5. Cardinality(Range(s)) <= Len(s)
  BY <1>3, <1>4, FS_SurjCardinalityBound
<1> QED BY <1>1, <1>2, <1>5

\* Sets of peers are finite, and usize can hold their size.
LEMMA PeersCount ==
  ASSUME NEW S \in SUBSET Peer
  PROVE  IsFiniteSet(S) /\ Cardinality(S) \in Nat /\ Cardinality(S) < UsizeModulus
<1>1. IsFiniteSet(Peer) /\ Cardinality(Peer) \in Nat
  BY PeerAssumption, FS_CardinalityType
<1>2. IsFiniteSet(S) /\ Cardinality(S) <= Cardinality(Peer)
  BY <1>1, FS_Subset
<1>3. Cardinality(S) \in Nat
  BY <1>2, FS_CardinalityType
<1> QED BY <1>1, <1>2, <1>3, ScanAssumption

LEMMA MembersCount ==
  ASSUME NEW S \in SUBSET Member
  PROVE  IsFiniteSet(S) /\ Cardinality(S) \in Nat /\ Cardinality(S) < UsizeModulus
<1>1. IsFiniteSet(Member) /\ Cardinality(Member) \in Nat
  BY ScanAssumption, FS_CardinalityType
<1>2. IsFiniteSet(S) /\ Cardinality(S) <= Cardinality(Member)
  BY <1>1, FS_Subset
<1>3. Cardinality(S) \in Nat
  BY <1>2, FS_CardinalityType
<1> QED BY <1>1, <1>2, <1>3, ScanAssumption

\* The subtraction of two usize is a usize, and it is exact if nothing wraps.
LEMMA MinusUsize ==
  ASSUME NEW a \in Nat, NEW b \in Nat, a < UsizeModulus, b < UsizeModulus
  PROVE  Minus(a, b) \in 0 .. UsizeModulus - 1
BY ScanAssumption DEF Minus

\* Taking the same number off both sides changes nothing, wrapped or not.
LEMMA MinusShift ==
  ASSUME NEW a \in Nat, NEW b \in Nat, NEW n \in Nat
  PROVE  Minus(a, b) = Minus(a - n, b - n)
BY ScanAssumption DEF Minus

\* What get_known_nodes may return: everything, unless it is cut off.
LEMMA KnownNodes ==
  ASSUME NEW S \in get_known_nodes(KnownLimit), known \subseteq Peer
  PROVE  /\ S \subseteq Peer /\ S \subseteq known
         /\ Cardinality(S) < KnownLimit => S = known
<1>1. CASE Cardinality(known) <= KnownLimit
  BY <1>1 DEF get_known_nodes
<1>2. CASE ~(Cardinality(known) <= KnownLimit)
  BY <1>2, ScanAssumption DEF get_known_nodes, kSubset
<1> QED BY <1>1, <1>2

\* If the list holds the whole global config, it is that much longer than the
\* list of its new nodes.
LEMMA NewNodesCount ==
  ASSUME NEW S \in SUBSET Peer, NEW s \in Seq(Peer), Range(s) \subseteq S
  PROVE  /\ Cardinality(S \ Range(s)) \in Nat
         /\ Cardinality(S \ Range(s)) = Cardinality(S) - Cardinality(Range(s))
<1>1. IsFiniteSet(S)
  BY PeersCount
<1>2. S \cap Range(s) = Range(s) /\ S \ Range(s) \in SUBSET Peer
  OBVIOUS
<1>3. Cardinality(S \ Range(s)) = Cardinality(S) - Cardinality(S \cap Range(s))
  BY <1>1, FS_Difference
<1> QED BY <1>2, <1>3, PeersCount

-----------------------------------------------------------------------------
(* The steps of scan() *)

LEMMA InitScanInv == Init => ScanInv
<1> SUFFICES ASSUME Init PROVE ScanInv
  OBVIOUS
<1>1. TypeOK
  <2>1. 0 \in 0 .. UsizeModulus - 1
    <3>1. Cardinality(Peer) \in Nat
      BY PeerAssumption, FS_CardinalityType
    <3> QED BY <3>1, ScanAssumption
  <2> QED BY <2>1, ScanAssumption DEF Init, TypeOK, Before
<1>2. Cardinality({}) = 0
  BY FS_EmptySet
<1>3. preset \in Seq(Peer) /\ Len(preset) < UsizeModulus
  BY ScanAssumption DEF Init
<1> QED BY <1>1, <1>2, <1>3 DEF Init, ScanInv, Before, CounterExact, NoneFound

\* Only the control state moves, and not into a phase that promises more.
LEMMA MoveScanInv ==
  ASSUME ScanInv, pc' \in {"presets", "ask", "overlays", "total", "failed"},
         pc' = "presets" => pc = "start",
         pc' = "ask" => pc = "presets" /\ Len(preset_nodes) = Len(preset),
         pc' = "overlays" => pc = "found",
         pc' = "total" => pc = "report" /\ nodes = {},
         UNCHANGED <<known, opts, preset, preset_nodes, asked, searchVars, listed, reportVars>>
  PROVE  ScanInv'
<1>1. TypeOK'
  BY DEF ScanInv, TypeOK, Before, Ended, searchVars, reportVars
<1> QED BY <1>1 DEF ScanInv, Before, Ended, searchVars, reportVars,
                    NewListed, CounterExact, NoneFound

LEMMA AddPresetScanInv ==
  ASSUME ScanInv, AddPreset
  PROVE  ScanInv'
<1> DEFINE n == Len(preset_nodes)
           p == preset[n + 1]
<1>1. /\ pc = "presets" /\ n < Len(preset) /\ p \in Usable
      /\ known' = known \cup {p} /\ preset_nodes' = Append(preset_nodes, p)
      /\ UNCHANGED <<pc, opts, preset, asked, searchVars, listed, reportVars>>
  BY DEF AddPreset, add_peer
<1>2. p \in Peer /\ preset_nodes \in Seq(Peer) /\ n \in Nat /\ Len(preset) \in Nat
  BY <1>1, PeerAssumption DEF ScanInv, TypeOK
<1> HIDE DEF p
<1>3. /\ preset_nodes' \in Seq(Peer) /\ Len(preset_nodes') = n + 1
      /\ preset_nodes'[n + 1] = p
      /\ \A i \in 1 .. n : preset_nodes'[i] = preset_nodes[i]
  BY <1>1, <1>2
<1>4. TypeOK'
  BY <1>1, <1>2, <1>3 DEF ScanInv, TypeOK, searchVars, reportVars
<1>5. ASSUME NEW i \in 1 .. n + 1
      PROVE  preset_nodes'[i] = preset'[i] /\ preset'[i] \in known'
  <2>1. CASE i = n + 1
    BY <1>1, <1>3, <2>1 DEF p
  <2>2. CASE i \in 1 .. n
    BY <1>1, <1>3, <2>2 DEF ScanInv
  <2> QED BY <1>2, <2>1, <2>2
<1>6. Len(preset') < UsizeModulus /\ Len(preset_nodes') <= Len(preset')
  BY <1>1, <1>2, <1>3 DEF ScanInv
<1> QED BY <1>1, <1>3, <1>4, <1>5, <1>6
        DEF ScanInv, Before, searchVars, reportVars, CounterExact, NoneFound

\* Once all of the global config's peers are added, the DHT node knows them.
LEMMA PresetsKnown ==
  ASSUME ScanInv, pc \notin Before \cup {"failed"}
  PROVE  Range(preset) \subseteq known
<1>1. Len(preset_nodes) = Len(preset) /\ DOMAIN preset = 1 .. Len(preset)
  BY DEF ScanInv, TypeOK
<1> QED BY <1>1 DEF ScanInv, Range

LEMMA BeginSearchScanInv ==
  ASSUME ScanInv, NEW w \in {-1, 0}, pc \in {"ask", "found"}, BeginSearch(w),
         Len(preset_nodes) = Len(preset)
  PROVE  ScanInv'
<1>1. /\ pc' = "search" /\ workchain' = w /\ overlays' = {} /\ shown' = 0 /\ announced' = 0
      /\ UNCHANGED <<known, opts, preset, preset_nodes, asked, listed, reportVars>>
  BY DEF BeginSearch, Goto
<1>2. 0 \in 0 .. UsizeModulus - 1
  BY ScanAssumption, PeersCount
<1>3. TypeOK'
  BY <1>1, <1>2 DEF ScanInv, TypeOK, reportVars
<1>4. Cardinality({}) = 0
  BY FS_EmptySet
<1> QED BY <1>1, <1>3, <1>4
        DEF ScanInv, Before, reportVars, NewListed, CounterExact, NoneFound

\* With --overlay the numbers printed add up; the usize does not wrap.
LEMMA OverlaysCounted ==
  ASSUME ScanInv, opts.overlay, NEW R \in SUBSET Member
  PROVE  /\ NewOverlays(R) \in 0 .. UsizeModulus - 1
         /\ announced + NewOverlays(R) = Cardinality(overlays \cup R)
<1>1. overlays \in SUBSET Member /\ overlays \cup R \in SUBSET Member
  BY DEF ScanInv, TypeOK
<1>2. overlays \in SUBSET (overlays \cup R)
  OBVIOUS
<1> DEFINE a == Cardinality(overlays \cup R)
           b == Cardinality(overlays)
<1>3. a \in Nat /\ b \in Nat /\ a < UsizeModulus /\ b < UsizeModulus /\ b <= a
  BY <1>1, <1>2, MembersCount, FS_Subset
<1>4. announced = b
  BY DEF ScanInv
<1>5. NewOverlays(R) = Minus(a, b)
  BY DEF NewOverlays
<1> HIDE DEF a, b
<1>6. Minus(a, b) = a - b
  BY <1>3 DEF Minus
<1>7. Minus(a, b) \in 0 .. UsizeModulus - 1
  BY <1>3, MinusUsize
<1> QED BY <1>3, <1>4, <1>5, <1>6, <1>7 DEF a

\* Without it the number printed is the one of the new nodes in the list, but
\* for the repetitions.
LEMMA DhtNodesCounted ==
  ASSUME ScanInv, pc = "search", NEW S \in get_known_nodes(KnownLimit)
  PROVE  /\ NewDhtNodes(S) \in 0 .. UsizeModulus - 1
         /\ Cardinality(S) < KnownLimit =>
              /\ Range(preset) \subseteq S
              /\ NewDhtNodes(S) = Minus(Cardinality(S \ Range(preset)), Repeats)
<1>0. known \subseteq Peer /\ preset \in Seq(Peer)
  BY DEF ScanInv, TypeOK
<1>1. S \in SUBSET Peer /\ (Cardinality(S) < KnownLimit => S = known)
  BY <1>0, KnownNodes
<1>2. Len(preset_nodes) = Len(preset) /\ Len(preset) \in Nat /\ Len(preset) < UsizeModulus
  BY <1>0 DEF ScanInv, Before
<1>3. Cardinality(S) \in Nat /\ Cardinality(S) < UsizeModulus
  BY <1>1, PeersCount
<1>4. NewDhtNodes(S) \in 0 .. UsizeModulus - 1
  BY <1>2, <1>3, MinusUsize DEF NewDhtNodes
<1>5. ASSUME Cardinality(S) < KnownLimit
      PROVE  /\ Range(preset) \subseteq S
             /\ NewDhtNodes(S) = Minus(Cardinality(S \ Range(preset)), Repeats)
  <2>1. Range(preset) \subseteq S
    BY <1>1, <1>5, PresetsKnown DEF Before
  <2>2. /\ Cardinality(Range(preset)) \in Nat
        /\ Cardinality(S \ Range(preset)) = Cardinality(S) - Cardinality(Range(preset))
    BY <1>0, <1>1, <2>1, RangeCardinality, NewNodesCount
  <2>3. Minus(Cardinality(S), Len(preset))
          = Minus(Cardinality(S) - Cardinality(Range(preset)),
                  Len(preset) - Cardinality(Range(preset)))
    BY <1>2, <1>3, <2>2, MinusShift
  <2> QED BY <1>2, <2>1, <2>2, <2>3 DEF NewDhtNodes, Repeats
<1> QED BY <1>4, <1>5

LEMMA SearchScanInv ==
  ASSUME ScanInv, Search
  PROVE  ScanInv'
<1>1. PICK R \in SUBSET Member :
        /\ overlays' = overlays \cup R
        /\ IF opts.overlay
           THEN /\ shown' = NewOverlays(R)
                /\ announced' = announced + shown'
                /\ UNCHANGED listed
           ELSE /\ \E S \in get_known_nodes(KnownLimit) :
                     shown' = NewDhtNodes(S) /\ listed' = S
                /\ UNCHANGED announced
  BY DEF Search
<1>2. /\ pc = "search" /\ pc' \in {"search", "found"}
      /\ UNCHANGED <<known, opts, preset, preset_nodes, asked, workchain, reportVars>>
  BY DEF Search, Goto
<1>3. Len(preset_nodes) = Len(preset)
  BY <1>2 DEF ScanInv, Before
<1>4. CASE opts.overlay
  <2>1. /\ shown' \in 0 .. UsizeModulus - 1 /\ announced' = Cardinality(overlays')
        /\ UNCHANGED listed
    BY <1>1, <1>4, OverlaysCounted
  <2>2. overlays' \in SUBSET Member
    BY <1>1 DEF ScanInv, TypeOK
  <2>3. TypeOK'
    BY <1>2, <2>1, <2>2, MembersCount DEF ScanInv, TypeOK, reportVars
  <2> QED BY <1>2, <1>3, <1>4, <2>1, <2>3
          DEF ScanInv, Before, reportVars, CounterExact, NoneFound
<1>5. CASE ~opts.overlay
  <2>1. PICK S \in get_known_nodes(KnownLimit) : shown' = NewDhtNodes(S) /\ listed' = S
    BY <1>1, <1>5
  <2>2. /\ shown' \in 0 .. UsizeModulus - 1
        /\ Cardinality(S) < KnownLimit =>
             /\ Range(preset) \subseteq S
             /\ shown' = Minus(Cardinality(S \ Range(preset)), Repeats)
    BY <1>2, <2>1, DhtNodesCounted
  <2>3. listed' \subseteq Peer /\ overlays' \subseteq Member /\ announced' = announced
    BY <1>1, <1>5, <2>1, KnownNodes DEF ScanInv, TypeOK
  <2>4. TypeOK'
    BY <1>2, <2>2, <2>3 DEF ScanInv, TypeOK, reportVars
  <2>5. CounterExact'
    BY <1>2, <2>1, <2>2 DEF CounterExact, NewListed, Repeats
  <2>6. Cardinality(listed') < KnownLimit => Range(preset') \subseteq listed'
    BY <1>2, <2>1, <2>2
  <2> QED BY <1>2, <1>3, <1>5, <2>4, <2>5, <2>6
          DEF ScanInv, Before, reportVars, NoneFound
<1> QED BY <1>4, <1>5

-----------------------------------------------------------------------------
(* The steps of the report *)

LEMMA ListNodesScanInv ==
  ASSUME ScanInv, ListNodes
  PROVE  ScanInv'
<1>1. PICK S \in get_known_nodes(KnownLimit) :
        /\ listed' = S
        /\ IF HasNew(S) THEN nodes' = S /\ Goto("report")
                        ELSE nodes' = {} /\ Goto("none")
  BY DEF ListNodes
<1>2. /\ pc = "found" /\ ~opts.overlay
      /\ UNCHANGED <<known, opts, preset, preset_nodes, asked, searchVars,
                     silent, reported, count>>
  BY DEF ListNodes, ReadyToReport
<1>3. known \subseteq Peer /\ preset \in Seq(Peer) /\ Len(preset) \in Nat
  BY DEF ScanInv, TypeOK
<1>4. /\ S \in SUBSET Peer
      /\ Cardinality(S) < KnownLimit => Range(preset) \subseteq S
  BY <1>2, <1>3, KnownNodes, PresetsKnown DEF Before
<1>5. Len(preset_nodes) = Len(preset) /\ reported = {} /\ silent = {}
  BY <1>2 DEF ScanInv, Before
<1>6. pc' \in {"report", "none"} /\ nodes' \subseteq Peer
  BY <1>1, <1>4 DEF Goto
<1>7. TypeOK'
  BY <1>1, <1>2, <1>4, <1>6 DEF ScanInv, TypeOK, searchVars, Ended
<1>8. CASE HasNew(S)
  <2>1. pc' = "report" /\ nodes' = S
    BY <1>1, <1>8 DEF Goto
  <2> QED BY <1>1, <1>2, <1>5, <1>7, <2>1
          DEF ScanInv, Before, searchVars, NewListed, CounterExact, NoneFound
<1>9. CASE ~HasNew(S)
  <2>1. pc' = "none" /\ nodes' = {}
    BY <1>1, <1>9 DEF Goto
  <2>2. ASSUME Cardinality(S) < KnownLimit
        PROVE  Cardinality(S \ Range(preset)) <= Repeats
    <3>1. /\ Cardinality(Range(preset)) \in Nat
          /\ Cardinality(S \ Range(preset)) = Cardinality(S) - Cardinality(Range(preset))
      BY <1>3, <1>4, <2>2, RangeCardinality, NewNodesCount
    <3>2. Cardinality(S) \in Nat /\ Cardinality(S) <= Len(preset)
      BY <1>3, <1>4, <1>9, PeersCount DEF HasNew
    <3> QED BY <1>3, <3>1, <3>2 DEF Repeats
  <2>3. NoneFound'
    BY <1>1, <1>2, <2>2 DEF NoneFound, NewListed, Repeats
  <2> QED BY <1>1, <1>2, <1>4, <1>5, <1>7, <2>1, <2>3
          DEF ScanInv, Before, searchVars, CounterExact
<1> QED BY <1>8, <1>9

\* A new node of the list leaves nodes for exactly one of the two sets.
LEMMA ReportStepScanInv ==
  ASSUME ScanInv, SkipPreset \/ PingUnanswered \/ Report
  PROVE  ScanInv'
<1>1. /\ pc = "report" /\ pc' = "report"
      /\ UNCHANGED <<known, opts, preset, preset_nodes, asked, searchVars, listed>>
  BY DEF SkipPreset, PingUnanswered, Report
<1>2. PICK p \in nodes :
        /\ nodes' = nodes \ {p}
        /\ \/ p \in Range(preset) /\ UNCHANGED <<silent, reported, count>>
           \/ /\ p \notin Range(preset) /\ silent' = silent \cup {p}
              /\ UNCHANGED <<reported, count>>
           \/ /\ p \notin Range(preset) /\ reported' = reported \cup {p}
              /\ count' = count + 1 /\ UNCHANGED silent
  BY DEF SkipPreset, PingUnanswered, Report
<1>3. /\ nodes \subseteq Peer /\ silent \subseteq Peer /\ reported \subseteq Peer
      /\ count \in Nat /\ count = Cardinality(reported)
      /\ NewListed = (nodes \ Range(preset)) \cup reported \cup silent
      /\ nodes \cap (reported \cup silent) = {} /\ reported \cap silent = {}
  BY <1>1 DEF ScanInv, TypeOK
<1>4. /\ nodes' \subseteq Peer /\ silent' \subseteq Peer /\ reported' \subseteq Peer
      /\ count' \in Nat
  BY <1>2, <1>3
<1>5. TypeOK'
  BY <1>1, <1>4 DEF ScanInv, TypeOK, searchVars
<1>6. count' = Cardinality(reported')
  <2>1. CASE reported' = reported
    BY <1>2, <1>3, <2>1
  <2>2. CASE reported' = reported \cup {p} /\ count' = count + 1
    <3>1. IsFiniteSet(reported) /\ p \notin reported
      BY <1>3, PeersCount
    <3> QED BY <1>3, <2>2, <3>1, FS_AddElement
  <2> QED BY <1>2, <2>1, <2>2
<1>7. NewListed' = (nodes' \ Range(preset')) \cup reported' \cup silent'
  BY <1>1, <1>2, <1>3 DEF NewListed
<1>8. nodes' \cap (reported' \cup silent') = {} /\ reported' \cap silent' = {}
  BY <1>2, <1>3
<1> QED BY <1>1, <1>5, <1>6, <1>7, <1>8
        DEF ScanInv, Before, searchVars, CounterExact, NoneFound

\* The DHT node learns of another peer: no list changes.
LEMMA BackgroundScanInv ==
  ASSUME ScanInv, Background
  PROVE  ScanInv'
<1>1. /\ known \subseteq known' /\ known' \subseteq Peer
      /\ UNCHANGED <<pc, opts, preset, preset_nodes, asked, searchVars, listed, reportVars>>
  BY DEF Background, Learn, ScanInv, TypeOK
<1>2. TypeOK'
  BY <1>1 DEF ScanInv, TypeOK, searchVars, reportVars
<1> QED BY <1>1, <1>2 DEF ScanInv, Before, searchVars, reportVars,
                          NewListed, Repeats, CounterExact, NoneFound

LEMMA NextScanInv == ScanInv /\ [Next]_vars => ScanInv'
<1> SUFFICES ASSUME ScanInv, [Next]_vars PROVE ScanInv'
  OBVIOUS
<1>1. CASE Configure \/ ConfigureFails \/ PresetFails \/ PresetsAdded \/ AskFails
  BY <1>1, MoveScanInv
     DEF Configure, ConfigureFails, PresetFails, PresetsAdded, AskFails, Goto
<1>2. CASE AddPreset
  BY <1>2, AddPresetScanInv
<1>3. CASE AskPreset
  <2>1. TypeOK'
    BY <1>3 DEF AskPreset, ScanInv, TypeOK, searchVars, reportVars
  <2> QED BY <1>3, <2>1 DEF AskPreset, ScanInv, Before, searchVars, reportVars,
                            NewListed, CounterExact, NoneFound
<1>4. CASE SearchMasterchain \/ SearchBasechain
  <2>1. pc \in {"ask", "found"} /\ \E w \in {-1, 0} : BeginSearch(w)
    BY <1>4 DEF SearchMasterchain, SearchBasechain
  <2>2. Len(preset_nodes) = Len(preset)
    BY <2>1 DEF ScanInv, Before
  <2> QED BY <2>1, <2>2, BeginSearchScanInv
<1>5. CASE Search
  BY <1>5, SearchScanInv
<1>6. CASE SearchFails \/ OverlaysDone \/ ListFails \/ ReportFails \/ Total
  BY <1>6, MoveScanInv
     DEF SearchFails, OverlaysDone, ListFails, ReadyToReport, ReportFails, Total, Goto
<1>7. CASE ListNodes
  BY <1>7, ListNodesScanInv
<1>8. CASE SkipPreset \/ PingUnanswered \/ Report
  BY <1>8, ReportStepScanInv
<1>9. CASE Background
  BY <1>9, BackgroundScanInv
<1>10. CASE UNCHANGED vars
  <2>1. TypeOK'
    BY <1>10 DEF vars, ScanInv, TypeOK, searchVars, reportVars
  <2> QED BY <1>10, <2>1 DEF vars, ScanInv, Before, searchVars, reportVars,
                             NewListed, Repeats, CounterExact, NoneFound
<1> QED BY <1>1, <1>2, <1>3, <1>4, <1>5, <1>6, <1>7, <1>8, <1>9, <1>10 DEF Next, Scan

-----------------------------------------------------------------------------
\* The invariant of dhtscan's scan().
THEOREM ScanInvariant == Spec => []ScanInv
<1>1. Init => ScanInv
  BY InitScanInv
<1>2. ScanInv /\ [Next]_vars => ScanInv'
  BY NextScanInv
<1> QED BY <1>1, <1>2, PTL DEF Spec

\* Type correctness: whatever wraps, the numbers printed are usize.
THEOREM ScanTypes == Spec => []TypeOK
<1>1. ScanInv => TypeOK
  BY DEF ScanInv
<1> QED BY <1>1, ScanInvariant, PTL

\* "Found n new DHT nodes" is exact up to repetitions in the global config.
THEOREM FoundCountExact == Spec => []CounterExact
<1>1. ScanInv => CounterExact
  BY DEF ScanInv
<1> QED BY <1>1, ScanInvariant, PTL

\* "No DHT nodes found" is never said of a list with more new nodes than the
\* global config has repetitions.
THEOREM NoneFoundHonest == Spec => []NoneFound
<1>1. ScanInv => NoneFound
  BY DEF ScanInv
<1> QED BY <1>1, ScanInvariant, PTL

\* The numbers of new overlay nodes add up to the number of overlay nodes.
THEOREM OverlaysAddUp == Spec => []AnnouncedAddUp
<1>1. ScanInv => AnnouncedAddUp
  BY DEF ScanInv, AnnouncedAddUp
<1> QED BY <1>1, ScanInvariant, PTL

\* "Total: n DHT nodes" ends a report of every new node of the list, however
\* many nodes were learnt meanwhile.
THEOREM ReportIsComplete == Spec => []ReportComplete
<1>1. ScanInv => ReportComplete
  BY DEF ScanInv, ReportComplete
<1> QED BY <1>1, ScanInvariant, PTL

=============================================================================
