---------------------------- MODULE AdnlResolve ----------------------------
(***************************************************************************)
(* bin/adnl_resolve.rs: look an ADNL address up in the DHT, and as long as *)
(* it is not found ask one DHT peer after the other for more peers.  Each  *)
(* await of scan() ends an action; the DHT node's threads run in between.  *)
(***************************************************************************)
EXTENDS Dht, SequencesExt

CONSTANTS
  Presets,      \* the lists of DHT peers a global config may hold
  KnownLimit    \* get_known_nodes is asked for so many; 10000 in the code

ASSUME ResolveAssumption == KnownLimit \in Nat /\ Presets \subseteq Seq(Peer)

VARIABLES
  pc,           \* where scan() is
  preset,       \* config.get_dht_nodes_configs()
  nodes,        \* the peers of this round that were not found to be bad
  bad_nodes,    \* the peers that did not respond
  index,        \* where scan() is in nodes
  responded     \* history: the peers that responded in this round

vars == <<known, pc, preset, nodes, bad_nodes, index, responded>>

Ended == {"found", "failed", "no good peers", "panicked"}

Init ==
  /\ known = {}
  /\ pc = "start"
  /\ preset \in Presets
  /\ nodes = <<>>
  /\ bad_nodes = {}
  /\ index = 0
  /\ responded = {}

Goto(s) == pc' = s

-----------------------------------------------------------------------------
(* Before the loop *)

\* The global config is read, and the ADNL and DHT nodes are started.
StartNode ==
  /\ pc = "start"
  /\ Goto("presets")
  /\ UNCHANGED <<known, preset, nodes, bad_nodes, index, responded>>

\* The file or the config in it is bad, or a node does not start.
StartFails ==
  /\ pc = "start"
  /\ Goto("failed")
  /\ UNCHANGED <<known, preset, nodes, bad_nodes, index, responded>>

AddPreset ==
  /\ pc = "presets"
  /\ Len(nodes) < Len(preset)
  /\ add_peer(preset[Len(nodes) + 1])
  /\ nodes' = Append(nodes, preset[Len(nodes) + 1])
  /\ UNCHANGED <<pc, preset, bad_nodes, index, responded>>

\* "Invalid DHT peer", or add_peer reports an error.
PresetFails ==
  /\ pc = "presets"
  /\ Len(nodes) < Len(preset)
  /\ Goto("failed")
  /\ UNCHANGED <<known, preset, nodes, bad_nodes, index, responded>>

\* The address is decoded: it is no base64, or it is cut off at 32 bytes,
\* and the slice panics if there are fewer.
ParseId ==
  /\ pc = "presets"
  /\ Len(nodes) = Len(preset)
  /\ \E s \in {"lookup", "failed", "panicked"} : Goto(s)
  /\ UNCHANGED <<known, preset, nodes, bad_nodes, index, responded>>

-----------------------------------------------------------------------------
(* The loop *)

Found ==
  /\ pc = "lookup"
  /\ Goto("found")
  /\ UNCHANGED <<known, preset, nodes, bad_nodes, index, responded>>

NextPeer_OffByOne ==
  /\ pc = "lookup"
  /\ index <= Len(nodes)
  /\ Goto("probe")
  /\ UNCHANGED <<known, preset, nodes, bad_nodes, index, responded>>

\* Not found, or the lookup failed: go on with the next peer of this round.
NextPeer ==
  /\ pc = "lookup"
  /\ index < Len(nodes)
  /\ Goto("probe")
  /\ UNCHANGED <<known, preset, nodes, bad_nodes, index, responded>>

Candidates_WithBad(S) == S \cap Usable

Candidates_NotPreset(S) == ((S \cap Usable) \ bad_nodes) \ Range(preset)

\* What is pushed to nodes of the peers the DHT node knows.
Candidates(S) == (S \cap Usable) \ bad_nodes

\* The round is over: start another one.
Refill ==
  /\ pc = "lookup"
  /\ index >= Len(nodes)
  /\ \E S \in get_known_nodes(KnownLimit) :
       \E s \in SetToSeqs(Candidates(S)) :
         /\ nodes' = s
         /\ IF s = <<>> THEN Goto("no good peers") /\ UNCHANGED index
                        ELSE Goto("probe") /\ index' = 0
  /\ responded' = {}
  /\ UNCHANGED <<known, preset, bad_nodes>>

\* get_known_nodes or add_peer reports an error.
RefillFails ==
  /\ pc = "lookup"
  /\ index >= Len(nodes)
  /\ Goto("failed")
  /\ UNCHANGED <<known, preset, nodes, bad_nodes, index, responded>>

NonResponsive_StepBack ==
  /\ pc = "probe"
  /\ bad_nodes' = bad_nodes \cup {nodes[index + 1]}
  /\ nodes' = RemoveAt(nodes, index + 1)
  /\ index' = index - 1
  /\ Goto("lookup")
  /\ UNCHANGED <<known, preset, responded>>

NonResponsive_StepOn ==
  /\ pc = "probe"
  /\ bad_nodes' = bad_nodes \cup {nodes[index + 1]}
  /\ nodes' = RemoveAt(nodes, index + 1)
  /\ index' = index + 1
  /\ Goto("lookup")
  /\ UNCHANGED <<known, preset, responded>>

NonResponsive ==
  /\ pc = "probe"
  /\ bad_nodes' = bad_nodes \cup {nodes[index + 1]}
  /\ nodes' = RemoveAt(nodes, index + 1)
  /\ Goto("lookup")
  /\ UNCHANGED <<known, preset, index, responded>>

Responsive_Stay ==
  /\ pc = "probe"
  /\ Goto("lookup")
  /\ UNCHANGED <<known, preset, nodes, bad_nodes, index, responded>>

\* The peer answered; what it said is learnt by the DHT node.
Responsive ==
  /\ pc = "probe"
  /\ index' = index + 1
  /\ responded' = responded \cup {nodes[index + 1]}
  /\ Goto("lookup")
  /\ UNCHANGED <<known, preset, nodes, bad_nodes>>

ProbeFails ==
  /\ pc = "probe"
  /\ Goto("failed")
  /\ UNCHANGED <<known, preset, nodes, bad_nodes, index, responded>>

\* Another thread of the process, once the nodes are started.
Background ==
  /\ pc \notin Ended \cup {"start"}
  /\ Learn
  /\ UNCHANGED <<pc, preset, nodes, bad_nodes, index, responded>>

Scan ==
  \/ StartNode \/ StartFails
  \/ AddPreset \/ PresetFails \/ ParseId
  \/ Found \/ NextPeer \/ Refill \/ RefillFails
  \/ NonResponsive \/ Responsive \/ ProbeFails

Next == Scan \/ Background

Spec == Init /\ [][Next]_vars

\* The awaits of scan() end: lookups and queries of the DHT node time out.
FairSpec == Spec /\ WF_vars(Scan)

-----------------------------------------------------------------------------
(* Properties *)

\* Type invariant; index stays a usize although nodes shrinks.
TypeOK ==
  /\ known \subseteq Peer
  /\ pc \in {"start", "presets", "lookup", "probe"} \cup Ended
  /\ preset \in Seq(Peer)
  /\ nodes \in Seq(Peer)
  /\ bad_nodes \subseteq Peer
  /\ index \in Nat
  /\ responded \subseteq Peer

\* nodes[index] is in range when it is asked and when it is removed, so
\* scan() cannot panic there, although nodes shrinks and is replaced.
IndexInRange == pc = "probe" => index < Len(nodes)

\* A removal moves the next peer into the place of the one removed, and no
\* round passes over it: the peers before index have all responded, and
\* index never gets past the end.
SkipsNone ==
  pc \in {"lookup", "probe"} =>
    index <= Len(nodes) /\ \A i \in 1 .. index : nodes[i] \in responded

\* A peer that did not respond is not asked again, if the global config does
\* not list a peer twice.
BadNotAsked ==
  pc = "probe" /\ IsInjective(preset) => nodes[index + 1] \notin bad_nodes

\* "No good DHT peers" is said only if every usable peer that the DHT node
\* knows, each preset one among them, has failed to respond.  Beyond
\* KnownLimit peers the code does not look.
GivesUpOnlyIfAllBad ==
  pc = "no good peers" /\ Cardinality(known) <= KnownLimit =>
    /\ known \cap Usable \subseteq bad_nodes
    /\ Range(preset) \subseteq bad_nodes

Asking(p) == pc = "probe" /\ nodes[index + 1] = p

\* The search reaches every usable peer the DHT node ever learns of, unless
\* it ends before: peers that answer do not keep it from the later ones, and
\* a peer learnt in the middle of a round is asked in the next one.  Again
\* this holds up to KnownLimit known peers.
EveryPeerAsked ==
  \A p \in Usable :
    p \in known ~> \/ Asking(p) \/ p \in bad_nodes
                   \/ pc \in Ended
                   \/ Cardinality(known) > KnownLimit

-----------------------------------------------------------------------------
(* The inductive invariant *)

\* Once the presets are in, the DHT node knows them all and they are usable;
\* while they are being added, nodes is a beginning of the list.  If it has
\* no repetition, the peers of a round are distinct and not bad.
ResolveInv ==
  /\ TypeOK
  /\ IndexInRange
  /\ SkipsNone
  /\ pc \notin {"start", "presets", "failed"} => Range(preset) \subseteq known \cap Usable
  /\ pc \in {"start", "presets"} =>
       /\ bad_nodes = {} /\ index = 0 /\ Len(nodes) <= Len(preset)
       /\ \A i \in 1 .. Len(nodes) : nodes[i] = preset[i] /\ preset[i] \in known \cap Usable
  /\ IsInjective(preset) =>
       /\ IsInjective(nodes)
       /\ \A i \in 1 .. Len(nodes) : nodes[i] \notin bad_nodes
  /\ GivesUpOnlyIfAllBad

=============================================================================
