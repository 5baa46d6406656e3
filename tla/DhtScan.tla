------------------------------ MODULE DhtScan ------------------------------
(***************************************************************************)
(* bin/dhtscan.rs: ask the DHT peers of the global config for more peers,  *)
(* search the overlays of the masterchain and, if wanted, of workchain 0,  *)
(* and report either the overlay nodes or the DHT nodes that were found.   *)
(* Each block_on ends an action; the DHT node's threads run in between.    *)
(***************************************************************************)
EXTENDS Dht, SequencesExt

CONSTANTS
  Presets,       \* the lists of DHT peers a global config may hold
  KnownLimit,    \* get_known_nodes is asked for so many; 5000 in the code
  Options,       \* the flags [overlay, workchain0] of the command line
  Member,        \* nodes of the overlays, by key id
  UsizeModulus   \* 2^64 in the build

ASSUME ScanAssumption ==
  /\ KnownLimit \in Nat
  /\ Presets \subseteq Seq(Peer)
  /\ Options \subseteq [overlay : BOOLEAN, workchain0 : BOOLEAN]
  /\ IsFiniteSet(Member)
  /\ UsizeModulus \in Nat
  /\ Cardinality(Peer) < UsizeModulus /\ Cardinality(Member) < UsizeModulus
  /\ \A s \in Presets : Len(s) < UsizeModulus

VARIABLES
  pc,            \* where scan() is
  opts,          \* search_overlay and use_workchain0
  preset,        \* dht_nodes, from the global config
  preset_nodes,  \* their keys, as far as they have been added
  asked,         \* number of preset nodes that were asked
  workchain,     \* the argument of the current scan_overlay
  overlays,      \* the overlay nodes that scan_overlay has found
  shown,         \* the number it printed last
  announced,     \* history: the sum of the numbers of overlay nodes it printed
  listed,        \* what get_known_nodes returned last
  nodes,         \* those of listed that the report has not looked at
  silent,        \* history: those that did not answer a ping
  reported,      \* the nodes printed
  count          \* their number, for the last line

searchVars == <<workchain, overlays, shown, announced>>
reportVars == <<nodes, silent, reported, count>>
vars == <<known, pc, opts, preset, preset_nodes, asked, searchVars, listed, reportVars>>

Ended == {"total", "none", "overlays", "failed"}

\* Not all preset peers have been added.
Before == {"start", "presets"}

Goto(s) == pc' = s

Init ==
  /\ known = {}
  /\ pc = "start"
  /\ opts \in Options
  /\ preset \in Presets
  /\ preset_nodes = <<>>
  /\ asked = 0
  /\ workchain = -1 /\ overlays = {} /\ shown = 0 /\ announced = 0
  /\ listed = {}
  /\ nodes = {} /\ silent = {} /\ reported = {} /\ count = 0

Minus_NoWrap(a, b) == a - b

\* Subtraction of usize in a release build.
Minus(a, b) == IF a >= b THEN a - b ELSE a - b + UsizeModulus

-----------------------------------------------------------------------------
(* The peers of the global config *)

\* The global config is read, and the ADNL, DHT and overlay nodes start.
Configure ==
  /\ pc = "start"
  /\ Goto("presets")
  /\ UNCHANGED <<known, opts, preset, preset_nodes, asked, searchVars, listed, reportVars>>

\* No config is named, or one of these steps fails.
ConfigureFails ==
  /\ pc = "start"
  /\ Goto("failed")
  /\ UNCHANGED <<known, opts, preset, preset_nodes, asked, searchVars, listed, reportVars>>

AddPreset ==
  /\ pc = "presets"
  /\ Len(preset_nodes) < Len(preset)
  /\ add_peer(preset[Len(preset_nodes) + 1])
  /\ preset_nodes' = Append(preset_nodes, preset[Len(preset_nodes) + 1])
  /\ UNCHANGED <<pc, opts, preset, asked, searchVars, listed, reportVars>>

\* "Invalid DHT peer", or add_peer reports an error.
PresetFails ==
  /\ pc = "presets"
  /\ Len(preset_nodes) < Len(preset)
  /\ Goto("failed")
  /\ UNCHANGED <<known, opts, preset, preset_nodes, asked, searchVars, listed, reportVars>>

PresetsAdded ==
  /\ pc = "presets"
  /\ Len(preset_nodes) = Len(preset)
  /\ Goto("ask")
  /\ UNCHANGED <<known, opts, preset, preset_nodes, asked, searchVars, listed, reportVars>>

\* find_dht_nodes: whether the peer answered does not matter.
AskPreset ==
  /\ pc = "ask"
  /\ asked < Len(preset_nodes)
  /\ asked' = asked + 1
  /\ UNCHANGED <<known, pc, opts, preset, preset_nodes, searchVars, listed, reportVars>>

AskFails ==
  /\ pc = "ask"
  /\ asked < Len(preset_nodes)
  /\ Goto("failed")
  /\ UNCHANGED <<known, opts, preset, preset_nodes, asked, searchVars, listed, reportVars>>

-----------------------------------------------------------------------------
(* scan_overlay *)

\* The call for workchain w: its map of overlay nodes is empty.
BeginSearch(w) ==
  /\ Goto("search")
  /\ workchain' = w
  /\ overlays' = {}
  /\ shown' = 0
  /\ announced' = 0
  /\ UNCHANGED <<known, opts, preset, preset_nodes, asked, listed, reportVars>>

SearchMasterchain ==
  /\ pc = "ask"
  /\ asked = Len(preset_nodes)
  /\ BeginSearch(-1)

NewOverlays_CountAll(R) == Cardinality(R)

\* overlays.len() - count, where count was taken before the insertions of R.
NewOverlays(R) == Minus(Cardinality(overlays \cup R), Cardinality(overlays))

NewDhtNodes_TooFew(S) == Minus(Cardinality(S), Len(preset_nodes) + 1)

NewDhtNodes(S) == Minus(Cardinality(S), Len(preset_nodes))

\* One turn of the loop: find_overlay_nodes returns some nodes, and the
\* iterator tells whether there may be more.
Search ==
  /\ pc = "search"
  /\ \E R \in SUBSET Member :
       /\ overlays' = overlays \cup R
       /\ IF opts.overlay
          THEN /\ shown' = NewOverlays(R)
               /\ announced' = announced + shown'
               /\ UNCHANGED listed
          ELSE /\ \E S \in get_known_nodes(KnownLimit) :
                    shown' = NewDhtNodes(S) /\ listed' = S
               /\ UNCHANGED announced
  /\ \E s \in {"search", "found"} : Goto(s)
  /\ UNCHANGED <<known, opts, preset, preset_nodes, asked, workchain, reportVars>>

SearchFails ==
  /\ pc = "search"
  /\ Goto("failed")
  /\ UNCHANGED <<known, opts, preset, preset_nodes, asked, searchVars, listed, reportVars>>

\* The second call, with --workchain0.
SearchBasechain ==
  /\ pc = "found"
  /\ opts.workchain0 /\ workchain = -1
  /\ BeginSearch(0)

\* With --overlay there is nothing more to do.
OverlaysDone ==
  /\ pc = "found"
  /\ ~(opts.workchain0 /\ workchain = -1)
  /\ opts.overlay
  /\ Goto("overlays")
  /\ UNCHANGED <<known, opts, preset, preset_nodes, asked, searchVars, listed, reportVars>>

-----------------------------------------------------------------------------
(* The report *)

ReadyToReport ==
  /\ pc = "found"
  /\ ~(opts.workchain0 /\ workchain = -1)
  /\ ~opts.overlay

HasNew_Distinct(S) == Cardinality(S) > Len(preset) + 1

\* nodes.len() > dht_nodes.len()
HasNew(S) == Cardinality(S) > Len(preset)

ListNodes ==
  /\ ReadyToReport
  /\ \E S \in get_known_nodes(KnownLimit) :
       /\ listed' = S
       /\ IF HasNew(S) THEN nodes' = S /\ Goto("report")
                       ELSE nodes' = {} /\ Goto("none")
  /\ UNCHANGED <<known, opts, preset, preset_nodes, asked, searchVars, silent, reported, count>>

ListFails ==
  /\ ReadyToReport
  /\ Goto("failed")
  /\ UNCHANGED <<known, opts, preset, preset_nodes, asked, searchVars, listed, reportVars>>

\* The next node of the list is a preset one, by its id.
SkipPreset ==
  /\ pc = "report"
  /\ \E p \in nodes \cap Range(preset) : nodes' = nodes \ {p}
  /\ UNCHANGED <<known, pc, opts, preset, preset_nodes, asked, searchVars, listed,
                 silent, reported, count>>

PingUnanswered_Break ==
  /\ pc = "report"
  /\ \E p \in nodes \ Range(preset) : silent' = silent \cup {p}
  /\ nodes' = {}
  /\ UNCHANGED <<known, pc, opts, preset, preset_nodes, asked, searchVars, listed,
                 reported, count>>

\* The ping fails or is not answered: go on with the next node.
PingUnanswered ==
  /\ pc = "report"
  /\ \E p \in nodes \ Range(preset) :
       /\ nodes' = nodes \ {p}
       /\ silent' = silent \cup {p}
  /\ UNCHANGED <<known, pc, opts, preset, preset_nodes, asked, searchVars, listed,
                 reported, count>>

\* The ping is answered and the address list can be read.
Report ==
  /\ pc = "report"
  /\ \E p \in nodes \ Range(preset) :
       /\ nodes' = nodes \ {p}
       /\ reported' = reported \cup {p}
  /\ count' = count + 1
  /\ UNCHANGED <<known, pc, opts, preset, preset_nodes, asked, searchVars, listed, silent>>

\* The key or the address list cannot be read: the whole report ends.
ReportFails ==
  /\ pc = "report"
  /\ nodes \ Range(preset) # {}
  /\ Goto("failed")
  /\ UNCHANGED <<known, opts, preset, preset_nodes, asked, searchVars, listed, reportVars>>

Total_ListAgain ==
  /\ pc = "report"
  /\ nodes = {}
  /\ Goto("found")
  /\ silent' = {} /\ reported' = {} /\ count' = 0
  /\ UNCHANGED <<known, opts, preset, preset_nodes, asked, searchVars, listed, nodes>>

Total ==
  /\ pc = "report"
  /\ nodes = {}
  /\ Goto("total")
  /\ UNCHANGED <<known, opts, preset, preset_nodes, asked, searchVars, listed, reportVars>>

-----------------------------------------------------------------------------
\* Another thread of the process.
Background ==
  /\ pc \notin {"start"} \cup Ended
  /\ Learn
  /\ UNCHANGED <<pc, opts, preset, preset_nodes, asked, searchVars, listed, reportVars>>

Scan ==
  \/ Configure \/ ConfigureFails
  \/ AddPreset \/ PresetFails \/ PresetsAdded \/ AskPreset \/ AskFails
  \/ SearchMasterchain \/ Search \/ SearchFails \/ SearchBasechain \/ OverlaysDone
  \/ ListNodes \/ ListFails
  \/ SkipPreset \/ PingUnanswered \/ Report \/ ReportFails \/ Total

Next == Scan \/ Background

Spec == Init /\ [][Next]_vars

\* The calls that block_on waits for return: queries and pings time out.
FairSpec == Spec /\ WF_vars(Scan)

-----------------------------------------------------------------------------
(* Properties *)

\* Type invariant; the numbers printed are of type usize.
TypeOK ==
  /\ known \subseteq Peer
  /\ pc \in Before \cup {"ask", "search", "found", "report"} \cup Ended
  /\ opts \in [overlay : BOOLEAN, workchain0 : BOOLEAN]
  /\ preset \in Seq(Peer)
  /\ preset_nodes \in Seq(Peer)
  /\ asked \in Nat
  /\ workchain \in {-1, 0}
  /\ overlays \subseteq Member
  /\ shown \in 0 .. UsizeModulus - 1 /\ announced \in Nat
  /\ listed \subseteq Peer
  /\ nodes \subseteq Peer /\ silent \subseteq Peer /\ reported \subseteq Peer
  /\ count \in Nat

\* The nodes of the last list that the global config does not name.
NewListed == listed \ Range(preset)

\* How many entries of the global config repeat an earlier one.
Repeats == Len(preset) - Cardinality(Range(preset))

\* "Found n new DHT nodes": n is the number of known nodes that the global
\* config does not name, less one for every entry that repeats another; if
\* there are more repetitions than new nodes the usize wraps around.  Lists
\* cut off at KnownLimit are left aside.
CounterExact ==
  pc = "found" /\ ~opts.overlay /\ Cardinality(listed) < KnownLimit =>
    shown = Minus(Cardinality(NewListed), Repeats)

\* "No DHT nodes found": apart from a list that was cut off, there are at most
\* as many new nodes as the global config has repetitions, so none if it has
\* no repetition.
NoneFound ==
  pc = "none" /\ Cardinality(listed) < KnownLimit => Cardinality(NewListed) <= Repeats

\* The numbers of new overlay nodes printed by one scan_overlay add up to the
\* total it prints at the end, although the searches may return a node twice.
AnnouncedAddUp ==
  opts.overlay /\ pc \in {"search", "found", "overlays"} =>
    announced = Cardinality(overlays)

\* When "Total: n DHT nodes" is printed every new node of the list has been
\* reported once or has not answered, no preset node is among them, and n
\* counts the reported ones.  A report that an error cut short has no total.
ReportComplete ==
  pc = "total" =>
    /\ reported \cup silent = NewListed
    /\ reported \cap silent = {}
    /\ count = Cardinality(reported)

\* The report comes to its end, also while the DHT node learns of more nodes.
ReportEnds == pc = "report" ~> pc \in Ended

-----------------------------------------------------------------------------
(* The inductive invariant *)

\* Preset peers are known once they are added, and stay so; the list is split
\* into what the report has not looked at, what it printed and the silent ones.
ScanInv ==
  /\ TypeOK
  /\ Len(preset) < UsizeModulus /\ Len(preset_nodes) <= Len(preset)
  /\ \A i \in 1 .. Len(preset_nodes) : preset_nodes[i] = preset[i] /\ preset[i] \in known
  /\ pc \notin Before \cup {"failed"} => Len(preset_nodes) = Len(preset)
  /\ pc \in Before \cup {"ask"} => announced = 0 /\ overlays = {}
  /\ opts.overlay => announced = Cardinality(overlays)
  /\ pc \in {"found", "none"} /\ ~opts.overlay /\ Cardinality(listed) < KnownLimit =>
       Range(preset) \subseteq listed
  /\ pc \in {"report", "total"} =>
       /\ NewListed = (nodes \ Range(preset)) \cup reported \cup silent
       /\ nodes \cap (reported \cup silent) = {} /\ reported \cap silent = {}
  /\ pc \notin {"report", "total", "failed"} => nodes = {} /\ reported = {} /\ silent = {}
  /\ count = Cardinality(reported)
  /\ pc = "total" => nodes = {}
  /\ CounterExact /\ NoneFound

=============================================================================
