-------------------------------- MODULE Dht --------------------------------
(***************************************************************************)
(* The DHT node of the dht crate, which is not part of this repository:    *)
(* what bin/adnl_resolve.rs relies on.  It remembers the peers it has been *)
(* told of and never forgets one; its threads may learn of another peer at *)
(* any time, from an answer to one of its queries or from a query it gets. *)
(***************************************************************************)
EXTENDS Integers, FiniteSets, FiniteSetsExt

CONSTANTS
  Peer,      \* DHT peers, by key id
  Usable     \* those whose record add_peer accepts

ASSUME PeerAssumption == IsFiniteSet(Peer) /\ Usable \subseteq Peer

VARIABLE known     \* the peers the DHT node knows

\* add_peer returns the peer's key, and the peer is known from now on.
add_peer(p) == p \in Usable /\ known' = known \cup {p}

\* The sets of peers get_known_nodes(limit) may return.
get_known_nodes(limit) ==
  IF Cardinality(known) <= limit THEN {known} ELSE kSubset(limit, known)

Learn == \E p \in Peer : known' = known \cup {p}

=============================================================================
