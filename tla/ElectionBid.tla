---------------------------- MODULE ElectionBid ----------------------------
(***************************************************************************)
(* What the command election-bid promises, without its calls, its messages *)
(* and the ways they fail: bidders draft bids, a draft is signed only when *)
(* the node's ledger supports it, and a file holds a bid only if a bidder  *)
(* saved its signed draft there.                                           *)
(***************************************************************************)
EXTENDS Integers

CONSTANTS
  Bidder,   \* who bids
  File,     \* file names
  None      \* no value

VARIABLES
  ledger,   \* the node's keys and registrations
  stage,    \* stage[c]: bidder c is "idle", "bidding" or has "signed"
  draft,    \* draft[c]: the bid that c has signed
  saved     \* saved[p]: the bid in file p

bidVars == <<ledger, stage, draft, saved>>

-----------------------------------------------------------------------------
(* When the ledger supports a bid *)

\* The key hash that belongs to a public key.
HashOf(pub_key) == [hash |-> pub_key.pub]

\* What a bid needs of the node: its permanent key registered for that
\* election and as its own temporary key, its ADNL key registered as an
\* address and as the validator address of the permanent key, and a
\* signature by the permanent key over this very bid.
Backed(b) ==
  \E k \in ledger.keys :
    /\ b.pub_key = [pub |-> k]
    /\ \E r \in ledger.permKeys : r.key = [hash |-> k] /\ r.election_date = b.elect_time
    /\ \E t \in ledger.tempKeys : t.perm = [hash |-> k] /\ t.key = [hash |-> k]
    /\ \E i \in ledger.adnlIds : i.key = b.adnl
    /\ \E v \in ledger.validatorAddrs : v.perm = [hash |-> k] /\ v.key = b.adnl
    /\ b.signature.by = b.pub_key
    /\ b.signature.over.elect_time = b.elect_time
    /\ b.signature.over.max_factor = b.max_factor
    /\ b.signature.over.adnl = b.adnl

\* The registrations behind b last: the permanent key's time to live is
\* positive, the temporary key does not expire before the permanent one, and
\* the validator address does not expire before the election.
Lasting(b) ==
  /\ \E r \in ledger.permKeys, t \in ledger.tempKeys :
       /\ r.key = HashOf(b.pub_key) /\ r.election_date = b.elect_time
       /\ t.perm = HashOf(b.pub_key) /\ t.key = HashOf(b.pub_key)
       /\ r.ttl > 0
       /\ t.expires >= r.election_date + r.ttl
  /\ \E v \in ledger.validatorAddrs :
       /\ v.perm = HashOf(b.pub_key) /\ v.key = b.adnl
       /\ v.expires >= b.elect_time

-----------------------------------------------------------------------------
Init ==
  /\ \A f \in DOMAIN ledger : ledger[f] = {}
  /\ stage = [c \in Bidder |-> "idle"]
  /\ draft = [c \in Bidder |-> None]
  /\ saved = [p \in File |-> None]

\* The node registers something; it never takes anything back.
Register ==
  /\ DOMAIN ledger' = DOMAIN ledger
  /\ \A f \in DOMAIN ledger : ledger[f] \subseteq ledger'[f]
  /\ UNCHANGED <<stage, draft, saved>>

Begin(c) ==
  /\ stage[c] = "idle"
  /\ stage' = [stage EXCEPT ![c] = "bidding"]
  /\ UNCHANGED <<ledger, draft, saved>>

Sign(c) ==
  /\ stage[c] = "bidding"
  /\ stage' = [stage EXCEPT ![c] = "signed"]
  /\ draft' = [draft EXCEPT ![c] = draft'[c]]
  /\ Backed(draft'[c]) /\ Lasting(draft'[c])
  /\ UNCHANGED <<ledger, saved>>

Save(c) ==
  /\ stage[c] = "signed"
  /\ \E p \in File : saved' = [saved EXCEPT ![p] = draft[c]]
  /\ stage' = [stage EXCEPT ![c] = "idle"]
  /\ draft' = [draft EXCEPT ![c] = None]
  /\ UNCHANGED ledger

GiveUp(c) ==
  /\ stage[c] # "idle"
  /\ stage' = [stage EXCEPT ![c] = "idle"]
  /\ draft' = [draft EXCEPT ![c] = None]
  /\ UNCHANGED <<ledger, saved>>

\* A file is truncated or overwritten by something else.
Lose(p) ==
  /\ saved' = [saved EXCEPT ![p] = None]
  /\ UNCHANGED <<ledger, stage, draft>>

Next ==
  \/ Register
  \/ \E c \in Bidder : Begin(c) \/ Sign(c) \/ Save(c) \/ GiveUp(c)
  \/ \E p \in File : Lose(p)

Spec == Init /\ [][Next]_bidVars

=============================================================================
