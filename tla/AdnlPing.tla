------------------------------ MODULE AdnlPing ------------------------------
(***************************************************************************)
(* bin/adnl_ping.rs: set up an ADNL node and an overlay, add the peer to   *)
(* ping, and send it two queries, one after the other.  A query ends with  *)
(* an answer, without one (the timeout), or with an error.                 *)
(*                                                                         *)
(* The peer is not part of this repository: it answers a query at any      *)
(* time, also when the tool has stopped waiting for it, or never.          *)
(***************************************************************************)
EXTENDS Integers

CONSTANTS
  CommandLines,   \* [args, option] of a call: their number and the fourth
  LocalTags       \* the sets of key tags a local config may hold

KEY_TAG == 2

\* The two queries, and what comes after each of them.
Following == [GetRandomPeers |-> "GetCapabilities", GetCapabilities |-> "ok"]

VARIABLES
  pc,        \* where ping() is; at a query, its name
  waiting,   \* the query at pc has been sent
  cmdline,   \* the command line
  tags,      \* the key tags of the ADNL node
  inbox,     \* queries the peer has received and not answered
  reply      \* the query at pc has been answered

vars == <<pc, waiting, cmdline, tags, inbox, reply>>

Ended == {"usage", "ok", "failed"}

Init ==
  /\ pc = "main"
  /\ waiting = FALSE
  /\ cmdline \in CommandLines
  /\ tags = {}
  /\ inbox = {}
  /\ reply = FALSE

-----------------------------------------------------------------------------
(* main, and ping() up to the first query *)

HasConfig == cmdline.args = 6

ValidCommandLine ==
  cmdline.args = 4 \/ (HasConfig /\ cmdline.option = "--config")

Usage ==
  /\ pc = "main"
  /\ ~ValidCommandLine
  /\ pc' = "usage"
  /\ UNCHANGED <<waiting, cmdline, tags, inbox, reply>>

\* The keys come from the local config, or one is made with the right tag.
Configure ==
  /\ pc = "main"
  /\ ValidCommandLine
  /\ tags' \in IF HasConfig THEN LocalTags ELSE {{KEY_TAG}}
  /\ pc' = "overlay"
  /\ UNCHANGED <<waiting, cmdline, inbox, reply>>

\* AdnlNode::start and add_local_workchain_overlay.
AddOverlay ==
  /\ pc = "overlay"
  /\ pc' = "peer"
  /\ UNCHANGED <<waiting, cmdline, tags, inbox, reply>>

\* key_by_tag(KEY_TAG) and adnl.add_peer.
AddPeer ==
  /\ pc = "peer"
  /\ KEY_TAG \in tags
  /\ pc' = "GetRandomPeers"
  /\ UNCHANGED <<waiting, cmdline, tags, inbox, reply>>

\* A config that cannot be read, "Cannot add overlay", no such key, a bad
\* public key, "Cannot add peer to ADNL".
SetupFails ==
  /\ pc \in {"overlay", "peer"} \/ (pc = "main" /\ ValidCommandLine)
  /\ pc' = "failed"
  /\ UNCHANGED <<waiting, cmdline, tags, inbox, reply>>

-----------------------------------------------------------------------------
(* The queries *)

\* overlay.get_random_peers and overlay.query send a datagram and wait.
Send ==
  /\ pc \in DOMAIN Following
  /\ ~waiting
  /\ inbox' = inbox \cup {pc}
  /\ waiting' = TRUE
  /\ UNCHANGED <<pc, cmdline, tags, reply>>

\* "Got response".
GotResponse ==
  /\ waiting /\ reply
  /\ pc' = Following[pc]
  /\ waiting' = FALSE
  /\ reply' = FALSE
  /\ UNCHANGED <<cmdline, tags, inbox>>

NoResponse_TryAgain ==
  /\ waiting /\ ~reply
  /\ waiting' = FALSE
  /\ UNCHANGED <<pc, cmdline, tags, inbox, reply>>

\* The timeout of the query: None, "No response to ping".
NoResponse ==
  /\ waiting /\ ~reply
  /\ pc' = Following[pc]
  /\ waiting' = FALSE
  /\ UNCHANGED <<cmdline, tags, inbox, reply>>

QueryFails ==
  /\ waiting
  /\ pc' = "failed"
  /\ waiting' = FALSE
  /\ UNCHANGED <<cmdline, tags, inbox, reply>>

\* The peer answers query q.  The ADNL node matches answers with queries by
\* their ids and drops an answer that nobody waits for any more.
PeerAnswers ==
  \E q \in inbox :
    /\ inbox' = inbox \ {q}
    /\ reply' = (reply \/ (waiting /\ pc = q))
    /\ UNCHANGED <<pc, waiting, cmdline, tags>>

Ping ==
  \/ Usage \/ Configure \/ AddOverlay \/ AddPeer \/ SetupFails
  \/ Send \/ GotResponse \/ NoResponse \/ QueryFails

Next == Ping \/ PeerAnswers

\* The tool's thread goes on: queries of the ADNL node time out.
FairSpec == Init /\ [][Next]_vars /\ WF_vars(Ping)

-----------------------------------------------------------------------------
(* Property *)

\* The tool ends, whether the peer answers or not: adnl_ping.rs asks each
\* question once and takes a timeout for an answer.
PingEnds == <>(pc \in Ended)

=============================================================================
