--------------------------- MODULE ConsoleSafety ---------------------------
(***************************************************************************)
(* What bin/console.rs promises: properties of the module Console.         *)
(***************************************************************************)
EXTENDS Console

\* The queries whose first argument is a key of the bid that sends them.
KeyQueries == {"exportpub", "addpermkey", "addtempkey", "addadnl", "addvalidatoraddr", "sign"}
TtlQueries == {"addpermkey", "addtempkey", "addvalidatoraddr"}

\* The complete election bids on disk.
SavedBids == {disk[p] : p \in {p \in Path : disk[p].kind = "bid"}}

Hashes == {KeyHash(k) : k \in Key}
Locals == [perm : {None} \cup Hashes, pub : {None} \cup {PubKey(k) : k \in Key},
           adnl : {None} \cup Hashes]
NodeFields == {"keys", "permKeys", "tempKeys", "adnlIds", "validatorAddrs", "messages"}

\* Type invariant.  The times to live on the wire fit ton::int, whatever the
\* clock and the parameters say (the subtractions in send() are 32-bit).
TypeOK ==
  /\ clock \in FirstClock .. MaxClock
  /\ st \in [Console -> {"off"} \cup Running \cup Over]
  /\ step \in [Console -> 0 .. 8]
  /\ failed \in [Console -> BOOLEAN]
  /\ loc \in [Console -> Locals]
  /\ DOMAIN cmd = Console /\ DOMAIN todo = Console
  /\ DOMAIN out = Console /\ DOMAIN reply = Console /\ DOMAIN disk = Path
  /\ DOMAIN node = NodeFields
  /\ node.keys \subseteq Key
  /\ \A m \in pending :
       /\ m = Message(m.from, m.live, m.id, m.q)
       /\ m.from \in Console /\ m.live \in BOOLEAN
       /\ m.q.name \in CommandName
       /\ m.q.name \in TtlQueries => m.q.args[3] \in TonInt

-----------------------------------------------------------------------------
(* A saved bid is good for the election *)

InBid(c) == step[c] # 0 /\ st[c] \in {"call", "waiting", "answered"}

\* A body that is a bid is about to be written.
BidReady(c) == st[c] \in {"open", "saving"} /\ out[c].body.kind = "bid"

\* The refinement mapping: a bidder is bidding during its eight calls, and has
\* signed until the file is written.
StageOf(c) == IF InBid(c) THEN "bidding" ELSE IF BidReady(c) THEN "signed" ELSE "idle"
DraftOf(c) == IF BidReady(c) THEN out[c].body ELSE None
SavedIn(p) == IF disk[p].kind = "bid" THEN disk[p] ELSE None

\* The abstract specification that Console implements.
Promise == INSTANCE ElectionBid WITH
  Bidder <- Console,
  File   <- Path,
  ledger <- node,
  stage  <- [c \in Console |-> StageOf(c)],
  draft  <- [c \in Console |-> DraftOf(c)],
  saved  <- [p \in Path |-> SavedIn(p)]

\* Every step of the consoles, of the node and of the clock is a step of the
\* abstract specification or leaves its state alone: process_election_bid
\* with its calls, failures and retries looks like drafting, signing what
\* the node supports, and saving.
KeepsPromise == Promise!Spec

HashOf(pub_key) == Promise!HashOf(pub_key)
Backed(b) == Promise!Backed(b)
Lasting(b) == Promise!Lasting(b)

\* Whatever fails, is lost, arrives late or runs at the same time: a complete
\* validator-query.boc is backed by the node.  process_election_bid writes the
\* file only after all eight calls succeeded and the signature verified.
BidBacked == \A b \in SavedBids : Backed(b)

\* The times to live computed with 32-bit arithmetic from a clock read before
\* the query is sent, and counted by the node from when it handles the query,
\* never cut a saved bid's registrations short, on either side of 2038.
BidLasting == \A b \in SavedBids : Lasting(b)

\* The fixed-point max_factor of a saved bid is between 1 and 100.
FactorInRange ==
  \A b \in SavedBids : b.max_factor >= 65536 /\ b.max_factor <= 100 * 65536

-----------------------------------------------------------------------------
(* The inductive invariant behind BidBacked and BidLasting *)

\* The checks before the first query have passed for c's command.
BidChecked(c) ==
  /\ elect_time(c) \in 1 .. IntMax
  /\ expire_time(c) \in elect_time(c) + 1 .. IntMax

\* What the node knows once the n-th call of c's bid has succeeded.
PermRegistered(c) ==
  \E r \in node.permKeys : /\ r.key = loc[c].perm
                           /\ r.election_date = elect_time(c)
                           /\ r.ttl = expire_time(c) - elect_time(c)
TempRegistered(c) ==
  \E t \in node.tempKeys : /\ t.perm = loc[c].perm /\ t.key = loc[c].perm
                           /\ t.expires >= expire_time(c)
AdnlRegistered(c) == \E i \in node.adnlIds : i.key = loc[c].adnl
AddressRegistered(c) ==
  \E v \in node.validatorAddrs : /\ v.perm = loc[c].perm /\ v.key = loc[c].adnl
                                 /\ v.expires >= elect_time(c)

Completed(c, n) ==
  /\ n >= 1 => \E k \in node.keys : /\ loc[c].perm = KeyHash(k)
                                    /\ n >= 2 => loc[c].pub = PubKey(k)
  /\ n >= 3 => PermRegistered(c)
  /\ n >= 4 => TempRegistered(c)
  /\ n >= 5 => \E k \in node.keys : loc[c].adnl = KeyHash(k)
  /\ n >= 6 => AdnlRegistered(c)
  /\ n >= 7 => AddressRegistered(c)

\* The query c waits for is that of its current call, and its time to live
\* is still long enough when counted from now.
Asked(c, q) ==
  /\ q.name = BidCall(c).name
  /\ step[c] \in {2, 3, 4, 7} => q.args[1] = loc[c].perm
  /\ step[c] = 3 => /\ q.args[2] = elect_time(c)
                    /\ q.args[3] = expire_time(c) - elect_time(c)
  /\ step[c] = 4 => q.args[2] = loc[c].perm /\ clock + q.args[3] >= expire_time(c)
  /\ step[c] = 6 => q.args[1] = loc[c].adnl
  /\ step[c] = 7 => q.args[2] = loc[c].adnl /\ clock + q.args[3] >= elect_time(c)

\* An answer of the right type means that the current call took effect.
Answered(c) ==
  reply[c].type = AnswerType(BidCall(c).name) =>
    /\ step[c] \in {1, 5} => \E k \in node.keys : reply[c].val = KeyHash(k)
    /\ step[c] = 2 => \E k \in node.keys : /\ loc[c].perm = KeyHash(k)
                                           /\ reply[c].val = PubKey(k)
    /\ step[c] = 3 => PermRegistered(c)
    /\ step[c] = 4 => TempRegistered(c)
    /\ step[c] = 6 => AdnlRegistered(c)
    /\ step[c] = 7 => AddressRegistered(c)

Good(b) == b.kind = "bid" => Backed(b) /\ Lasting(b)

ConsoleInv(c) ==
  /\ InBid(c) => BidChecked(c) /\ Completed(c, step[c] - 1)
  /\ InBid(c) /\ st[c] = "waiting" =>
       \A m \in pending : m.live /\ m.from = c => Asked(c, m.q)
  /\ InBid(c) /\ st[c] = "answered" => Answered(c)
  /\ st[c] \in {"open", "saving"} => Good(out[c].body)

\* At most one query of a console is waited for, and only while it waits.
WaitInv ==
  /\ \A m \in pending : m.live => st[m.from] = "waiting"
  /\ \A m, n \in pending : m.live /\ n.live /\ m.from = n.from => m = n

\* Inductive: every saved bid was written by a console whose calls had all
\* succeeded, each step's effect being on the node before the next begins.
BidInv ==
  /\ TypeOK
  /\ WaitInv
  /\ \A c \in Console : ConsoleInv(c)
  /\ \A p \in Path : Good(disk[p])

-----------------------------------------------------------------------------
(* Concurrent and failed bids *)

Credentials(c) == {loc[c].perm, loc[c].adnl} \ {None}

\* No two bids use the same key, and no bid uses its permanent key as its
\* ADNL address, also when consoles run side by side or a bid is repeated.
CredentialsUnshared ==
  /\ \A c \in Console : loc[c].adnl # None => loc[c].adnl # loc[c].perm
  /\ \A c, d \in Console : c # d => Credentials(c) \cap Credentials(d) = {}

\* The keys of a bid on disk, and those of the bids' queries that may still be
\* executed though nobody waits for them.
KeysOf(b) == {HashOf(b.pub_key), b.adnl}
SavedKeys == UNION {KeysOf(b) : b \in SavedBids}
OfBid(m) == m.id[2] # 0 /\ m.q.name \in KeyQueries
AbandonedKeys == {m.q.args[1] : m \in {m \in pending : ~m.live /\ OfBid(m)}}

\* A query of a bid that its console gave up on may still be executed, but it
\* never concerns a key of a saved bid: the error made process_election_bid
\* return.
AbandonedNeverSaved == SavedKeys \cap AbandonedKeys = {}

\* The keys of c's bid, with the one that the node has just generated for it.
NewKeyReceived(c) == st[c] = "answered" /\ step[c] \in {1, 5} /\ reply[c].type = "KeyHash"
Claimed(c) == Credentials(c) \cup {h \in {reply[c].val} : NewKeyReceived(c)}
NodeHashes == {KeyHash(k) : k \in node.keys}

KeysDiffer(c) ==
  /\ loc[c].adnl # None => loc[c].adnl # loc[c].perm
  /\ NewKeyReceived(c) => reply[c].val \notin {loc[c].perm, loc[c].adnl}

\* A query of a bid that is waited for is about the bid's own keys.
OwnKeys ==
  \A m \in pending :
    m.live /\ OfBid(m) => InBid(m.from) /\ m.q.args[1] \in Credentials(m.from)

\* Inductive together with BidInv: a key is generated for one bid, and is on
\* one side only, with a bid that may still be saved or with an abandoned one.
KeyInv ==
  /\ SavedKeys \cup AbandonedKeys \subseteq NodeHashes
  /\ \A c \in Console : Claimed(c) \subseteq NodeHashes /\ KeysDiffer(c)
  /\ \A c, d \in Console : c # d => Claimed(c) \cap Claimed(d) = {}
  /\ \A c \in Console : InBid(c) => Claimed(c) \cap (SavedKeys \cup AbandonedKeys) = {}
  /\ \A c \in Console :
       BidReady(c) => /\ KeysOf(out[c].body) = Credentials(c)
                      /\ Credentials(c) \cap AbandonedKeys = {}
  /\ AbandonedNeverSaved
  /\ OwnKeys

-----------------------------------------------------------------------------
(* One console after the other: stale files *)

\* The batch goes on after a failed command, so "sendmessage" may find the
\* file of an earlier run.  It sends one in the place of the file that an
\* earlier command of its session was to write only if an error was printed,
\* at whichever step that command failed.
SentFresh ==
  \A m \in pending :
    /\ m.live /\ m.q.name = "sendmessage"
    /\ ~failed[m.from]
    /\ out[m.from].path = cmd[m.from].params[1].val
    => m.q.args[1] = out[m.from].body

\* The command of c is one that writes a file, and it is under way.
Writing(c) ==
  \/ st[c] \in {"open", "saving"}
  \/ /\ st[c] \in {"call", "waiting", "answered"}
     /\ step[c] # 0 \/ SavesAccount(cmd[c].name, cmd[c].params)

\* A console that has printed no error finds in the file its last command was
\* to write what that command wrote.
FileFresh(c) ==
  /\ st[c] = "off" => out[c].path = None
  /\ /\ st[c] \in Running
     /\ ~Writing(c)
     /\ ~failed[c]
     /\ out[c].path \in Path
     => disk[out[c].path] = out[c].body

\* Inductive if consoles do not run side by side: one console runs at a time.
SeqInv ==
  /\ \A c, d \in Console : st[c] \in Running /\ st[d] \in Running => c = d
  /\ \A c \in Console : FileFresh(c)
  /\ SentFresh

-----------------------------------------------------------------------------
(* Liveness *)

HasQuit(c) == \E i \in 1 .. Len(todo[c]) : todo[c][i].name = "quit"

\* "batch mode - call commands and exit": a console comes to an end, if it
\* runs a batch or if "quit" is still among its input lines.
EventuallyExits ==
  \A c \in Console :
    st[c] \in Running /\ (c \in Batch \/ HasQuit(c)) ~> st[c] \in Over

-----------------------------------------------------------------------------
(* What the documentation and the assertions of the code say, and the code *)
(* does not do                                                             *)

\* params.next().expect("takes_value set for COMMANDS"): a command has at
\* least one word.
CommandHasName == \A c \in Console : st[c] # "panicked"

\* A command with the parameters that README.md lists for it passes the
\* checks of its send() and reaches the node.
DocumentedAccepted ==
  \A c \in Console :
    st[c] = "call" => Accepts(CurrentCall(c).name, CurrentCall(c).params)

\* README.md: election-bid "asks to sign it and sends to the blockchain".  A
\* console that ended without an error after a bid has sent it.
BidSent ==
  \A c \in Console :
    st[c] = "exited" /\ ~failed[c] /\ out[c].body.kind = "bid" =>
      \/ out[c].body \in node.messages
      \/ \E m \in pending : m.q.name = "sendmessage" /\ m.q.args[1] = out[c].body

=============================================================================
