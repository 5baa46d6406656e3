----------------------------- MODULE MCConsole -----------------------------
(***************************************************************************)
(* Instances of Console for TLC.                                           *)
(***************************************************************************)
EXTENDS ConsoleSafety, TLC

MCPath == {"validator-query.boc", "recover-query.boc", "config-param.boc", "a.boc"}

\* console.json of every console: max_factor 2.75.
MCConfig == [c \in Console |-> [wallet_id |-> "masterchain", max_factor |-> 11]]

\* max_factor at the upper limit, and just above it in batch mode.
LimitConfig ==
  [c \in Console |-> [wallet_id |-> "masterchain",
                      max_factor |-> IF c \in Batch THEN 401 ELSE 400]]

KeySymmetry == Permutations(Key)
Symmetry == Permutations(Key) \cup Permutations(Console)

Bid(elect, expire) == Call("election-bid", <<Dec(elect), Dec(expire)>>)
SendBid == Call("sendmessage", <<Text("validator-query.boc")>>)
Recover == Call("recover_stake", <<Text("validator-query.boc")>>)

\* A bid; also for two consoles at the same time.
OneBid == {<<Bid(5, 7)>>}

\* A bid, and a later session that bids again, with good or bad parameters,
\* and sends the file.
RetryScripts ==
  {<<Bid(5, 7)>>, <<Bid(6, 7), SendBid>>, <<Bid(5, 5), SendBid>>, <<Recover>>}

-----------------------------------------------------------------------------
\* Every command of the table, in the forms it accepts and rejects.
SomeHash == Hex(KeyHash(CHOOSE k \in Key : TRUE))
Block == [enc |-> "block", val |-> "block"]

TableCommands ==
  {Call("newkey", <<>>),
   Call("exportpub", <<SomeHash>>), Call("exportpub", <<Dec(1)>>),
   Call("sign", <<SomeHash, Hex("data")>>), Call("sign", <<SomeHash, Base64("data")>>),
   Call("addpermkey", <<SomeHash, Dec(IntMin), Dec(IntMax)>>),
   Call("addtempkey", <<SomeHash, SomeHash, Dec(IntMin)>>),
   Call("addvalidatoraddr", <<SomeHash, SomeHash>>),
   Call("addadnl", <<SomeHash, Dec(15)>>), Call("addadnl", <<SomeHash, Dec(16)>>),
   Call("bundle", <<Block>>),
   Call("future_bundle", <<Block>>), Call("future_bundle", <<Block, Block>>),
   Call("getaccount", <<Text("0:0")>>), Call("getaccount", <<Text("0:0"), Text("a.boc")>>),
   Call("getaccountstate", <<Text("0:0")>>),
   Call("getaccountstate", <<Text("0:0"), Text("a.boc")>>),
   Call("getblockchainconfig", <<>>), Call("getconfig", <<Dec(1)>>),
   Call("getconsensusstats", <<>>), Call("getstats", <<>>), Call("getstatsnew", <<>>),
   Call("sendmessage", <<Text("a.boc")>>), Call("setstatesgcinterval", <<Dec(1)>>),
   Call("help", <<>>)}

SpecialCommands ==
  {Recover, Call("recover_stake", <<>>),
   Call("config_param", <<Dec(0), Text("zerostate.json")>>),
   Call("cparam", <<Dec(-1), Text("zerostate.json")>>),
   Bid(5, 7), Bid(5, 5), Bid(0, 7),
   Call("<unbalanced>", <<>>), Call("<empty line>", <<>>), Call("<no words>", <<>>)}

Quit == Call("quit", <<>>)

\* A session of one command, after a new key was generated or not.
CommandScripts ==
  {<<x, Quit>> : x \in SpecialCommands} \cup
  {<<Call("newkey", <<>>), x, Quit>> : x \in TableCommands}

\* One console has such a session; the others have no command.
NoOrCommandScripts == CommandScripts \cup {<<>>}

SessionInit ==
  /\ Init
  /\ \E c \in Console : \A d \in Console \ {c} : todo[d] = <<>>

OneSession == SessionInit /\ [][Next]_vars /\ Fairness

-----------------------------------------------------------------------------
\* Commands as README.md documents them.
BlankScripts == {<<Call("<no words>", <<>>)>>}
ReadmeAddAdnl == {<<Call("addadnl", <<SomeHash, SomeHash, Dec(7)>>)>>}
ReadmeSign == {<<Call("sign", <<SomeHash, Base64("data")>>)>>}

=============================================================================
