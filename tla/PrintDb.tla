------------------------------ MODULE PrintDb ------------------------------
(***************************************************************************)
(* bin/print.rs: print a block, a state, the shards and the accounts of a  *)
(* node's database, or what a file holds.  Every read may fail; main then  *)
(* returns the error and what was printed stays.                           *)
(*                                                                         *)
(* The output is a sequence of tokens.  Of the accounts every bracket and  *)
(* comma is one; a block or a state, printed by one call, is one, too.     *)
(***************************************************************************)
EXTENDS Integers, SequencesExt

CONSTANTS
  Options,     \* the flags a call may have
  Databases    \* what the database may hold

\* A database: the last applied masterchain block, the top blocks of the
\* shards in its state, and the accounts in the state of each of them.
ASSUME PrintAssumption ==
  /\ Options \subseteq [boc : BOOLEAN, block : BOOLEAN, state : BOOLEAN,
                        shards : BOOLEAN, accounts : BOOLEAN]
  /\ \A d \in Databases :
       /\ d.last_mc_id \in DOMAIN d.accounts
       /\ d.top_blocks \in Seq(DOMAIN d.accounts)
       /\ \A b \in DOMAIN d.accounts : d.accounts[b] \in Seq(Range(d.accounts[b]))

VARIABLES
  pc,           \* where main is
  opts,         \* the command line
  db,           \* the database
  top_blocks,   \* blocks whose accounts are still to come
  accounts,     \* accounts of the current state that are still to come
  first,        \* no account has been printed
  out           \* what has been printed

vars == <<pc, opts, db, top_blocks, accounts, first, out>>

Ended == {"ok", "failed", "panicked"}

Token(t) == [token |-> t]
Account(a) == [token |-> "account", id |-> a]

Goto(s) == pc' = s
Emit(tokens) == out' = out \o tokens

Init ==
  /\ opts \in Options
  /\ db \in Databases
  /\ pc = IF opts.boc THEN "boc" ELSE "open"
  /\ top_blocks = <<>> /\ accounts = <<>> /\ first = TRUE
  /\ out = <<>>

-----------------------------------------------------------------------------
(* --boc and --path *)

\* The file is a block, or else a state, or else nothing is printed.
PrintBoc ==
  /\ pc = "boc"
  /\ \E t \in {<<Token("block")>>, <<Token("state")>>, <<>>} : Emit(t)
  /\ Goto("ok")
  /\ UNCHANGED <<opts, db, top_blocks, accounts, first>>

OpenDb ==
  /\ pc = "open"
  /\ Goto("block")
  /\ UNCHANGED <<opts, db, top_blocks, accounts, first, out>>

\* What follows --block, --state and --shards, in the order of main.
Following == [block |-> "state", state |-> "shards", shards |-> "accounts"]

\* "loading ...", then what was loaded.  For --shards that is a line for each
\* shard, and nothing if the state has none.
PrintItem ==
  /\ pc \in DOMAIN Following
  /\ IF opts[pc]
     THEN \/ Emit(<<Token("loading"), Token(pc)>>)
          \/ pc = "shards" /\ Emit(<<Token("loading")>>)
     ELSE UNCHANGED out
  /\ Goto(Following[pc])
  /\ UNCHANGED <<opts, db, top_blocks, accounts, first>>

\* The block id is no good, the block or state cannot be loaded, or the
\* iteration over the shards breaks off.
ItemFails ==
  /\ pc \in DOMAIN Following
  /\ opts[pc]
  /\ \/ Emit(<<>>)
     \/ Emit(<<Token("loading")>>)
     \/ pc = "shards" /\ Emit(<<Token("loading"), Token("shards")>>)
  /\ Goto("failed")
  /\ UNCHANGED <<opts, db, top_blocks, accounts, first>>

-----------------------------------------------------------------------------
(* --accounts *)

NoAccounts ==
  /\ pc = "accounts"
  /\ ~opts.accounts
  /\ Goto("ok")
  /\ UNCHANGED <<opts, db, top_blocks, accounts, first, out>>

BeginAccounts_Always ==
  /\ pc = "accounts"
  /\ Emit(<<Token("begin")>>)
  /\ first' = TRUE
  /\ Goto("top")
  /\ UNCHANGED <<opts, db, top_blocks, accounts>>

\* The last applied masterchain block is known: begin.
BeginAccounts ==
  /\ pc = "accounts"
  /\ opts.accounts
  /\ Emit(<<Token("begin")>>)
  /\ first' = TRUE
  /\ Goto("top")
  /\ UNCHANGED <<opts, db, top_blocks, accounts>>

\* top_blocks_all() and the masterchain block itself.
AllTopBlocks == Append(db.top_blocks, db.last_mc_id)

LoadTopBlocks ==
  /\ pc = "top"
  /\ top_blocks' = AllTopBlocks
  /\ Goto("next")
  /\ UNCHANGED <<opts, db, accounts, first, out>>

LoadState_FirstAgain ==
  /\ pc = "next"
  /\ top_blocks # <<>>
  /\ accounts' = db.accounts[Head(top_blocks)]
  /\ top_blocks' = Tail(top_blocks)
  /\ first' = TRUE
  /\ Goto("iterate")
  /\ UNCHANGED <<opts, db, out>>

LoadState ==
  /\ pc = "next"
  /\ top_blocks # <<>>
  /\ accounts' = db.accounts[Head(top_blocks)]
  /\ top_blocks' = Tail(top_blocks)
  /\ Goto("iterate")
  /\ UNCHANGED <<opts, db, first, out>>

\* One turn of iterate_objects: the comma belongs to the account after it.
PrintAccount ==
  /\ pc = "iterate"
  /\ accounts # <<>>
  /\ Emit((IF first THEN <<>> ELSE <<Token("comma")>>) \o <<Account(Head(accounts))>>)
  /\ first' = FALSE
  /\ accounts' = Tail(accounts)
  /\ UNCHANGED <<pc, opts, db, top_blocks>>

EndState ==
  /\ pc = "iterate"
  /\ accounts = <<>>
  /\ Goto("next")
  /\ UNCHANGED <<opts, db, top_blocks, accounts, first, out>>

\* An unwrap() for an account without address, balance or storage info.
AccountPanics ==
  /\ pc = "iterate"
  /\ accounts # <<>>
  /\ Goto("panicked")
  /\ UNCHANGED <<opts, db, top_blocks, accounts, first, out>>

EndAccounts ==
  /\ pc = "next"
  /\ top_blocks = <<>>
  /\ Emit(<<Token("end")>>)
  /\ Goto("ok")
  /\ UNCHANGED <<opts, db, top_blocks, accounts, first>>

ReadFails_Ignored ==
  /\ pc \in {"boc", "open", "top", "next", "iterate"}
  /\ Goto("ok")
  /\ UNCHANGED <<opts, db, top_blocks, accounts, first, out>>

\* The file, the database, a state or an account cannot be read.
ReadFails ==
  /\ \/ pc \in {"boc", "open", "top"}
     \/ pc = "accounts" /\ opts.accounts
     \/ pc = "next" /\ top_blocks # <<>>
     \/ pc = "iterate"
  /\ Goto("failed")
  /\ UNCHANGED <<opts, db, top_blocks, accounts, first, out>>

-----------------------------------------------------------------------------
Next ==
  \/ PrintBoc \/ OpenDb \/ PrintItem \/ ItemFails
  \/ NoAccounts \/ BeginAccounts \/ LoadTopBlocks \/ LoadState
  \/ PrintAccount \/ EndState \/ AccountPanics \/ EndAccounts \/ ReadFails

Spec == Init /\ [][Next]_vars

-----------------------------------------------------------------------------
(* Properties *)

\* The members of s with commas between them.
Joined(s) ==
  [i \in 1 .. IF s = <<>> THEN 0 ELSE 2 * Len(s) - 1 |->
     IF i % 2 = 0 THEN Token("comma") ELSE Account(s[(i + 1) \div 2])]

\* The blocks of the shards and of the masterchain, and all accounts of the
\* first n of them.
Blocks == Append(db.top_blocks, db.last_mc_id)
AccountsOf(n) == FlattenSeq([i \in 1 .. n |-> db.accounts[Blocks[i]]])

Opening == <<Token("begin")>>

\* Every account of every shard and of the masterchain, as one JSON object.
Expected == Opening \o Joined(AccountsOf(Len(Blocks))) \o <<Token("end")>>

IsBegin(t) == t = Token("begin")

\* The output from the beginning of the accounts on.
AccountsPart ==
  LET i == SelectInSeq(out, IsBegin)
  IN  IF i = 0 THEN <<>> ELSE SubSeq(out, i, Len(out))

Ids == UNION {Range(db.accounts[b]) : b \in DOMAIN db.accounts}
Tokens ==
  {Token(t) : t \in {"block", "state", "loading", "shards", "begin", "comma", "end"}}
    \cup {Account(a) : a \in Ids}

\* Type invariant.
TypeOK ==
  /\ pc \in {"boc", "open", "block", "state", "shards", "accounts", "top", "next", "iterate"}
            \cup Ended
  /\ opts \in Options /\ db \in Databases
  /\ top_blocks \in Seq(DOMAIN db.accounts)
  /\ accounts \in Seq(Ids)
  /\ first \in BOOLEAN
  /\ out \in Seq(Tokens)
  /\ pc \in {"top", "next", "iterate"} => opts.accounts

\* README.md: "short info of all accounts will be printed as json".  What
\* --accounts has printed is at any time the beginning of that JSON object,
\* also when shards, the first ones among them, have no account.
AccountsPrefix == IsPrefix(AccountsPart, Expected)

\* A call that returns Ok has printed the whole object; after an error in the
\* middle, which leaves it without its end, the call fails.
AccountsComplete ==
  pc = "ok" /\ opts.accounts /\ ~opts.boc => AccountsPart = Expected

-----------------------------------------------------------------------------
(* The inductive invariant *)

\* The number of blocks whose accounts have been loaded, and what has been
\* printed of these.
Loaded == Len(Blocks) - Len(top_blocks)
Printed == LET a == AccountsOf(Loaded) IN SubSeq(a, 1, Len(a) - Len(accounts))

Unopened == {"boc", "open", "block", "state", "shards", "accounts"}

\* Within the report, the accounts printed and those still to come make up those
\* loaded, the blocks still to come are the last ones, and no comma comes first.
Report ==
  /\ Loaded >= 0
  /\ \A i \in 1 .. Len(top_blocks) : top_blocks[i] = Blocks[Loaded + i]
  /\ Printed \o accounts = AccountsOf(Loaded)
  /\ first = (Printed = <<>>)
  /\ AccountsPart = Opening \o Joined(Printed)

\* Nothing of the accounts is printed before their report begins; from then on
\* what has been printed follows from what is still to come.
PrintInv ==
  /\ TypeOK
  /\ pc = "boc" => opts.boc
  /\ pc \in Unopened => AccountsPart = <<>>
  /\ pc \in Unopened \cup {"top", "next"} => accounts = <<>>
  /\ pc = "top" => first /\ AccountsPart = Opening
  /\ pc \in {"next", "iterate"} => Report
  /\ AccountsPrefix /\ AccountsComplete

=============================================================================
