------------------------------ MODULE Console ------------------------------
(***************************************************************************)
(* bin/console.rs: console processes that run a script of commands against *)
(* one node, in batch mode (-c ...) or interactively.                      *)
(*                                                                         *)
(* Each await of the code is a point where other processes may move: a     *)
(* query is sent by one action, executed by the node in another and its    *)
(* answer consumed by a third.  A console may be killed at any point.  A   *)
(* query whose console stopped waiting stays with the node, which may      *)
(* still execute it.  std::fs::write is two steps, the truncation and the  *)
(* write, and both may fail.                                               *)
(***************************************************************************)
EXTENDS ControlNode

CONSTANTS
  Console,      \* console processes; each is started once
  Batch,        \* those started with -c
  Concurrent,   \* FALSE: a console starts only when no other one runs
  Scripts,      \* the command sequences a console may be given
  Config,       \* Config[c]: wallet_id and max_factor of console.json
  FactorDen,    \* max_factor is counted in units of 1/FactorDen
  Path,         \* file names
  FirstClock, MaxClock    \* bounds of the clock

ASSUME ConsoleAssumption ==
  /\ Batch \subseteq Console
  /\ Concurrent \in BOOLEAN
  /\ None \notin Path
  /\ FactorDen \in Nat \ {0}
  /\ \A c \in Console : Config[c].max_factor \in {None} \cup Int
  /\ FirstClock \in Nat /\ MaxClock \in Nat
  /\ FirstClock <= MaxClock
  /\ MaxClock < Modulus       \* Wrap is exact up to the year 2106

VARIABLES
  st,        \* st[c]: where console c is
  todo,      \* todo[c]: the commands (or input lines) still to come
  cmd,       \* cmd[c]: the command being executed
  step,      \* step[c]: the call of process_election_bid under way, or 0
  loc,       \* loc[c]: the locals perm, pub, adnl of process_election_bid
  reply,     \* reply[c]: the answer just received
  out,       \* out[c]: the file of c's last command that is to write one: its
             \* path, and its body once the command has got so far
  failed,    \* failed[c]: c has printed an error
  pending,   \* queries the node has not handled
  disk       \* disk[p]: content of file p

conVars == <<st, todo, cmd, step, loc, reply, out, failed>>
vars == <<node, clock, conVars, pending, disk>>

Over == {"exited", "refused", "panicked", "killed"}
Running == {"ready", "call", "waiting", "answered", "open", "saving", "pausing"}

NoLocals == [perm |-> None, pub |-> None, adnl |-> None]
NoFile == [kind |-> "absent"]
EmptyFile == [kind |-> "empty"]
Unwritten == [kind |-> "unwritten"]
NoOutput == [path |-> None, body |-> Unwritten]

Init ==
  /\ NodeInit
  /\ clock = FirstClock
  /\ st = [c \in Console |-> "off"]
  /\ todo \in [Console -> Scripts]
  /\ cmd = [c \in Console |-> [name |-> "none", params |-> <<>>]]
  /\ step = [c \in Console |-> 0]
  /\ loc = [c \in Console |-> NoLocals]
  /\ reply = [c \in Console |-> Answer("none", None)]
  /\ out = [c \in Console |-> NoOutput]
  /\ failed = [c \in Console |-> FALSE]
  /\ pending = {}
  /\ disk = [p \in Path |-> NoFile]

-----------------------------------------------------------------------------
(* Starting and ending a command *)

Goto(c, s) == st' = [st EXCEPT ![c] = s]

\* client.command() returned; main prints the result or the error, and in
\* batch mode sleeps before the next command.
Return(c, ok) ==
  /\ Goto(c, IF c \in Batch THEN "pausing" ELSE "ready")
  /\ failed' = [failed EXCEPT ![c] = @ \/ ~ok]

\* The next word list has the given command name.
Takes(c, names) ==
  /\ st[c] = "ready"
  /\ todo[c] # <<>>
  /\ Head(todo[c]).name \in names

\* The aliases command() knows, and the inputs that are no command name.
BidNames == {"election-bid", "election_bid", "ebid"}
ConfigNames == {"config_param", "cparam"}
LineNames(c) ==
  {"<no words>", "<empty line>"} \cup (IF c \in Batch THEN {} ELSE {"quit"})

Fetch_Repeat(c) ==
  /\ cmd' = [cmd EXCEPT ![c] = Head(todo[c])]
  /\ UNCHANGED todo

Fetch(c) ==
  /\ cmd' = [cmd EXCEPT ![c] = Head(todo[c])]
  /\ todo' = [todo EXCEPT ![c] = Tail(@)]

\* main up to the command loop: reading the config, connecting.
Start(c) ==
  /\ st[c] = "off"
  /\ Concurrent \/ \A d \in Console : st[d] \notin Running
  /\ Goto(c, "ready")
  /\ UNCHANGED <<node, clock, todo, cmd, step, loc, reply, out, failed, pending, disk>>

\* One of main's expect()s before the loop fails.
StartFails(c) ==
  /\ st[c] = "off"
  /\ Concurrent \/ \A d \in Console : st[d] \notin Running
  /\ Goto(c, "refused")
  /\ UNCHANGED <<node, clock, todo, cmd, step, loc, reply, out, failed, pending, disk>>

\* No words in the command: params.next().expect(..) panics.  In batch mode
\* the empty string is such a command, too.
PanicOnBlank(c) ==
  /\ Takes(c, LineNames(c) \ {"quit"})
  /\ c \in Batch \/ Head(todo[c]).name = "<no words>"
  /\ Fetch(c)
  /\ Goto(c, "panicked")
  /\ UNCHANGED <<node, clock, step, loc, reply, out, failed, pending, disk>>

\* shell_words::split fails on an unbalanced quote.
SplitFails(c) ==
  /\ Takes(c, {"<unbalanced>"})
  /\ Fetch(c)
  /\ Return(c, FALSE)
  /\ UNCHANGED <<node, clock, step, loc, reply, out, pending, disk>>

\* Interactive mode: an empty line is skipped.
SkipLine(c) ==
  /\ c \notin Batch
  /\ Takes(c, {"<empty line>"})
  /\ Fetch(c)
  /\ UNCHANGED <<node, clock, st, step, loc, reply, out, failed, pending, disk>>

\* The batch is done, or the user typed "quit": shut down and exit.  At the
\* end of the input an interactive console reads "" for ever.
Exit(c) ==
  /\ \/ c \in Batch /\ st[c] = "ready" /\ todo[c] = <<>>
     \/ c \notin Batch /\ Takes(c, {"quit"})
  /\ Goto(c, "exited")
  /\ UNCHANGED <<node, clock, todo, cmd, step, loc, reply, out, failed, pending, disk>>

\* The sleep after each command of a batch ends.
Wake(c) ==
  /\ st[c] = "pausing"
  /\ Goto(c, "ready")
  /\ UNCHANGED <<node, clock, todo, cmd, step, loc, reply, out, failed, pending, disk>>

-----------------------------------------------------------------------------
(* process_command: one query to the node *)

elect_time(c)  == cmd[c].params[1].val
expire_time(c) == cmd[c].params[2].val

\* (max_factor * 65536.0) as u32
FixedFactor(f) == (f * 65536) \div FactorDen

max_factor(c) == FixedFactor(Config[c].max_factor)

\* What process_election_bid asks the node to sign.
DataToSign(c, adnl) ==
  [elect_time |-> elect_time(c), max_factor |-> max_factor(c),
   wallet_id |-> Config[c].wallet_id, adnl |-> adnl]

Call(name, params) == [name |-> name, params |-> params]

PermKeyCall(c) ==
  Call("addpermkey", <<Hex(loc[c].perm), Dec(elect_time(c)), Dec(expire_time(c))>>)

TempKeyCall_ByElection(c) ==
  Call("addtempkey", <<Hex(loc[c].perm), Hex(loc[c].perm), Dec(elect_time(c))>>)

TempKeyCall(c) ==
  Call("addtempkey", <<Hex(loc[c].perm), Hex(loc[c].perm), Dec(expire_time(c))>>)

AddressCall_OfPermKey(c) ==
  Call("addvalidatoraddr", <<Hex(loc[c].perm), Hex(loc[c].perm), Dec(elect_time(c))>>)

\* The address is registered up to the election, the keys beyond it.
AddressCall(c) ==
  Call("addvalidatoraddr", <<Hex(loc[c].perm), Hex(loc[c].adnl), Dec(elect_time(c))>>)

\* The eight process_command calls of process_election_bid, in order.
BidCall(c) ==
  <<Call("newkey", <<>>),
    Call("exportpub", <<Hex(loc[c].perm)>>),
    PermKeyCall(c),
    TempKeyCall(c),
    Call("newkey", <<>>),
    Call("addadnl", <<Hex(loc[c].adnl), Dec(0)>>),
    AddressCall(c),
    Call("sign", <<Hex(loc[c].perm), Hex(DataToSign(c, loc[c].adnl))>>)>>[step[c]]

CurrentCall(c) == IF step[c] = 0 THEN cmd[c] ELSE BidCall(c)

\* A "sendmessage" needs a file that exists.
Readable(call) ==
  call.name = "sendmessage" =>
    call.params[1].val \in Path /\ disk[call.params[1].val] # NoFile

Body(call) ==
  IF call.name = "sendmessage" THEN disk[call.params[1].val] ELSE EmptyFile

\* Query q of console c on its way; live while c waits for the answer.
Message(c, live, id, q) == [from |-> c, live |-> live, id |-> id, q |-> q]

SendQuery(c) ==
  LET call == CurrentCall(c)
  IN  /\ st[c] = "call"
      /\ Accepts(call.name, call.params)
      /\ Readable(call)
      /\ pending' = pending \cup
           {Message(c, TRUE, <<Len(todo[c]), step[c]>>,
                    command_send(call.name, call.params, clock, Body(call)))}
      /\ Goto(c, "waiting")
      /\ UNCHANGED <<node, clock, todo, cmd, step, loc, reply, out, failed, disk>>

\* send() rejects the name or the parameters, or cannot read the file, which
\* may fail though it exists: nothing reaches the node.
SendRejected(c) ==
  LET call == CurrentCall(c)
  IN  /\ st[c] = "call"
      /\ ~Accepts(call.name, call.params) \/ call.name = "sendmessage"
      /\ Return(c, FALSE)
      /\ UNCHANGED <<node, clock, todo, cmd, step, loc, reply, out, pending, disk>>

\* The answer reaches the console only if that is still waiting for it.
Deliver(m, answer) ==
  IF m.live
  THEN /\ reply' = [reply EXCEPT ![m.from] = answer]
       /\ Goto(m.from, "answered")
  ELSE UNCHANGED <<reply, st>>

Serve(m) ==
  \E o \in Outcomes(m.q) :
    /\ node' = o.node
    /\ pending' = pending \ {m}
    /\ Deliver(m, o.answer)
    /\ UNCHANGED <<clock, todo, cmd, step, loc, out, failed, disk>>

Refuse(m) ==
  \E a \in Refusals :
    /\ pending' = pending \ {m}
    /\ Deliver(m, a)
    /\ UNCHANGED <<node, clock, todo, cmd, step, loc, out, failed, disk>>

Abandoned(c) ==
  {Message(c, FALSE, m.id, m.q) : m \in {m \in pending : m.from = c}}

\* The query of c, if any, stays with the node but nobody waits for it.
Abandon(c) ==
  pending' = {m \in pending : m.from # c} \cup Abandoned(c)

GiveUp_Unnoticed(c) ==
  /\ st[c] = "waiting"
  /\ Abandon(c)
  /\ Return(c, TRUE)
  /\ UNCHANGED <<node, clock, todo, cmd, step, loc, reply, out, disk>>

GiveUp_Continue(c) ==
  /\ st[c] = "waiting"
  /\ Abandon(c)
  /\ IF step[c] \in {3, 4, 6, 7}
     THEN step' = [step EXCEPT ![c] = @ + 1] /\ Goto(c, "call") /\ UNCHANGED failed
     ELSE Return(c, FALSE) /\ UNCHANGED step
  /\ UNCHANGED <<node, clock, todo, cmd, loc, reply, out, disk>>

\* adnl.query() fails: the connection broke or the answer is overdue.
GiveUp(c) ==
  /\ st[c] = "waiting"
  /\ Abandon(c)
  /\ Return(c, FALSE)
  /\ UNCHANGED <<node, clock, todo, cmd, step, loc, reply, out, disk>>

\* The node answered with an error, or with what receive() cannot use.
AnswerRejected(c) ==
  LET call == CurrentCall(c)
  IN  /\ st[c] = "answered"
      /\ ~command_receive(call.name, reply[c], call.params)
      /\ Return(c, FALSE)
      /\ UNCHANGED <<node, clock, todo, cmd, step, loc, reply, out, pending, disk>>

AnswerAccepted(c) ==
  LET call == CurrentCall(c)
  IN  /\ st[c] = "answered"
      /\ command_receive(call.name, reply[c], call.params)

-----------------------------------------------------------------------------
(* Writing a file: std::fs::write(path, body) *)

\* The i-th parameter, or the default name.
PathParam(params, i, default) ==
  IF Len(params) >= i THEN params[i].val ELSE default

\* c's command is to write this file, if nothing fails before.
Intend(c, path) == out' = [out EXCEPT ![c] = [path |-> path, body |-> Unwritten]]

BeginWrite(c, path, body) ==
  /\ out' = [out EXCEPT ![c] = [path |-> path, body |-> body]]
  /\ Goto(c, "open")

OpenFile(c) ==
  /\ st[c] = "open"
  /\ disk' = [disk EXCEPT ![out[c].path] = EmptyFile]
  /\ Goto(c, "saving")
  /\ UNCHANGED <<node, clock, todo, cmd, step, loc, reply, out, failed, pending>>

WriteFile(c) ==
  /\ st[c] = "saving"
  /\ disk' = [disk EXCEPT ![out[c].path] = out[c].body]
  /\ Return(c, TRUE)
  /\ UNCHANGED <<node, clock, todo, cmd, step, loc, reply, out, pending>>

WriteFails_Unnoticed(c) ==
  /\ st[c] \in {"open", "saving"}
  /\ Return(c, TRUE)
  /\ UNCHANGED <<node, clock, todo, cmd, step, loc, reply, out, pending, disk>>

\* Opening or writing fails; a truncated file stays empty.
WriteFails(c) ==
  /\ st[c] \in {"open", "saving"}
  /\ Return(c, FALSE)
  /\ UNCHANGED <<node, clock, todo, cmd, step, loc, reply, out, pending, disk>>

-----------------------------------------------------------------------------
(* Plain commands *)

\* Any name that main and command() have no special treatment for.
StartCommand(c) ==
  /\ st[c] = "ready"
  /\ todo[c] # <<>>
  /\ Head(todo[c]).name \notin
       BidNames \cup ConfigNames \cup LineNames(c) \cup {"recover_stake", "<unbalanced>"}
  /\ Fetch(c)
  /\ step' = [step EXCEPT ![c] = 0]
  /\ IF SavesAccount(Head(todo[c]).name, Head(todo[c]).params)
     THEN Intend(c, Head(todo[c]).params[2].val)
     ELSE UNCHANGED out
  /\ Goto(c, "call")
  /\ UNCHANGED <<node, clock, loc, reply, failed, pending, disk>>

CommandDone(c) ==
  /\ step[c] = 0
  /\ AnswerAccepted(c)
  /\ IF SavesAccount(cmd[c].name, cmd[c].params)
     THEN /\ BeginWrite(c, cmd[c].params[2].val, [kind |-> "account"])
          /\ UNCHANGED failed
     ELSE Return(c, TRUE) /\ UNCHANGED out
  /\ UNCHANGED <<node, clock, todo, cmd, step, loc, reply, pending, disk>>

-----------------------------------------------------------------------------
(* process_recover_stake and process_config_param: no query *)

RecoverStake(c) ==
  /\ Takes(c, {"recover_stake"})
  /\ Fetch(c)
  /\ BeginWrite(c, PathParam(Head(todo[c]).params, 1, "recover-query.boc"),
                [kind |-> "recover", query_id |-> QueryId(clock)])
  /\ UNCHANGED <<node, clock, step, loc, reply, failed, pending, disk>>

ConfigIndexOk(params) ==
  /\ Len(params) >= 2
  /\ parse_int(params[1])
  /\ params[1].val >= 0

ConfigParam(c) ==
  /\ Takes(c, ConfigNames)
  /\ ConfigIndexOk(Head(todo[c]).params)
  /\ Fetch(c)
  /\ BeginWrite(c, PathParam(Head(todo[c]).params, 3, "config-param.boc"),
                [kind |-> "config", index |-> Head(todo[c]).params[1].val])
  /\ UNCHANGED <<node, clock, step, loc, reply, failed, pending, disk>>

\* A bad index, or a zerostate that cannot be read or lacks the parameter.
ConfigParamFails(c) ==
  /\ Takes(c, ConfigNames)
  /\ Fetch(c)
  /\ Intend(c, PathParam(Head(todo[c]).params, 3, "config-param.boc"))
  /\ Return(c, FALSE)
  /\ UNCHANGED <<node, clock, step, loc, reply, pending, disk>>

-----------------------------------------------------------------------------
(* process_election_bid *)

FactorOk_Unbounded(f) == f # None

FactorOk(f) == f # None /\ f >= FactorDen /\ f <= 100 * FactorDen

\* The checks before the first query.
BidOk(c, params) ==
  /\ Config[c].wallet_id = "masterchain"
  /\ Len(params) >= 2
  /\ parse_int(params[1]) /\ params[1].val > 0
  /\ parse_int(params[2]) /\ params[2].val > params[1].val
  /\ FactorOk(Config[c].max_factor)

BidPath(params) == PathParam(params, 3, "validator-query.boc")

StartBid(c) ==
  /\ Takes(c, BidNames)
  /\ BidOk(c, Head(todo[c]).params)
  /\ Fetch(c)
  /\ step' = [step EXCEPT ![c] = 1]
  /\ loc' = [loc EXCEPT ![c] = NoLocals]
  /\ Intend(c, BidPath(Head(todo[c]).params))
  /\ Goto(c, "call")
  /\ UNCHANGED <<node, clock, reply, failed, pending, disk>>

BidRejected(c) ==
  /\ Takes(c, BidNames)
  /\ ~BidOk(c, Head(todo[c]).params)
  /\ Fetch(c)
  /\ Intend(c, BidPath(Head(todo[c]).params))
  /\ Return(c, FALSE)
  /\ UNCHANGED <<node, clock, step, loc, reply, pending, disk>>

StoredAnswer_OneKey(c) ==
  CASE step[c] = 1 -> [loc[c] EXCEPT !.perm = reply[c].val, !.adnl = reply[c].val]
    [] step[c] = 2 -> [loc[c] EXCEPT !.pub = reply[c].val]
    [] OTHER -> loc[c]

\* The local variable each answer goes to.
StoredAnswer(c) ==
  CASE step[c] = 1 -> [loc[c] EXCEPT !.perm = reply[c].val]
    [] step[c] = 2 -> [loc[c] EXCEPT !.pub = reply[c].val]
    [] step[c] = 5 -> [loc[c] EXCEPT !.adnl = reply[c].val]
    [] OTHER -> loc[c]

BidStep(c) ==
  /\ step[c] \in 1 .. 7
  /\ AnswerAccepted(c)
  /\ loc' = [loc EXCEPT ![c] = StoredAnswer(c)]
  /\ step' = [step EXCEPT ![c] = @ + 1]
  /\ Goto(c, "call")
  /\ UNCHANGED <<node, clock, todo, cmd, reply, out, failed, pending, disk>>

Verified_Never(c) == TRUE

\* from_public_key(pub_key).verify(data, signature)
Verified(c) ==
  reply[c].val = [by |-> loc[c].pub, over |-> DataToSign(c, loc[c].adnl)]

BidBody(c) ==
  [kind |-> "bid", query_id |-> QueryId(clock), pub_key |-> loc[c].pub,
   elect_time |-> elect_time(c), max_factor |-> max_factor(c),
   adnl |-> loc[c].adnl, signature |-> reply[c].val]

BidSigned(c) ==
  /\ step[c] = 8
  /\ AnswerAccepted(c)
  /\ Verified(c)
  /\ BeginWrite(c, BidPath(cmd[c].params), BidBody(c))
  /\ UNCHANGED <<node, clock, todo, cmd, step, loc, reply, failed, pending, disk>>

BidUnverified(c) ==
  /\ step[c] = 8
  /\ AnswerAccepted(c)
  /\ ~Verified(c)
  /\ Return(c, FALSE)
  /\ UNCHANGED <<node, clock, todo, cmd, step, loc, reply, out, pending, disk>>

-----------------------------------------------------------------------------
(* The environment *)

\* One clock for the consoles and the node, which is never set back: an
\* assumption on the hosts, since now() reads SystemTime.
Tick ==
  /\ clock < MaxClock
  /\ clock' = clock + 1
  /\ UNCHANGED <<node, conVars, pending, disk>>

\* The console process dies.
Kill(c) ==
  /\ st[c] \in Running
  /\ Abandon(c)
  /\ Goto(c, "killed")
  /\ UNCHANGED <<node, clock, todo, cmd, step, loc, reply, out, failed, disk>>

\* The steps the console's own thread takes.
ConsoleStep(c) ==
  \/ PanicOnBlank(c) \/ SplitFails(c) \/ SkipLine(c) \/ Exit(c) \/ Wake(c)
  \/ StartCommand(c) \/ CommandDone(c)
  \/ SendQuery(c) \/ SendRejected(c) \/ AnswerRejected(c)
  \/ RecoverStake(c) \/ ConfigParam(c) \/ ConfigParamFails(c)
  \/ StartBid(c) \/ BidRejected(c) \/ BidStep(c) \/ BidSigned(c) \/ BidUnverified(c)
  \/ OpenFile(c) \/ WriteFile(c) \/ WriteFails(c)

Next ==
  \/ \E c \in Console : Start(c) \/ StartFails(c) \/ ConsoleStep(c) \/ GiveUp(c) \/ Kill(c)
  \/ \E m \in pending : Serve(m) \/ Refuse(m)
  \/ Tick

Spec == Init /\ [][Next]_vars

\* A console's thread runs on, and AdnlClient::query returns: its stream has
\* read and write timeouts.
Fairness ==
  \A c \in Console : WF_vars(ConsoleStep(c)) /\ WF_vars(GiveUp(c))

FairSpec == Spec /\ Fairness

=============================================================================
