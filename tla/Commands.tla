------------------------------ MODULE Commands ------------------------------
(***************************************************************************)
(* The command table of bin/console.rs: how the textual parameters of each *)
(* console command are read, which control query they become, and which    *)
(* answer the command takes for a success.                                 *)
(*                                                                         *)
(* A parameter is a record [enc, val]: val is what the text denotes, enc   *)
(* how it is written ("hex", "base64", "dec", "block" or "text").          *)
(***************************************************************************)
EXTENDS Integers, Sequences

CONSTANTS
  Key,       \* the ed25519 key pairs the node may generate
  IntMax,    \* largest ton::int; 2^31 - 1 in the build
  None       \* no value

ASSUME IntMaxAssumption == IntMax \in Nat \ {0}

-----------------------------------------------------------------------------
(* 32-bit arithmetic.  The release build wraps around.  Every value given  *)
(* to Wrap is less than one modulus away from the range.                   *)

IntMin == -IntMax - 1
TonInt == IntMin .. IntMax
Modulus == 2 * (IntMax + 1)

Wrap_NoWrap(n) == n

Wrap(n) == IF n > IntMax THEN n - Modulus
           ELSE IF n < IntMin THEN n + Modulus
           ELSE n

\* now(): seconds since the epoch, truncated to ton::int.
Now(t) == Wrap(t)

\* "now() as u64": sign extension to 64 bits.
QueryId(t) == IF Now(t) < 0 THEN Now(t) + Modulus * Modulus ELSE Now(t)

-----------------------------------------------------------------------------
(* Byte strings and their texts *)

KeyHash(k) == [hash |-> k]
PubKey(k)  == [pub |-> k]
Bytes32    == {KeyHash(k) : k \in Key} \cup {PubKey(k) : k \in Key}

ASSUME NoneAssumption == None \notin Bytes32

Hex(b)    == [enc |-> "hex", val |-> b]
Base64(b) == [enc |-> "base64", val |-> b]
Dec(n)    == [enc |-> "dec", val |-> n]
Text(s)   == [enc |-> "text", val |-> s]

\* parse_int256 takes 44 characters of base64 or 64 of hex, of 32 bytes.
parse_int256(p) == p.enc \in {"hex", "base64"} /\ p.val \in Bytes32
parse_int(p)    == p.enc = "dec" /\ p.val \in TonInt
parse_data(p)   == p.enc = "hex"
parse_blockid(p) == p.enc = "block"

Reads(kind, p) ==
  \/ kind = "int256"   /\ parse_int256(p)
  \/ kind = "int"      /\ parse_int(p)
  \/ kind = "category" /\ parse_int(p) /\ p.val \in 0 .. 15
  \/ kind = "data"     /\ parse_data(p)
  \/ kind = "blockid"  /\ parse_blockid(p)
  \/ kind = "text"

-----------------------------------------------------------------------------
\* The parameters each command's send() insists on, in order.
ParamKinds ==
  [addadnl             |-> <<"int256", "category">>,
   addvalidatoraddr    |-> <<"int256", "int256", "int">>,
   addpermkey          |-> <<"int256", "int", "int">>,
   addtempkey          |-> <<"int256", "int256", "int">>,
   bundle              |-> <<"blockid">>,
   exportpub           |-> <<"int256">>,
   future_bundle       |-> <<"blockid">>,
   getaccount          |-> <<"text">>,
   getaccountstate     |-> <<"text">>,
   getblockchainconfig |-> <<>>,
   getconfig           |-> <<"int">>,
   getconsensusstats   |-> <<>>,
   getstatsnew         |-> <<>>,
   getstats            |-> <<>>,
   newkey              |-> <<>>,
   sendmessage         |-> <<"text">>,
   setstatesgcinterval |-> <<"int">>,
   sign                |-> <<"int256", "data">>]

CommandName == DOMAIN ParamKinds

\* The boxed type each command's receive() downcasts the answer to.
AnswerType(name) ==
  CASE name = "newkey"    -> "KeyHash"
    [] name = "exportpub" -> "PublicKey"
    [] name = "sign"      -> "Signature"
    [] name \in {"getstats", "getstatsnew"} -> "Stats"
    [] name = "getconsensusstats" -> "SessionStats"
    [] name \in {"getblockchainconfig", "getconfig"} -> "ConfigInfo"
    [] name \in {"getaccount", "getaccountstate"} -> "ShardAccountState"
    [] OTHER -> "Success"

\* send() finds every parameter it insists on; further ones are ignored.
Accepts(name, params) ==
  /\ name \in CommandName
  /\ Len(params) >= Len(ParamKinds[name])
  /\ \A i \in 1 .. Len(ParamKinds[name]) : Reads(ParamKinds[name][i], params[i])

\* The control query for accepted parameters at time t; body is what the
\* file named by "sendmessage" holds.
command_send(name, params, t, body) ==
  LET v(i) == params[i].val
  IN  [name |-> name,
       args |->
         CASE name = "addpermkey" ->
                <<v(1), v(2), Wrap(v(3) - v(2))>>
           [] name \in {"addtempkey", "addvalidatoraddr"} ->
                <<v(1), v(2), Wrap(v(3) - Now(t))>>
           [] name = "sendmessage" -> <<body>>
           [] name = "future_bundle" /\ Len(params) > 1
                                     /\ parse_blockid(params[2]) ->
                <<v(1), v(2)>>
           [] OTHER -> [i \in 1 .. Len(ParamKinds[name]) |-> v(i)]]

\* receive() succeeds.  getaccountstate looks for its file name, and for the
\* account, only now that the node has answered.
command_receive(name, answer, params) ==
  /\ answer.type = AnswerType(name)
  /\ name = "getaccountstate" => Len(params) > 1 /\ answer.val # None

\* receive() goes on to write its second parameter's file.
SavesAccount(name, params) ==
  name \in {"getaccount", "getaccountstate"} /\ Len(params) > 1

=============================================================================
