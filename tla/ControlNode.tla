---------------------------- MODULE ControlNode ----------------------------
(***************************************************************************)
(* The node's control server, which is not part of this repository: what   *)
(* bin/console.rs relies on when it sends a ControlQuery.  An outcome is a *)
(* pair [node, answer]: the node's state after the query and what it says. *)
(*                                                                         *)
(* The node keeps what the commands register.  A temporary key and a       *)
(* validator address are given a time to live, counted from the moment the *)
(* node handles the query.                                                 *)
(***************************************************************************)
EXTENDS Commands

VARIABLES
  node,    \* keys, permKeys, tempKeys, adnlIds, validatorAddrs, messages
  clock    \* seconds since the epoch

NodeInit ==
  node = [keys |-> {}, permKeys |-> {}, tempKeys |-> {}, adnlIds |-> {},
          validatorAddrs |-> {}, messages |-> {}]

Holds(h) == \E k \in node.keys : KeyHash(k) = h

Answer(type, val) == [type |-> type, val |-> val]
Success == Answer("Success", None)

\* A signature over data by key k, and one that fits nothing.
Signature(k, data) == [by |-> PubKey(k), over |-> data]
BadSignature == [by |-> None, over |-> None]

GenerateKeyPair ==
  {[node   |-> [node EXCEPT !.keys = @ \cup {k}],
    answer |-> Answer("KeyHash", KeyHash(k))] : k \in Key \ node.keys}

ExportPublicKey(h) ==
  {[node |-> node, answer |-> Answer("PublicKey", PubKey(k))] :
     k \in {k \in node.keys : KeyHash(k) = h}}

Sign(h, data) ==
  {[node |-> node, answer |-> Answer("Signature", s)] :
     s \in {BadSignature} \cup
           {Signature(k, data) : k \in {k \in node.keys : KeyHash(k) = h}}}

\* The outcome of adding entry e to one of the node's collections.
Added(field, e) ==
  {[node |-> [node EXCEPT ![field] = @ \cup {e}], answer |-> Success]}

Registered(q) ==
  CASE q.name = "addpermkey" ->
         Added("permKeys",
               [key |-> q.args[1], election_date |-> q.args[2], ttl |-> q.args[3]])
    [] q.name = "addtempkey" ->
         Added("tempKeys",
               [perm |-> q.args[1], key |-> q.args[2], expires |-> clock + q.args[3]])
    [] q.name = "addvalidatoraddr" ->
         Added("validatorAddrs",
               [perm |-> q.args[1], key |-> q.args[2], expires |-> clock + q.args[3]])
    [] q.name = "addadnl" ->
         Added("adnlIds", [key |-> q.args[1], category |-> q.args[2]])

\* Queries that leave the node's registrations alone.
Reported(q) ==
  {[node |-> node, answer |-> Answer(AnswerType(q.name), v)] : v \in {None, [content |-> q.name]}}

Outcomes(q) ==
  CASE q.name = "newkey"    -> GenerateKeyPair
    [] q.name = "exportpub" -> ExportPublicKey(q.args[1])
    [] q.name = "sign"      -> Sign(q.args[1], q.args[2])
    [] q.name \in {"addpermkey", "addadnl"} ->
         IF Holds(q.args[1]) THEN Registered(q) ELSE {}
    [] q.name \in {"addtempkey", "addvalidatoraddr"} ->
         IF Holds(q.args[1]) /\ Holds(q.args[2]) THEN Registered(q) ELSE {}
    [] q.name = "sendmessage" -> Added("messages", q.args[1])
    [] OTHER -> Reported(q)

\* What the node may say instead of executing a query: a refusal, or an
\* object no command expects.
Refusals == {Answer("ControlQueryError", None), Answer("Unexpected", None)}

=============================================================================
