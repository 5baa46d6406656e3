----------------------------- MODULE MCPrintDb -----------------------------
(***************************************************************************)
(* An instance of PrintDb for TLC: databases with no, one and three shards,*)
(* where any state may be without accounts.                                *)
(***************************************************************************)
EXTENDS PrintDb

Shards == {<<>>, <<"s1">>, <<"s1", "s2", "s3">>}

\* The accounts of block b are numbered, so that all of them are different.
AccountsIn(b, n) == [i \in 1 .. n |-> <<b, i>>]

MCDatabases ==
  UNION {{[last_mc_id |-> "mc", top_blocks |-> t,
           accounts |-> [b \in Range(t) \cup {"mc"} |-> AccountsIn(b, n[b])]] :
            n \in [Range(t) \cup {"mc"} -> 0 .. 2]} : t \in Shards}

MCOptions ==
  [boc : BOOLEAN, block : BOOLEAN, state : BOOLEAN, shards : BOOLEAN, accounts : BOOLEAN]

=============================================================================
