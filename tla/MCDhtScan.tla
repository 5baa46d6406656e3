----------------------------- MODULE MCDhtScan -----------------------------
(***************************************************************************)
(* An instance of DhtScan for TLC: global configs that are empty, that     *)
(* list a peer once, twice or three times, and that list an unusable one.  *)
(***************************************************************************)
EXTENDS DhtScan

CONSTANTS p1, p2, p3, p4, p5

MCPeer == {p1, p2, p3, p4, p5}
MCUsable == {p1, p2, p3, p5}
MCPresets == {<<>>, <<p1>>, <<p2, p1>>, <<p1, p1, p2>>, <<p1, p1, p1>>, <<p1, p4>>}
MCOptions == [overlay : BOOLEAN, workchain0 : BOOLEAN]

=============================================================================
