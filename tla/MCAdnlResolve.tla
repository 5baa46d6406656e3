--------------------------- MODULE MCAdnlResolve ---------------------------
(***************************************************************************)
(* An instance of AdnlResolve for TLC: global configs that are empty, that *)
(* list a peer twice, and that list an unusable one.                       *)
(***************************************************************************)
EXTENDS AdnlResolve

CONSTANTS p1, p2, p3, p4

MCPeer == {p1, p2, p3, p4}
MCUsable == {p1, p2, p3}
MCPresets == {<<>>, <<p1>>, <<p2, p1>>, <<p1, p1, p2>>, <<p1, p4>>}

=============================================================================
