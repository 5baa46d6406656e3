----------------------------- MODULE MCAdnlPing -----------------------------
(***************************************************************************)
(* An instance of AdnlPing for TLC.                                        *)
(***************************************************************************)
EXTENDS AdnlPing

MCCommandLines == [args : 3 .. 7, option : {"--config", "other"}]
MCLocalTags == SUBSET {1, 2}

=============================================================================
