---------------------------- MODULE MC_NullifierTree ----------------------------
(* The instance of NullifierTree that TLC checks: trees of eight leaves. *)
EXTENDS NullifierTree
=============================================================================
