-------------------------- MODULE MC_WirePermutation --------------------------
(* The instance of WirePermutation that TLC checks. *)
EXTENDS WirePermutation
=============================================================================
