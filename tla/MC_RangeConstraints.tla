-------------------------- MODULE MC_RangeConstraints --------------------------
(* The instances of RangeConstraints that TLC checks. *)
EXTENDS RangeConstraints

FieldElements == 0 .. 15
=============================================================================
