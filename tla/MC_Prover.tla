------------------------------- MODULE MC_Prover -------------------------------
EXTENDS Prover
CONSTANTS none, zero

MCHash(prefix, data) == [prefix |-> prefix, data |-> data]
=============================================================================
