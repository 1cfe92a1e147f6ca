----------------------------- MODULE MC_MemoryStore -----------------------------
(* The instance of MemoryStore that TLC checks. *)
EXTENDS MemoryStore
CONSTANTS k1, k2, k3, k4, v1, v2

\* Four keys, each with the one value its content has; two keys share a value.
OneValuePerKey == {<<k1, v1>>, <<k2, v1>>, <<k3, v2>>, <<k4, v2>>}
=============================================================================
