----------------------------- MODULE MC_Transcript -----------------------------
EXTENDS Transcript
CONSTANTS none, zero, v1, v2

MCBuffers == {v1, v2}
MCHash(prefix, data) == [prefix |-> prefix, data |-> data]

Sent(n)    == [name |-> n, derived_by_verifier |-> FALSE]
Derived(n) == [name |-> n, derived_by_verifier |-> TRUE]

\* The rounds of the standard composer with fewer elements: a round without
\* elements or challenges after the first, several challenges of one round,
\* elements the verifier derives in the first round and in a late one.
MCManifest == <<
    [elements |-> <<Derived("circuit_size")>>,  challenge |-> "init",  num_challenges |-> 1],
    [elements |-> << >>,                        challenge |-> "eta",   num_challenges |-> 0],
    [elements |-> <<Sent("W_1"), Sent("W_2")>>, challenge |-> "beta",  num_challenges |-> 3],
    [elements |-> <<Sent("Z_PERM")>>,           challenge |-> "alpha", num_challenges |-> 1],
    [elements |-> <<Derived("t"), Sent("w_1")>>, challenge |-> "nu",   num_challenges |-> 1] >>
=============================================================================
