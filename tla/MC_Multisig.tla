------------------------------ MODULE MC_Multisig ------------------------------
(* Two signers, who may sign two messages at a time. *)
EXTENDS Multisig

MC_PrivateKeys == <<20011, 31907>>

MC_Randomness == <<4057, 17389, 911, 26017, 38119, 7723, 12553, 44021, 30011, 1471>>

\* Both keys in either order, one missing, one twice, and one that is not as it was published.
MC_KeyLists == {<<1, 2>>, <<2, 1>>, <<1>>, <<1, 1>>, <<3, 2>>, <<1, 4>>, <<1, 5>>, <<1, 6>>}
=============================================================================
