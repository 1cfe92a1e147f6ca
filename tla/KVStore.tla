-------------------------------- MODULE KVStore --------------------------------
(***************************************************************************)
(* What a store with transactions promises: writes are seen at once, a     *)
(* commit makes them permanent, a rollback forgets them.  It is the        *)
(* abstract specification of MemoryStore.                                  *)
(***************************************************************************)
CONSTANTS Writes,   \* the pairs <<key, value>> that may be written
          NoValue   \* what a key without a value reads as

Keys == {w[1] : w \in Writes}

VARIABLES committed, working

kvVars == <<committed, working>>

Init == /\ committed = [k \in Keys |-> NoValue]
        /\ working = [k \in Keys |-> NoValue]

Put(k, v) == working' = [working EXCEPT ![k] = v] /\ UNCHANGED committed
Delete(k) == working' = [working EXCEPT ![k] = NoValue] /\ UNCHANGED committed
Commit    == committed' = working /\ UNCHANGED working
Rollback  == working' = committed /\ UNCHANGED committed

Next == \/ \E w \in Writes : Put(w[1], w[2])
        \/ \E k \in Keys : Delete(k)
        \/ Commit
        \/ Rollback

Spec == Init /\ [][Next]_kvVars
=============================================================================
