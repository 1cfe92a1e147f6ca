------------------------------ MODULE MemoryStore ------------------------------
(***************************************************************************)
(* The key-value store below the Merkle trees, as a client sees it: any    *)
(* sequence of puts, deletes, commits and rollbacks.                       *)
(***************************************************************************)
EXTENDS StoreOps

CONSTANT Writes     \* the pairs <<key, value>> a client may write

ASSUME WritesArePairs == \A w \in Writes : w = <<w[1], w[2]>>

VARIABLE db         \* the store

Keys == {w[1] : w \in Writes}

-----------------------------------------------------------------------------
StoreInit == db = EmptyStore

Put(k, v) == db' = AfterPut(db, k, v)
Del(k)    == db' = AfterDel(db, k)
Commit    == db' = AfterCommit(db)
Rollback  == db' = AfterRollback(db)

StoreNext ==
    \/ \E w \in Writes : Put(w[1], w[2])
    \/ \E k \in Keys : Del(k)
    \/ Commit
    \/ Rollback

StoreSpec == StoreInit /\ [][StoreNext]_db

-----------------------------------------------------------------------------
IsMap(f) == /\ f = [k \in DOMAIN f |-> f[k]]
            /\ \A k \in DOMAIN f : <<k, f[k]>> \in Writes

\* The maps hold written pairs only, and no key is both put and deleted, so
\* the order of the two loops of commit does not matter.
StoreInv ==
    /\ db = [store |-> db.store, puts |-> db.puts, deletes |-> db.deletes]
    /\ IsMap(db.store)
    /\ IsMap(db.puts)
    /\ db.deletes \subseteq Keys
    /\ DOMAIN db.puts \cap db.deletes = {}

\* Every key is only ever written with one value, as the hash of a node is.
ContentAddressed == \A w, x \in Writes : w[1] = x[1] => w[2] = x[2]

Abstract == INSTANCE KVStore WITH
    committed <- [k \in Keys |-> IF k \in DOMAIN db.store THEN db.store[k] ELSE NoValue],
    working   <- [k \in Keys |-> Get(db, k)]

\* The store implements transactions: reads see the last write or the last
\* committed value, through any order of puts, deletes, commits and rollbacks.
\* (It does when the keys are content addressed; see commit.)
ImplementsTransactions == Abstract!Spec
=============================================================================
