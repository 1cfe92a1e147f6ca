-------------------------------- MODULE StoreOps --------------------------------
(***************************************************************************)
(* The operations of MemoryStore (stdlib/merkle_tree/memory_store.hpp) as  *)
(* functions of the store, so that a tree can make several in one call.    *)
(* A store is a committed map, and the puts and deletes made since:        *)
(* [store, puts, deletes].                                                 *)
(***************************************************************************)
CONSTANT NoValue    \* the answer of get when it returns false

EmptyMap == [k \in {} |-> NoValue]
EmptyStore == [store |-> EmptyMap, puts |-> EmptyMap, deletes |-> {}]

AfterPut(s, k, v) ==
    [s EXCEPT !.puts = [x \in DOMAIN s.puts \cup {k} |-> IF x = k THEN v ELSE s.puts[x]],
              !.deletes = @ \ {k}]

AfterDel(s, k) ==
    [s EXCEPT !.puts = [x \in DOMAIN s.puts \ {k} |-> s.puts[x]],
              !.deletes = @ \cup {k}]

Has(s, k) == k \notin s.deletes /\ k \in DOMAIN s.puts \cup DOMAIN s.store

Get(s, k) ==
    IF Has(s, k) THEN IF k \in DOMAIN s.puts THEN s.puts[k] ELSE s.store[k]
                 ELSE NoValue

\* Mutant: the deletes are dropped instead of applied.
AfterCommit_NotErased(s) ==
    [ store   |-> [k \in DOMAIN s.store \cup DOMAIN s.puts |->
                     IF k \in DOMAIN s.store THEN s.store[k] ELSE s.puts[k]],
      puts    |-> EmptyMap,
      deletes |-> {} ]

\* std::map::insert leaves the value of a key that is present as it was.
AfterCommit(s) ==
    [ store   |-> [k \in (DOMAIN s.store \cup DOMAIN s.puts) \ s.deletes |->
                     IF k \in DOMAIN s.store THEN s.store[k] ELSE s.puts[k]],
      puts    |-> EmptyMap,
      deletes |-> {} ]

AfterRollback(s) == [s EXCEPT !.puts = EmptyMap, !.deletes = {}]
=============================================================================
