----------------------------- MODULE StorageProofs -----------------------------
(***************************************************************************)
(* What keeps data, for every size and order of calls: the two parts that  *)
(* the trees are made of, and the tables of the standard library.          *)
(*                                                                         *)
(* The store below a Merkle tree implements transactions for every set of  *)
(* content addressed keys.  The linked list in the leaves of a nullifier   *)
(* tree stays sorted, for any values inserted in any order and any number  *)
(* of leaves.                                                              *)
(*                                                                         *)
(* A table is described by its cells, whether or not it has an array in    *)
(* the composer yet.  What a call does to the state of one table is stated *)
(* once (ReadEffect, WriteEffect): it keeps every other array, so a second *)
(* table in the same composer is not touched (OtherTableKept).             *)
(***************************************************************************)
EXTENDS MemoryStore, NullifierList, MemoryTables, LeastElements

-----------------------------------------------------------------------------
(* The store. *)

\* What a put does to the store keeps the invariant.
LEMMA PutKeeps ==
    ASSUME StoreInv, NEW w \in Writes, Put(w[1], w[2])
    PROVE  StoreInv'
  <1> DEFINE k == w[1]
  <1>1. /\ db'.store = db.store
        /\ db'.puts = [x \in DOMAIN db.puts \cup {k} |-> IF x = k THEN w[2] ELSE db.puts[x]]
        /\ db'.deletes = db.deletes \ {k}
        /\ db' = [store |-> db'.store, puts |-> db'.puts, deletes |-> db'.deletes]
    BY DEF StoreInv, Put, AfterPut
  <1>2. IsMap(db'.puts)
    BY <1>1, WritesArePairs DEF StoreInv, IsMap
  <1> QED
    BY <1>1, <1>2 DEF StoreInv, IsMap

LEMMA DelKeeps ==
    ASSUME StoreInv, NEW k \in Keys, Del(k)
    PROVE  StoreInv'
  <1>1. /\ db'.store = db.store
        /\ db'.puts = [x \in DOMAIN db.puts \ {k} |-> db.puts[x]]
        /\ db'.deletes = db.deletes \cup {k}
        /\ db' = [store |-> db'.store, puts |-> db'.puts, deletes |-> db'.deletes]
    BY DEF StoreInv, Del, AfterDel
  <1> QED
    BY <1>1 DEF StoreInv, IsMap

LEMMA CommitKeeps ==
    ASSUME StoreInv, Commit
    PROVE  StoreInv'
  BY DEF StoreInv, IsMap, Commit, AfterCommit, EmptyMap

LEMMA RollbackKeeps ==
    ASSUME StoreInv, Rollback
    PROVE  StoreInv'
  BY DEF StoreInv, IsMap, Rollback, AfterRollback, EmptyMap

\* StoreInv is inductive: whatever the order of the operations, the maps hold
\* pairs that were written and no key is both put and deleted.
THEOREM StoreInvariant == StoreSpec => []StoreInv
  <1>1. StoreInit => StoreInv
    BY DEF StoreInit, StoreInv, IsMap, EmptyStore, EmptyMap
  <1>2. StoreInv /\ [StoreNext]_db => StoreInv'
    <2> SUFFICES ASSUME StoreInv, [StoreNext]_db PROVE StoreInv'
      OBVIOUS
    <2>1. CASE \E w \in Writes : Put(w[1], w[2])
      BY <2>1, PutKeeps
    <2>2. CASE \E k \in Keys : Del(k)
      BY <2>2, DelKeeps
    <2>3. CASE Commit
      BY <2>3, CommitKeeps
    <2>4. CASE Rollback
      BY <2>4, RollbackKeeps
    <2>5. CASE UNCHANGED db
      BY <2>5 DEF StoreInv, IsMap
    <2> QED
      BY <2>1, <2>2, <2>3, <2>4, <2>5 DEF StoreNext
  <1> QED
    BY <1>1, <1>2, PTL DEF StoreSpec

-----------------------------------------------------------------------------
(***************************************************************************)
(* The refinement.                                                         *)
(***************************************************************************)
Committed == [k \in Keys |-> IF k \in DOMAIN db.store THEN db.store[k] ELSE NoValue]
Working   == [k \in Keys |-> Get(db, k)]

\* With content addressed keys a commit makes exactly the working values
\* permanent, though insert never overwrites.
LEMMA CommitMakesPermanent ==
    ASSUME ContentAddressed, StoreInv, Commit
    PROVE  Committed' = Working /\ Working' = Working
  <1>1. /\ db'.store = [k \in (DOMAIN db.store \cup DOMAIN db.puts) \ db.deletes |->
                          IF k \in DOMAIN db.store THEN db.store[k] ELSE db.puts[k]]
        /\ DOMAIN db'.puts = {}
        /\ db'.deletes = {}
    BY DEF Commit, AfterCommit, EmptyMap
  <1>2. ASSUME NEW k \in DOMAIN db.store, k \in DOMAIN db.puts PROVE db.store[k] = db.puts[k]
    <2>1. <<k, db.store[k]>> \in Writes /\ <<k, db.puts[k]>> \in Writes
      BY <1>2 DEF StoreInv, IsMap
    <2> QED
      BY <2>1 DEF ContentAddressed
  <1>3. \A k \in Keys : (IF k \in DOMAIN db'.store THEN db'.store[k] ELSE NoValue) = Get(db, k)
    BY <1>1, <1>2 DEF Get, Has, StoreInv
  <1>4. \A k \in Keys : Get(db', k) = Get(db, k)
    BY <1>1, <1>3 DEF Get, Has
  <1> QED
    BY <1>3, <1>4 DEF Committed, Working

LEMMA StepImplements ==
    ASSUME ContentAddressed, StoreInv, [StoreNext]_db
    PROVE  [Abstract!Next]_(Abstract!kvVars)
  <1> USE DEF Abstract!Keys, Keys
  <1>1. ASSUME NEW w \in Writes, Put(w[1], w[2]) PROVE Abstract!Put(w[1], w[2])
    <2>1. /\ db'.store = db.store
          /\ db'.puts = [x \in DOMAIN db.puts \cup {w[1]} |-> IF x = w[1] THEN w[2] ELSE db.puts[x]]
          /\ db'.deletes = db.deletes \ {w[1]}
      BY <1>1 DEF StoreInv, Put, AfterPut
    <2>2. \A k \in Keys : Get(db', k) = IF k = w[1] THEN w[2] ELSE Get(db, k)
      BY <2>1 DEF Get, Has
    <2> QED
      BY <2>1, <2>2 DEF Abstract!Put
  <1>2. ASSUME NEW k \in Keys, Del(k) PROVE Abstract!Delete(k)
    <2>1. /\ db'.store = db.store
          /\ db'.puts = [x \in DOMAIN db.puts \ {k} |-> db.puts[x]]
          /\ db'.deletes = db.deletes \cup {k}
      BY <1>2 DEF StoreInv, Del, AfterDel
    <2>2. \A x \in Keys : Get(db', x) = IF x = k THEN NoValue ELSE Get(db, x)
      BY <2>1 DEF Get, Has
    <2> QED
      BY <2>1, <2>2 DEF Abstract!Delete
  <1>3. ASSUME Commit PROVE Abstract!Commit
    BY <1>3, CommitMakesPermanent DEF Abstract!Commit, Committed, Working
  <1>4. ASSUME Rollback PROVE Abstract!Rollback
    <2>1. db'.store = db.store /\ DOMAIN db'.puts = {} /\ db'.deletes = {}
      BY <1>4 DEF StoreInv, Rollback, AfterRollback, EmptyMap
    <2>2. \A x \in Keys : Get(db', x) = IF x \in DOMAIN db.store THEN db.store[x] ELSE NoValue
      BY <2>1 DEF Get, Has
    <2> QED
      BY <2>1, <2>2 DEF Abstract!Rollback
  <1>5. CASE UNCHANGED db
    BY <1>5 DEF Abstract!kvVars, Get, Has
  <1> QED
    BY <1>1, <1>2, <1>3, <1>4, <1>5 DEF StoreNext, Abstract!Next

\* For every set of content addressed keys the store implements transactions.
THEOREM ImplementsTransactionsOfContent ==
    ASSUME ContentAddressed
    PROVE  StoreSpec => ImplementsTransactions
  <1>1. StoreInit => Abstract!Init
    BY DEF StoreInit, Abstract!Init, Abstract!Keys, Keys, EmptyStore, EmptyMap, Get, Has
  <1>2. StoreInv /\ [StoreNext]_db => [Abstract!Next]_(Abstract!kvVars)
    BY StepImplements
  <1> QED
    BY <1>1, <1>2, StoreInvariant, PTL DEF StoreSpec, ImplementsTransactions, Abstract!Spec

-----------------------------------------------------------------------------
(* The list of nullifiers. *)

IInv == ListInv /\ NonMembershipProvable

Leaves == [value : Nat, nextIndex : Positions, nextValue : Nat]

LEMMA InitOK == Init => IInv
  <1> SUFFICES ASSUME Init PROVE IInv
    OBVIOUS
  <1>1. size = 1 /\ leaves[0].value = 0 /\ leaves[0].nextIndex = 0 /\ leaves[0].nextValue = 0
    BY DEF Init, nullifier_leaf
  <1>2. Positions = {0}
    BY <1>1 DEF Positions
  <1>3. TypeOK
    BY <1>1, <1>2 DEF Init, nullifier_leaf, TypeOK
  <1>4. LinksSound /\ ValuesDistinct
    BY <1>1, <1>2 DEF LinksSound, ValuesDistinct, IsLast
  <1>5. NoFalseNonMembership
    BY <1>1, <1>2 DEF NoFalseNonMembership, Covers, IsLast
  <1>6. NonMembershipProvable
    BY <1>1, <1>2 DEF NonMembershipProvable, Covers, IsLast, Present
  <1> QED
    BY <1>3, <1>4, <1>5, <1>6 DEF IInv, ListInv

\* find_closest_leaf returns the leaf that covers an absent value: a larger
\* leaf is never the closest, because the leaf of 0 is nearer.
LEMMA ClosestCovers ==
    ASSUME IInv, NEW v \in Nat, ~Present(v)
    PROVE  Closest(v) \in Positions /\ Covers(Closest(v), v)
  <1> USE DEF IInv, ListInv
  <1>1. PICK c \in Positions : Covers(c, v)
    BY DEF NonMembershipProvable
  <1>2. \A j \in Positions : leaves[j] \in Leaves
    BY DEF TypeOK, Leaves
  <1>3. \A j \in Positions : leaves[j].value # v
    BY DEF Present
  <1>4. \A j \in Positions : leaves[j].value < v => leaves[j].value <= leaves[c].value
    <2> SUFFICES ASSUME NEW j \in Positions, leaves[j].value < v, leaves[j].value > leaves[c].value
                 PROVE  FALSE
      BY <1>2 DEF Leaves
    <2>1. Covers(c, leaves[j].value)
      BY <1>1, <1>2 DEF Covers, IsLast, Leaves
    <2> QED
      BY <2>1 DEF NoFalseNonMembership
  <1>5. \A j \in Positions : j # c => Diff(c, v) < Diff(j, v)
    <2> SUFFICES ASSUME NEW j \in Positions, j # c PROVE Diff(c, v) < Diff(j, v)
      OBVIOUS
    <2>1. Diff(c, v) = v - leaves[c].value /\ leaves[c].value < v
      BY <1>1, <1>2 DEF Diff, Covers, Leaves
    <2>2. leaves[j].value # leaves[c].value
      BY DEF ValuesDistinct
    <2>3. CASE leaves[j].value > v
      BY <1>2, <2>1, <2>3 DEF Diff, Leaves
    <2>4. CASE leaves[j].value < v
      BY <1>2, <1>4, <2>1, <2>2, <2>4 DEF Diff, Leaves
    <2> QED
      BY <1>2, <1>3, <2>3, <2>4 DEF Leaves
  <1>6. \A j \in Positions : Diff(j, v) \in Int
    BY <1>2 DEF Diff, Leaves
  <1>7. IsClosest(c, v)
    BY <1>5, <1>6 DEF IsClosest, Positions
  <1>8. \A i \in Positions : IsClosest(i, v) => i = c
    BY <1>5, <1>6 DEF IsClosest
  <1>9. Closest(v) = c
    BY <1>7, <1>8 DEF Closest
  <1> QED
    BY <1>1, <1>9

\* What an insertion does to the leaves.
LEMMA InsertEffect ==
    ASSUME IInv, NullifierAssumption, NEW v \in Nat, Insert(v)
    PROVE  \E c \in Positions :
             /\ Covers(c, v)
             /\ size \in Nat \ {0}
             /\ size' = size + 1
             /\ Positions' = Positions \cup {size}
             /\ size \notin Positions
             /\ leaves' \in [Positions' -> [value : Nat, nextIndex : Positions', nextValue : Nat]]
             /\ leaves'[size] = nullifier_leaf(v, leaves[c].nextIndex, leaves[c].nextValue)
             /\ leaves'[c] = nullifier_leaf(leaves[c].value, size, v)
             /\ \A i \in Positions \ {c} : leaves'[i] = leaves[i]
  <1> USE DEF IInv, ListInv
  <1> DEFINE c == Closest(v)
  <1>1. c \in Positions /\ Covers(c, v)
    BY ClosestCovers DEF Insert
  <1>2. /\ size \in Nat \ {0}
        /\ size' = size + 1
        /\ Positions' = Positions \cup {size}
        /\ Positions' = 0 .. size
        /\ size \notin Positions
    <2>1. size \in Nat \ {0} /\ size' = size + 1
      BY DEF Insert, TypeOK
    <2> QED
      BY <2>1 DEF Positions
  <1>3. leaves[c] \in Leaves
    BY <1>1 DEF TypeOK, Leaves
  <1>4. leaves'[size] = nullifier_leaf(v, leaves[c].nextIndex, leaves[c].nextValue)
    BY <1>1, <1>2 DEF Insert, NewLeaf
  <1>5. leaves'[c] = Relinked(v)
    BY <1>1, <1>2 DEF Insert
  <1>6. leaves'[c] = nullifier_leaf(leaves[c].value, size, v)
    BY <1>5 DEF Relinked
  <1>7. \A i \in Positions \ {c} : leaves'[i] = leaves[i]
    BY <1>2 DEF Insert
  <1>8. leaves' \in [Positions' -> [value : Nat, nextIndex : Positions', nextValue : Nat]]
    <2> DEFINE R == [value : Nat, nextIndex : Positions', nextValue : Nat]
    <2>1. leaves'[size] \in R
      BY <1>2, <1>3, <1>4 DEF nullifier_leaf, Leaves
    <2>2. leaves'[c] \in R
      BY <1>2, <1>3, <1>6 DEF nullifier_leaf, Leaves
    <2>3. \A i \in Positions \ {c} : leaves'[i] \in R
      <3> SUFFICES ASSUME NEW i \in Positions \ {c} PROVE leaves[i] \in R
        BY <1>7
      <3>1. leaves[i] \in Leaves
        BY DEF TypeOK, Leaves
      <3> QED
        BY <3>1, <1>2 DEF Leaves
    <2>4. \A i \in Positions' : leaves'[i] \in R
      BY <1>1, <1>2, <2>1, <2>2, <2>3
    <2>5. leaves' = [i \in Positions' |-> leaves'[i]]
      BY <1>2 DEF Insert
    <2> HIDE DEF R
    <2> QED
      BY <2>4, <2>5 DEF R
  <1> QED
    BY <1>1, <1>2, <1>4, <1>6, <1>7, <1>8

LEMMA InsertKeeps ==
    ASSUME IInv, NullifierAssumption, NEW v \in Nat, Insert(v)
    PROVE  IInv'
  <1>1. PICK c \in Positions :
             /\ Covers(c, v)
             /\ size \in Nat \ {0}
             /\ size' = size + 1
             /\ Positions' = Positions \cup {size}
             /\ size \notin Positions
             /\ leaves' \in [Positions' -> [value : Nat, nextIndex : Positions', nextValue : Nat]]
             /\ leaves'[size] = nullifier_leaf(v, leaves[c].nextIndex, leaves[c].nextValue)
             /\ leaves'[c] = nullifier_leaf(leaves[c].value, size, v)
             /\ \A i \in Positions \ {c} : leaves'[i] = leaves[i]
    BY InsertEffect
  <1>2. \A i \in Positions : /\ leaves[i] \in Leaves
                             /\ leaves[i].value \in Nat
                             /\ leaves[i].nextIndex \in Positions
                             /\ leaves[i].nextValue \in Nat
    BY DEF IInv, ListInv, TypeOK, Leaves
  <1>3. /\ leaves[c].value < v
        /\ v < leaves[c].nextValue \/ leaves[c].nextValue = 0
    BY <1>1 DEF Covers, IsLast
  <1>4. /\ leaves'[size].value = v
        /\ leaves'[size].nextIndex = leaves[c].nextIndex
        /\ leaves'[size].nextValue = leaves[c].nextValue
        /\ leaves'[c].value = leaves[c].value
        /\ leaves'[c].nextIndex = size
        /\ leaves'[c].nextValue = v
    BY <1>1 DEF nullifier_leaf
  <1>5. \A i \in Positions : leaves'[i].value = leaves[i].value
    BY <1>1, <1>4
  <1>6. \A i \in Positions : leaves[i].value # v
    BY DEF Insert, Present
  <1>7. 0 \in Positions
    BY <1>1 DEF Positions
  <1>8. v > 0
    BY <1>2, <1>3
  <1>9. TypeOK'
    BY <1>1 DEF TypeOK
  <1>10. ValuesDistinct'
    BY <1>1, <1>4, <1>5, <1>6, <1>7 DEF ValuesDistinct, IInv, ListInv
  <1>11. LinksSound'
    <2> SUFFICES ASSUME NEW i \in Positions'
                 PROVE  \/ leaves'[i].nextValue = 0 /\ leaves'[i].nextIndex = 0
                        \/ /\ leaves'[i].nextValue > leaves'[i].value
                           /\ leaves'[leaves'[i].nextIndex].value = leaves'[i].nextValue
      BY DEF LinksSound, IsLast
    <2>1. CASE i = size
      <3>1. \/ leaves[c].nextValue = 0 /\ leaves[c].nextIndex = 0
            \/ leaves[leaves[c].nextIndex].value = leaves[c].nextValue
        BY DEF IInv, ListInv, LinksSound, IsLast
      <3>2. leaves[c].nextIndex \in Positions
        BY <1>2
      <3> QED
        BY <2>1, <3>1, <3>2, <1>2, <1>3, <1>4, <1>5, <1>7 DEF IInv, ListInv, LinksSound, IsLast
    <2>2. CASE i = c
      BY <2>2, <1>3, <1>4
    <2>3. CASE i \in Positions \ {c}
      <3>1. leaves'[i] = leaves[i]
        BY <1>1, <2>3
      <3> QED
        BY <2>3, <3>1, <1>2, <1>5 DEF IInv, ListInv, LinksSound, IsLast
    <2> QED
      BY <1>1, <2>1, <2>2, <2>3
  <1>12. NoFalseNonMembership'
    <2> SUFFICES ASSUME NEW i \in Positions', NEW j \in Positions',
                        leaves'[i].value < leaves'[j].value,
                        leaves'[j].value < leaves'[i].nextValue \/ leaves'[i].nextValue = 0
                 PROVE  FALSE
      BY DEF NoFalseNonMembership, Covers, IsLast
    <2>1. \A k, l \in Positions : ~ /\ leaves[k].value < leaves[l].value
                                    /\ leaves[l].value < leaves[k].nextValue \/ leaves[k].nextValue = 0
      BY DEF IInv, ListInv, NoFalseNonMembership, Covers, IsLast
    <2>2. CASE i = size /\ j = size
      BY <2>2, <1>4, <1>8
    <2>3. CASE i = size /\ j \in Positions
      BY <2>1, <2>3, <1>2, <1>3, <1>4, <1>5
    <2>4. CASE i = c /\ j = size
      BY <2>4, <1>4, <1>8
    <2>5. CASE i = c /\ j \in Positions
      BY <2>1, <2>5, <1>2, <1>3, <1>4, <1>5, <1>8
    <2>6. CASE i \in Positions \ {c} /\ j = size
      <3>1. leaves'[i] = leaves[i]
        BY <1>1, <2>6
      <3>2. leaves[i].value < v /\ (v < leaves[i].nextValue \/ leaves[i].nextValue = 0)
        BY <2>6, <3>1, <1>4
      <3>3. leaves[i].value < leaves[c].value \/ leaves[c].value < leaves[i].value
        BY <2>6, <1>2 DEF IInv, ListInv, ValuesDistinct
      <3> QED
        BY <2>1, <2>6, <3>2, <3>3, <1>2, <1>3
    <2>7. CASE i \in Positions \ {c} /\ j \in Positions
      <3>1. leaves'[i] = leaves[i]
        BY <1>1, <2>7
      <3> QED
        BY <2>1, <2>7, <3>1, <1>5
    <2> QED
      BY <1>1, <2>2, <2>3, <2>4, <2>5, <2>6, <2>7
  <1>13. NonMembershipProvable'
    <2> SUFFICES ASSUME NEW x \in Nat, ~Present(x)'
                 PROVE  \E i \in Positions' : /\ leaves'[i].value < x
                                              /\ x < leaves'[i].nextValue \/ leaves'[i].nextValue = 0
      BY DEF NonMembershipProvable, Covers, IsLast
    <2>1. x # v /\ ~Present(x)
      BY <1>1, <1>4, <1>5 DEF Present
    <2>2. PICK i \in Positions : leaves[i].value < x /\ (x < leaves[i].nextValue \/ leaves[i].nextValue = 0)
      BY <2>1 DEF IInv, NonMembershipProvable, Covers, IsLast
    <2>3. CASE i # c
      <3>1. leaves'[i] = leaves[i]
        BY <1>1, <2>3
      <3> QED
        BY <2>2, <3>1, <1>1
    <2>4. CASE i = c /\ x < v
      BY <2>2, <2>4, <1>1, <1>4
    <2>5. CASE i = c /\ x > v
      <3>1. size \in Positions'
        BY <1>1
      <3> QED
        BY <2>2, <2>5, <3>1, <1>4
    <2> QED
      BY <2>1, <2>3, <2>4, <2>5
  <1> QED
    BY <1>9, <1>10, <1>11, <1>12, <1>13 DEF IInv, ListInv

\* IInv is inductive.  NonMembershipProvable is needed: it is what makes the
\* minimum of diff the leaf that covers the new value.
THEOREM InductiveInvariant == Spec => []IInv
  <1>1. IInv /\ [Next]_listVars => IInv'
    <2> SUFFICES ASSUME IInv, [Next]_listVars PROVE IInv'
      OBVIOUS
    <2>1. ASSUME NEW v \in Nullifiers, update_element(v) PROVE IInv'
      <3>1. v \in Nat
        BY NullifierAssumption
      <3>2. CASE Insert(v)
        BY <3>1, <3>2, InsertKeeps, NullifierAssumption
      <3>3. CASE InsertAgain(v)
        BY <3>3 DEF InsertAgain, IInv, ListInv, TypeOK, LinksSound, ValuesDistinct, NoFalseNonMembership,
                    NonMembershipProvable, Covers, IsLast, Present, Positions
      <3> QED
        BY <2>1, <3>2, <3>3 DEF update_element
    <2>2. CASE UNCHANGED listVars
      BY <2>2 DEF listVars, IInv, ListInv, TypeOK, LinksSound, ValuesDistinct, NoFalseNonMembership,
                  NonMembershipProvable, Covers, IsLast, Present, Positions
    <2> QED
      BY <2>1, <2>2 DEF Next
  <1> QED
    BY <1>1, InitOK, PTL DEF Spec

\* The links always lead to the leaf with the next larger value.
THEOREM LinksAlwaysSound == Spec => []LinksSound
  <1>1. IInv => LinksSound
    BY DEF IInv, ListInv
  <1> QED
    BY <1>1, InductiveInvariant, PTL

\* No leaf ever proves that a member is absent.
THEOREM NoMemberProvedAbsent == Spec => []NoFalseNonMembership
  <1>1. IInv => NoFalseNonMembership
    BY DEF IInv, ListInv
  <1> QED
    BY <1>1, InductiveInvariant, PTL

\* The absence of a value that is not in the tree can always be proved.
THEOREM AbsenceProvable == Spec => []NonMembersCovered
  <1>1. IInv => NonMembersCovered
    BY NullifierAssumption DEF IInv, NonMembershipProvable, NonMembersCovered
  <1> QED
    BY <1>1, InductiveInvariant, PTL

\* The list keeps its type.
THEOREM TypesCorrect == Spec => []TypeOK
  <1>1. IInv => TypeOK
    BY DEF IInv, ListInv
  <1> QED
    BY <1>1, InductiveInvariant, PTL

-----------------------------------------------------------------------------
(* The tables. *)

Row == [Indices -> Elements \cup {None}]

Table == [kind : {"ram"}, raw_entries : RawEntries \cup {<< >>}, index_initialized : [Indices -> BOOLEAN],
          ram_id : Nat, generated : BOOLEAN]

State == [t : Table, ram : Seq(Row), refused : BOOLEAN, failed : BOOLEAN, value : Int]

\* A cell is marked as initialised exactly when the composer's array has a value there.
Marked(t, rows) ==
    IF t.generated
    THEN /\ t.ram_id \in 1 .. Len(rows)
         /\ \A i \in Indices : t.index_initialized[i] <=> rows[t.ram_id][i] # None
    ELSE \A i \in Indices : ~ t.index_initialized[i]

Sound(m) == m \in State /\ Marked(m.t, m.ram)

\* What a table holds, before and after it has an array.
CellsOf(t, rows) ==
    IF t.generated THEN rows[t.ram_id]
    ELSE IF t.raw_entries = << >> THEN [i \in Indices |-> None]
    ELSE [i \in Indices |-> t.raw_entries[i + 1]]

Full(cells) == \A i \in Indices : cells[i] # None

\* The array of the table, or the one it will get.
OwnId(t, rows) == IF t.generated THEN t.ram_id ELSE Len(rows) + 1

\* The state w after a served call in the state m: the table has its array and every other is kept.
Serves(m, w) ==
    /\ Sound(w) /\ w.t.generated
    /\ w.refused = m.refused /\ w.failed = m.failed
    /\ w.t.ram_id = OwnId(m.t, m.ram)
    /\ Len(m.ram) <= Len(w.ram)
    /\ \A j \in 1 .. Len(m.ram) : j # w.t.ram_id => w.ram[j] = m.ram[j]

-----------------------------------------------------------------------------
(* One table. *)

LEMMA SizeFacts ==
    /\ Size \in Nat /\ Size > 0 /\ Modulus \in Nat /\ Modulus > 4 * Size
    /\ None \notin Elements /\ 0 \in Elements /\ Elements \subseteq Int /\ None \in Int
    /\ RawEntries \subseteq [1 .. Size -> Elements]
BY TablesAssumption, FieldAssumption DEF Field, None

\* A table not yet in the composer holds its entries, or nothing.
LEMMA NewCells ==
    ASSUME NEW m \in State, ~ m.t.generated
    PROVE  /\ CellsOf(m.t, m.ram) \in Row
           /\ \A i \in Indices : CellsOf(m.t, m.ram)[i] # None <=> m.t.raw_entries # << >>
<1> DEFINE raw == m.t.raw_entries
<1>1. m.t \in Table /\ raw \in RawEntries \cup {<< >>}
  BY DEF State, Table
<1>2. CASE raw = << >>
  <2>1. CellsOf(m.t, m.ram) = [i \in Indices |-> None]
    BY <1>2 DEF CellsOf
  <2> QED BY <1>2, <2>1 DEF Row
<1>3. CASE raw # << >>
  <2>1. CellsOf(m.t, m.ram) = [i \in Indices |-> raw[i + 1]]
    BY <1>3 DEF CellsOf
  <2>2. \A i \in Indices : i + 1 \in 1 .. Size
    BY SizeFacts DEF Indices
  <2>3. raw \in [1 .. Size -> Elements]
    BY <1>1, <1>3, SizeFacts
  <2> HIDE DEF raw
  <2>4. \A i \in Indices : raw[i + 1] \in Elements
    BY <2>2, <2>3
  <2> QED BY <1>3, <2>1, <2>4, SizeFacts DEF Row, raw
<1> QED BY <1>2, <1>3

\* initialize_table gives a table its array, with the cells it holds.
LEMMA InitializeEffect ==
    ASSUME NEW m, Sound(m), NEW a, a = InitializeTable(m)
    PROVE  /\ Serves(m, a) /\ a.value = m.value
           /\ CellsOf(a.t, a.ram) = CellsOf(m.t, m.ram)
<1> DEFINE cells == CellsOf(m.t, m.ram)
           full == m.t.raw_entries # << >>
<1>0. m \in State /\ m.t \in Table /\ m.ram \in Seq(Row) /\ m.t.generated \in BOOLEAN
  BY DEF Sound, State, Table
<1>1. CASE m.t.generated
  <2>1. a = m
    BY <1>1 DEF InitializeTable
  <2> QED BY <1>0, <1>1, <2>1 DEF Serves, OwnId, Sound, State
<1>2. CASE ~ m.t.generated
  <2>1. cells \in Row /\ \A i \in Indices : cells[i] # None <=> full
    BY <1>0, <1>2, NewCells
  <2>2. /\ a.ram = Append(m.ram, cells)
        /\ a.t = [m.t EXCEPT !.ram_id = Len(m.ram) + 1, !.generated = TRUE,
                             !.index_initialized = IF full THEN [i \in Indices |-> TRUE] ELSE @]
        /\ a = [m EXCEPT !.t = a.t, !.ram = a.ram]
    <3>1. CASE full
      BY <1>0, <1>2, <3>1 DEF InitializeTable, CellsOf, State, Table
    <3>2. CASE ~ full
      BY <1>0, <1>2, <3>2 DEF InitializeTable, CellsOf, State, Table
    <3> QED BY <3>1, <3>2
  <2> HIDE DEF cells, full
  <2>3. /\ a.ram \in Seq(Row) /\ Len(a.ram) = Len(m.ram) + 1 /\ Len(m.ram) \in Nat
        /\ a.ram[Len(m.ram) + 1] = cells
        /\ \A j \in 1 .. Len(m.ram) : a.ram[j] = m.ram[j]
    BY <1>0, <2>1, <2>2
  <2>4. /\ a.t \in Table /\ a.t.generated /\ a.t.ram_id = Len(m.ram) + 1
        /\ a.t.index_initialized = IF full THEN [i \in Indices |-> TRUE] ELSE m.t.index_initialized
    <3>1. Len(m.ram) + 1 \in Nat /\ TRUE \in BOOLEAN /\ [i \in Indices |-> TRUE] \in [Indices -> BOOLEAN]
      BY <2>3
    <3>2. CASE full
      <4>1. a.t = [m.t EXCEPT !.ram_id = Len(m.ram) + 1, !.generated = TRUE,
                              !.index_initialized = [i \in Indices |-> TRUE]]
        BY <2>2, <3>2
      <4> QED BY <1>0, <3>1, <3>2, <4>1 DEF Table
    <3>3. CASE ~ full
      <4>1. a.t = [m.t EXCEPT !.ram_id = Len(m.ram) + 1, !.generated = TRUE,
                              !.index_initialized = m.t.index_initialized]
        BY <2>2, <3>3
      <4> QED BY <1>0, <3>1, <3>3, <4>1 DEF Table
    <3> QED BY <3>2, <3>3
  <2>5. a \in State /\ a.value = m.value /\ a.refused = m.refused /\ a.failed = m.failed
    BY <1>0, <2>2, <2>3, <2>4 DEF State
  <2>6. CellsOf(a.t, a.ram) = cells
    BY <2>3, <2>4 DEF CellsOf
  <2>7. \A i \in Indices : ~ m.t.index_initialized[i]
    BY <1>2 DEF Sound, Marked
  <2>8. \A i \in Indices : a.t.index_initialized[i] <=> cells[i] # None
    BY <2>1, <2>4, <2>7
  <2>9. Marked(a.t, a.ram)
    BY <2>3, <2>4, <2>8 DEF Marked
  <2> QED BY <1>2, <2>3, <2>4, <2>5, <2>6, <2>9 DEF Serves, Sound, OwnId, cells
<1> QED BY <1>0, <1>1, <1>2

\* What reporting a failure does.
LEMMA FailureEffect ==
    ASSUME NEW m, Sound(m), NEW c \in BOOLEAN, NEW f, f = Failure(m, c)
    PROVE  /\ Sound(f)
           /\ f.failed <=> (m.failed \/ c)
           /\ f.t = m.t /\ f.ram = m.ram /\ f.refused = m.refused /\ f.value = m.value
<1>1. m \in State /\ m.failed \in BOOLEAN
  BY DEF Sound, State
<1>2. f = [m EXCEPT !.failed = m.failed \/ c]
  BY DEF Failure
<1>3. PICK d \in BOOLEAN : d <=> (m.failed \/ c)
  OBVIOUS
<1>4. (m.failed \/ c) = d
  BY <1>1, <1>3
<1>5. f = [m EXCEPT !.failed = d]
  BY <1>2, <1>4
<1>6. f \in State /\ f.failed = d /\ f.t = m.t /\ f.ram = m.ram /\ f.refused = m.refused /\ f.value = m.value
  BY <1>1, <1>5 DEF State
<1> QED BY <1>3, <1>6 DEF Sound

\* The cells of a sound table.
LEMMA CellsAre ==
    ASSUME NEW m, Sound(m)
    PROVE  /\ CellsOf(m.t, m.ram) \in Row
           /\ m.t.generated => /\ m.ram[m.t.ram_id] = CellsOf(m.t, m.ram)
                               /\ check_indices_initialized(m.t) <=> Full(CellsOf(m.t, m.ram))
<1>1. m \in State /\ m.ram \in Seq(Row)
  BY DEF Sound, State
<1>2. CASE m.t.generated
  <2>1. m.t.ram_id \in 1 .. Len(m.ram)
    BY <1>2 DEF Sound, Marked
  <2>2. CellsOf(m.t, m.ram) = m.ram[m.t.ram_id] /\ m.ram[m.t.ram_id] \in Row
    BY <1>1, <1>2, <2>1 DEF CellsOf
  <2>3. check_indices_initialized(m.t) <=> Full(m.ram[m.t.ram_id])
    BY <1>2 DEF Sound, Marked, check_indices_initialized, Full
  <2> QED BY <2>2, <2>3
<1>3. CASE ~ m.t.generated
  BY <1>1, <1>3, NewCells
<1> QED BY <1>2, <1>3

\* Serves only speaks of what Failure leaves alone, while nothing has failed.
LEMMA ServesAfterFailure ==
    ASSUME NEW m, Sound(m), NEW f, Sound(f), NEW a, Serves(f, a),
           f.t = m.t, f.ram = m.ram, f.refused = m.refused, f.failed = m.failed
    PROVE  Serves(m, a)
BY DEF Serves, OwnId

LEMMA AssertedEffect ==
    ASSUME NEW m, Sound(m), NEW c \in BOOLEAN, NEW f, f = Asserted(m, c)
    PROVE  /\ Sound(f)
           /\ c => f.refused = m.refused
           /\ f.t = m.t /\ f.ram = m.ram /\ f.failed = m.failed /\ f.value = m.value
<1>1. m \in State /\ m.refused \in BOOLEAN
  BY DEF Sound, State
<1>2. PICK d \in BOOLEAN : d <=> (m.refused \/ ~ c)
  OBVIOUS
<1>3. (m.refused \/ ~ c) = d
  BY <1>1, <1>2
<1>4. f = [m EXCEPT !.refused = d]
  BY <1>3 DEF Asserted
<1>5. f \in State /\ f.refused = d /\ f.t = m.t /\ f.ram = m.ram /\ f.failed = m.failed /\ f.value = m.value
  BY <1>1, <1>4 DEF State
<1>6. c => d = m.refused
  BY <1>1, <1>2
<1> QED BY <1>5, <1>6 DEF Sound

\* A read fails for an index beyond the end or a table not full; otherwise it finds the cell.
LEMMA ReadEffect ==
    ASSUME NEW m, Sound(m), NEW index, NEW r, r = ReadTable(m, index),
           NEW cells, cells = CellsOf(m.t, m.ram)
    PROVE  /\ r.failed \in BOOLEAN
           /\ r.failed <=> (m.failed \/ index.value \notin Indices \/ ~ Full(cells))
           /\ ~ r.failed => Serves(m, r) /\ CellsOf(r.t, r.ram) = cells /\ r.value = cells[index.value]
<1> DEFINE i == index.value
<1>1. PICK f : f = Failure(m, i \notin Indices)
  OBVIOUS
<1>2. PICK a : a = InitializeTable(f)
  OBVIOUS
<1>3. PICK b : b = Failure(a, ~ check_indices_initialized(a.t))
  OBVIOUS
<1>4. PICK c : c = CanReach(b, b.t.ram_id, i)
  OBVIOUS
<1>5. PICK g : g = Asserted(b, c)
  OBVIOUS
<1>6. PICK x : x = ReadElement(b, b.t.ram_id, i)
  OBVIOUS
<1>7. r = [g EXCEPT !.value = x]
  BY <1>1, <1>2, <1>3, <1>4, <1>5, <1>6 DEF ReadTable
<1>8. c \in BOOLEAN
  BY <1>4 DEF CanReach
<1> HIDE DEF i
<1>9. /\ Sound(f)
      /\ f.failed <=> (m.failed \/ i \notin Indices)
      /\ f.t = m.t /\ f.ram = m.ram /\ f.refused = m.refused
  BY <1>1, FailureEffect
<1>10. Serves(f, a) /\ CellsOf(a.t, a.ram) = cells
  BY <1>2, <1>9, InitializeEffect
<1>11. Sound(a) /\ a.t.generated /\ a.failed = f.failed
  BY <1>10 DEF Serves
<1>12. check_indices_initialized(a.t) <=> Full(cells)
  BY <1>10, <1>11, CellsAre
<1>13. /\ Sound(b)
       /\ b.failed <=> (a.failed \/ ~ Full(cells))
       /\ b.t = a.t /\ b.ram = a.ram /\ b.refused = a.refused
  <2>1. PICK d \in BOOLEAN : d = ~ check_indices_initialized(a.t)
    BY DEF check_indices_initialized
  <2>2. b = Failure(a, d)
    BY <1>3, <2>1
  <2> QED BY <1>11, <1>12, <2>1, <2>2, FailureEffect
<1>14. /\ Sound(g)
       /\ c => g.refused = b.refused
       /\ g.t = b.t /\ g.ram = b.ram /\ g.failed = b.failed
  BY <1>5, <1>8, <1>13, AssertedEffect
<1>15. g \in State /\ g.failed \in BOOLEAN
  BY <1>14 DEF Sound, State
<1>16. r.failed = g.failed
  BY <1>7, <1>15 DEF State
<1>17. r.failed <=> (m.failed \/ i \notin Indices \/ ~ Full(cells))
  BY <1>9, <1>11, <1>13, <1>14, <1>15, <1>16
<1>18. ASSUME ~ r.failed
       PROVE  Serves(m, r) /\ CellsOf(r.t, r.ram) = cells /\ r.value = cells[i]
  <2>1. i \in Indices /\ Full(cells) /\ ~ m.failed /\ f.failed = m.failed
    <3>1. m.failed \in BOOLEAN /\ f.failed \in BOOLEAN
      BY <1>9 DEF Sound, State
    <3> QED BY <1>9, <1>17, <1>18, <3>1
  <2>2. b.ram[b.t.ram_id] = cells /\ cells \in Row
    BY <1>10, <1>11, <1>13, CellsAre
  <2>3. c /\ x = cells[i] /\ x \in Int
    BY <1>4, <1>6, <1>8, <2>1, <2>2, SizeFacts DEF CanReach, ReadElement, Full, Row
  <2>4. r \in State /\ r.t = g.t /\ r.ram = g.ram /\ r.refused = g.refused /\ r.value = x
    BY <1>7, <1>15, <2>3 DEF State
  <2>5. r.t = a.t /\ r.ram = a.ram /\ r.refused = a.refused /\ r.failed = a.failed
    <3>1. a.failed \in BOOLEAN /\ b.failed \in BOOLEAN
      BY <1>11, <1>13 DEF Sound, State
    <3>2. ~ a.failed
      BY <1>11, <2>1
    <3> QED BY <1>13, <1>14, <1>15, <1>16, <1>18, <2>3, <2>4, <3>1, <3>2
  <2>6. Sound(r)
    BY <1>11, <2>4, <2>5 DEF Sound
  <2>7. Serves(f, r)
    BY <1>10, <2>5, <2>6 DEF Serves
  <2> QED BY <1>9, <1>10, <2>1, <2>3, <2>4, <2>5, <2>7, ServesAfterFailure
<1> QED BY <1>15, <1>16, <1>17, <1>18 DEF i

LEMMA ServesTwice ==
    ASSUME NEW m, Sound(m), NEW a, Serves(m, a), NEW w, Serves(a, w)
    PROVE  Serves(m, w)
<1>1. /\ Len(m.ram) \in Nat /\ Len(a.ram) \in Nat /\ Len(w.ram) \in Nat
      /\ Len(m.ram) <= Len(a.ram) /\ Len(a.ram) <= Len(w.ram)
  BY DEF Serves, Sound, State
<1>2. w.t.ram_id = a.t.ram_id /\ a.t.ram_id = OwnId(m.t, m.ram)
  BY DEF Serves, OwnId
<1>3. ASSUME NEW j \in 1 .. Len(m.ram), j # w.t.ram_id PROVE w.ram[j] = m.ram[j]
  <2>1. j \in 1 .. Len(a.ram)
    BY <1>1
  <2> QED BY <1>2, <1>3, <2>1 DEF Serves
<1> QED BY <1>1, <1>2, <1>3 DEF Serves

\* A cell of the table's array gets a value, and is marked.
Stores(b, i, v, w) ==
    /\ w.ram = [b.ram EXCEPT ![b.t.ram_id] = [@ EXCEPT ![i] = v]]
    /\ w.t = [b.t EXCEPT !.index_initialized = [@ EXCEPT ![i] = TRUE]]
    /\ w = [b EXCEPT !.t = w.t, !.ram = w.ram]

LEMMA CellStored ==
    ASSUME NEW b, Sound(b), b.t.generated, NEW i \in Indices, NEW v \in Elements,
           NEW w, Stores(b, i, v, w)
    PROVE  Serves(b, w) /\ CellsOf(w.t, w.ram) = [CellsOf(b.t, b.ram) EXCEPT ![i] = v]
<1> DEFINE id == b.t.ram_id
           cells == b.ram[id]
           new == [cells EXCEPT ![i] = v]
<1>1. b \in State /\ b.t \in Table /\ b.ram \in Seq(Row)
  BY DEF Sound, State
<1>2. id \in 1 .. Len(b.ram) /\ \A j \in Indices : b.t.index_initialized[j] <=> cells[j] # None
  BY DEF Sound, Marked
<1>3. cells \in Row /\ cells = CellsOf(b.t, b.ram)
  BY <1>1, <1>2 DEF CellsOf
<1>4. new \in Row /\ new[i] = v /\ \A j \in Indices : j # i => new[j] = cells[j]
  <2> HIDE DEF cells
  <2> QED BY <1>3 DEF Row
<1>5. w.ram = [b.ram EXCEPT ![id] = new]
  BY DEF Stores
<1> HIDE DEF cells, new
<1>6. w.ram \in Seq(Row) /\ Len(w.ram) = Len(b.ram) /\ w.ram[id] = new
      /\ \A j \in 1 .. Len(b.ram) : j # id => w.ram[j] = b.ram[j]
  BY <1>1, <1>2, <1>4, <1>5
<1>7. /\ w.t \in Table /\ w.t.ram_id = id /\ w.t.generated
      /\ \A j \in Indices : w.t.index_initialized[j] <=> (j = i \/ b.t.index_initialized[j])
  <2>1. b.t.index_initialized \in [Indices -> BOOLEAN]
    BY <1>1 DEF Table
  <2>2. PICK g : g = [b.t.index_initialized EXCEPT ![i] = TRUE]
    OBVIOUS
  <2>3. g \in [Indices -> BOOLEAN] /\ \A j \in Indices : g[j] <=> (j = i \/ b.t.index_initialized[j])
    BY <2>1, <2>2
  <2>4. PICK t : t = [b.t EXCEPT !.index_initialized = g]
    OBVIOUS
  <2>5. w.t = t
    BY <2>2, <2>4 DEF Stores
  <2>6. t.ram_id = id /\ t.generated /\ t.index_initialized = g
    BY <1>1, <2>4 DEF Table
  <2>7. t \in Table
    BY <1>1, <2>3, <2>4 DEF Table
  <2> QED BY <2>3, <2>5, <2>6, <2>7
<1>8. w \in State /\ w.refused = b.refused /\ w.failed = b.failed
  <2>1. PICK t, rows : t = w.t /\ rows = w.ram
    OBVIOUS
  <2>2. w = [b EXCEPT !.t = t, !.ram = rows] /\ t \in Table /\ rows \in Seq(Row)
    BY <1>6, <1>7, <2>1 DEF Stores
  <2> QED BY <1>1, <2>2 DEF State
<1>9. v # None
  BY SizeFacts
<1>10. Marked(w.t, w.ram)
  <2>1. \A j \in Indices : w.t.index_initialized[j] <=> new[j] # None
    BY <1>2, <1>4, <1>7, <1>9
  <2> QED BY <1>2, <1>6, <1>7, <2>1 DEF Marked
<1>11. CellsOf(w.t, w.ram) = new
  BY <1>6, <1>7 DEF CellsOf
<1>12. Serves(b, w)
  <2>1. Len(b.ram) \in Nat
    BY <1>1
  <2> QED BY <1>6, <1>7, <1>8, <1>10, <2>1 DEF Serves, Sound, OwnId
<1> QED BY <1>3, <1>11, <1>12 DEF new

\* A write fails for an index beyond the end and, at a witness index, for a table not full;
\* otherwise it changes the cell.
LEMMA WriteEffect ==
    ASSUME NEW m, Sound(m), NEW index, index.is_constant \in BOOLEAN, NEW v \in Elements,
           NEW w, w = WriteTable(m, index, v),
           NEW cells, cells = CellsOf(m.t, m.ram)
    PROVE  /\ w.failed \in BOOLEAN
           /\ w.failed <=> (m.failed \/ index.value \notin Indices \/ (~ index.is_constant /\ ~ Full(cells)))
           /\ ~ w.failed => Serves(m, w) /\ CellsOf(w.t, w.ram) = [cells EXCEPT ![index.value] = v]
<1> DEFINE i == index.value
           const == index.is_constant
<1>1. PICK f : f = Failure(m, i \notin Indices)
  OBVIOUS
<1>2. PICK a : a = InitializeTable(f)
  OBVIOUS
<1>3. PICK b : b = Failure(a, ~ const /\ ~ check_indices_initialized(a.t))
  OBVIOUS
<1>4. w = IF const /\ i \in Indices /\ ~ b.t.index_initialized[i]
          THEN [InitElement(b, b.t.ram_id, i, v) EXCEPT !.t.index_initialized[i] = TRUE]
          ELSE WriteElement(b, b.t.ram_id, i, v)
  BY <1>1, <1>2, <1>3 DEF WriteTable
<1> HIDE DEF i, const
<1>5. /\ Sound(f)
      /\ f.failed <=> (m.failed \/ i \notin Indices)
      /\ f.t = m.t /\ f.ram = m.ram /\ f.refused = m.refused
  BY <1>1, FailureEffect, ZenonT(60)
<1>6. Serves(f, a) /\ CellsOf(a.t, a.ram) = cells
  BY <1>2, <1>5, InitializeEffect
<1>7. Sound(a) /\ a.t.generated /\ a.failed = f.failed
  BY <1>6 DEF Serves
<1>8. check_indices_initialized(a.t) <=> Full(cells)
  BY <1>6, <1>7, CellsAre
<1>9. /\ Sound(b)
      /\ b.failed <=> (a.failed \/ (~ const /\ ~ Full(cells)))
      /\ b.t = a.t /\ b.ram = a.ram /\ b.refused = a.refused
  <2>1. PICK d \in BOOLEAN : d = (~ const /\ ~ check_indices_initialized(a.t))
    BY DEF check_indices_initialized
  <2>2. b = Failure(a, d)
    BY <1>3, <2>1
  <2>3. d <=> (~ const /\ ~ Full(cells))
    BY <1>8, <2>1
  <2>4. Sound(b) /\ b.t = a.t /\ b.ram = a.ram /\ b.refused = a.refused
    BY <1>7, <2>2, FailureEffect
  <2>5. b.failed <=> (a.failed \/ d)
    BY <1>7, <2>2, FailureEffect
  <2> QED BY <2>3, <2>4, <2>5
<1>10. b \in State /\ b.failed \in BOOLEAN /\ b.refused \in BOOLEAN /\ b.t \in Table /\ b.ram \in Seq(Row)
  BY <1>9 DEF Sound, State
<1>11. const \in BOOLEAN /\ m.failed \in BOOLEAN /\ f.failed \in BOOLEAN
  BY <1>5 DEF Sound, State, const
<1>12. w.failed = b.failed
  <2>1. CASE const /\ i \in Indices /\ ~ b.t.index_initialized[i]
    BY <1>4, <1>10, <2>1 DEF InitElement, Asserted, State
  <2>2. CASE ~ (const /\ i \in Indices /\ ~ b.t.index_initialized[i])
    BY <1>4, <1>10, <2>2 DEF WriteElement, Asserted, State
  <2> QED BY <2>1, <2>2
<1>13. w.failed <=> (m.failed \/ i \notin Indices \/ (~ const /\ ~ Full(cells)))
  BY <1>5, <1>7, <1>9, <1>10, <1>11, <1>12
<1>14. ASSUME ~ w.failed
       PROVE  Serves(m, w) /\ CellsOf(w.t, w.ram) = [cells EXCEPT ![i] = v]
  <2> DEFINE id == b.t.ram_id
  <2>1. i \in Indices /\ (const \/ Full(cells)) /\ f.failed = m.failed
    BY <1>5, <1>11, <1>13, <1>14
  <2>2. b.ram[id] = cells /\ cells \in Row /\ id \in 1 .. Len(b.ram)
    BY <1>6, <1>7, <1>9, CellsAre DEF Sound, Marked
  <2>3. b.t.index_initialized[i] <=> cells[i] # None
    BY <1>7, <1>9, <2>1, <2>2 DEF Sound, Marked
  <2>4. b.t.index_initialized \in [Indices -> BOOLEAN]
    BY <1>10 DEF Table
  <2>5. Stores(b, i, v, w)
    <3>1. CASE const /\ ~ b.t.index_initialized[i]
      <4>1. b.ram[id][i] = None
        BY <2>2, <2>3, <3>1
      <4>2. PICK g : g = Asserted(b, b.ram[id][i] = None)
        OBVIOUS
      <4>3. g = b
        BY <1>10, <4>1, <4>2 DEF Asserted, State
      <4>4. PICK h : h = InitElement(b, id, i, v)
        OBVIOUS
      <4>5. h = [b EXCEPT !.ram[id][i] = v]
        <5>1. h = [Asserted(b, b.ram[id][i] = None) EXCEPT !.ram[id][i] = v]
          BY <4>4, Zenon DEF InitElement
        <5>2. h = [g EXCEPT !.ram[id][i] = v]
          BY <4>2, <5>1, Zenon
        <5> QED BY <4>3, <5>2
      <4>6. h \in [t : {b.t}, ram : {h.ram}, refused : {b.refused}, failed : {b.failed}, value : {b.value}]
            /\ h.ram = [b.ram EXCEPT ![id] = [@ EXCEPT ![i] = v]]
        BY <1>10, <4>5 DEF State
      <4>7. w = [h EXCEPT !.t.index_initialized[i] = TRUE]
        BY <1>4, <2>1, <3>1, <4>4
      <4>8. /\ w.t = [b.t EXCEPT !.index_initialized = [@ EXCEPT ![i] = TRUE]]
            /\ w.ram = h.ram /\ w.refused = b.refused /\ w.failed = b.failed /\ w.value = b.value
        BY <4>6, <4>7
      <4>9. w = [b EXCEPT !.t = w.t, !.ram = w.ram]
        BY <1>10, <4>6, <4>7, <4>8 DEF State
      <4> QED BY <4>6, <4>8, <4>9 DEF Stores
    <3>2. CASE b.t.index_initialized[i]
      <4>1. CanReach(b, id, i)
        BY <2>1, <2>2, <2>3, <3>2 DEF CanReach
      <4>2. w = [b EXCEPT !.ram[id][i] = v]
        BY <1>4, <3>2, <4>1 DEF WriteElement
      <4>3. b.t = [b.t EXCEPT !.index_initialized = [@ EXCEPT ![i] = TRUE]]
        <5>1. b.t.index_initialized = [b.t.index_initialized EXCEPT ![i] = TRUE]
          BY <2>1, <2>4, <3>2
        <5> QED BY <1>10, <5>1 DEF Table
      <4> QED BY <1>10, <4>2, <4>3 DEF State, Stores
    <3>3. CASE ~ const /\ ~ b.t.index_initialized[i]
      BY <2>1, <2>3, <3>3 DEF Full
    <3> QED BY <1>11, <2>1, <2>4, <3>1, <3>2, <3>3
  <2>6. b.t.generated /\ cells = CellsOf(b.t, b.ram)
    BY <1>6, <1>7, <1>9
  <2>7. Serves(b, w) /\ CellsOf(w.t, w.ram) = [cells EXCEPT ![i] = v]
    BY <1>9, <1>12, <2>1, <2>5, <2>6, CellStored
  <2>8. Serves(f, b)
    <3>1. b.failed = a.failed
      BY <1>7, <1>9, <1>10, <1>12, <1>14, <1>11
    <3> QED BY <1>6, <1>9, <3>1 DEF Serves
  <2>9. Serves(m, w)
    BY <1>5, <2>1, <2>7, <2>8, ServesTwice, ServesAfterFailure
  <2> QED BY <2>7, <2>9
<1> QED BY <1>10, <1>12, <1>13, <1>14 DEF i, const

-----------------------------------------------------------------------------
(* Two tables in one composer, and the loops of the array. *)

\* No call on a table changes another.
LEMMA OtherTableKept ==
    ASSUME NEW m, Sound(m), NEW w, Serves(m, w), NEW t \in Table, Marked(t, m.ram),
           t.generated /\ m.t.generated => t.ram_id # m.t.ram_id
    PROVE  /\ Marked(t, w.ram) /\ CellsOf(t, w.ram) = CellsOf(t, m.ram)
           /\ t.generated => t.ram_id # w.t.ram_id
<1>1. Len(m.ram) \in Nat /\ Len(w.ram) \in Nat /\ Len(m.ram) <= Len(w.ram)
  BY DEF Sound, State, Serves
<1>2. CASE ~ t.generated
  BY <1>2 DEF Marked, CellsOf
<1>3. CASE t.generated
  <2>1. t.ram_id \in 1 .. Len(m.ram)
    BY <1>3 DEF Marked
  <2>2. t.ram_id # w.t.ram_id
    BY <1>1, <1>3, <2>1 DEF Serves, OwnId
  <2>3. w.ram[t.ram_id] = m.ram[t.ram_id]
    BY <2>1, <2>2 DEF Serves
  <2>4. t.ram_id \in 1 .. Len(w.ram)
    BY <1>1, <2>1
  <2> QED BY <1>3, <2>2, <2>3, <2>4 DEF Marked, CellsOf
<1> QED BY <1>2, <1>3

LEMMA ServesSelf ==
    ASSUME NEW m, Sound(m), m.t.generated
    PROVE  Serves(m, m)
<1>1. Len(m.ram) \in Nat
  BY DEF Sound, State
<1> QED BY <1>1 DEF Serves, OwnId

\* The states of the constructor's loop, one per cell written.
LEMMA EmptyArrayLoop ==
    ASSUME NEW m
    PROVE  \E g : /\ EmptyArrayState(m) = g[Size]
                  /\ g[0] = m
                  /\ \A k \in 0 .. Size - 1 : g[k + 1] = WriteTable(g[k], Constant(k), 0)
<1> DEFINE Loop(g, n) == g = [k \in 0 .. n |-> IF k = 0 THEN m ELSE WriteTable(g[k - 1], Constant(k - 1), 0)]
           S == {n \in Nat : \E g : Loop(g, n)}
<1>1. 0 \in S
  <2>1. PICK g : g = [k \in 0 .. 0 |-> m]
    OBVIOUS
  <2>2. Loop(g, 0)
    BY <2>1
  <2> QED BY <2>2
<1>2. ASSUME NEW n \in Nat, n \in S PROVE n + 1 \in S
  <2>1. PICK g : Loop(g, n)
    BY <1>2
  <2>2. PICK v : v = WriteTable(g[n], Constant(n), 0)
    OBVIOUS
  <2>3. PICK h : h = [k \in 0 .. n + 1 |-> IF k = n + 1 THEN v ELSE g[k]]
    OBVIOUS
  <2>4. ASSUME NEW k \in 0 .. n + 1
        PROVE  h[k] = IF k = 0 THEN m ELSE WriteTable(h[k - 1], Constant(k - 1), 0)
    <3>1. CASE k = n + 1
      <4>1. k - 1 = n /\ k # 0 /\ h[k] = v /\ h[n] = g[n]
        BY <2>3, <3>1
      <4> QED BY <2>2, <4>1
    <3>2. CASE k # n + 1
      <4>1. k \in 0 .. n /\ h[k] = g[k]
        BY <2>3, <3>2
      <4>2. k # 0 => k - 1 \in 0 .. n + 1 /\ k - 1 # n + 1 /\ h[k - 1] = g[k - 1]
        BY <2>3, <4>1
      <4> QED BY <2>1, <4>1, <4>2
    <3> QED BY <3>1, <3>2
  <2>5. h = [k \in 0 .. n + 1 |-> h[k]]
    BY <2>3
  <2>6. Loop(h, n + 1)
    BY <2>4, <2>5
  <2> QED BY <2>6
<1> HIDE DEF S
<1>3. Nat \subseteq S
  BY <1>1, <1>2, InductionOverSet
<1>4. \E g : Loop(g, Size)
  BY <1>3, SizeFacts DEF S
<1>5. PICK g : Loop(g, Size) /\ EmptyArrayState(m) = g[Size]
  <2> DEFINE after == CHOOSE g : Loop(g, Size)
  <2>1. Loop(after, Size)
    BY <1>4
  <2>2. EmptyArrayState(m) = after[Size]
    BY DEF EmptyArrayState
  <2> QED BY <2>1, <2>2
<1>6. ASSUME NEW k \in 0 .. Size - 1 PROVE g[k + 1] = WriteTable(g[k], Constant(k), 0)
  <2>1. k + 1 \in 0 .. Size /\ k + 1 # 0 /\ (k + 1) - 1 = k
    BY SizeFacts
  <2> QED BY <1>5, <2>1
<1>7. g[0] = m
  BY <1>5, SizeFacts
<1> QED BY <1>5, <1>6, <1>7

\* A new array is full of zeroes, whatever tables the composer has.
LEMMA EmptyArrayEffect ==
    ASSUME NEW m, Sound(m), ~ m.failed, ~ m.t.generated, m.t.raw_entries = << >>,
           NEW w, w = EmptyArrayState(m)
    PROVE  Serves(m, w) /\ CellsOf(w.t, w.ram) = [i \in Indices |-> 0]
<1>1. PICK g : /\ w = g[Size] /\ g[0] = m
               /\ \A k \in 0 .. Size - 1 : g[k + 1] = WriteTable(g[k], Constant(k), 0)
  BY EmptyArrayLoop
<1> DEFINE Held(k) == CellsOf(g[k].t, g[k].ram)
           Reached(k) == /\ Sound(g[k]) /\ g[k].failed = FALSE
                         /\ k = 0 => g[k] = m
                         /\ k # 0 => Serves(m, g[k])
                         /\ Held(k) = [i \in Indices |-> IF i < k THEN 0 ELSE None]
           S == {k \in Nat : k <= Size => Reached(k)}
<1>2. 0 \in S
  <2>1. Held(0) = [i \in Indices |-> None]
    BY <1>1 DEF CellsOf
  <2>2. \A i \in Indices : ~ (i < 0)
    BY DEF Indices
  <2>3. m.failed = FALSE
    BY DEF Sound, State
  <2> HIDE DEF Held
  <2>4. Held(0) = [i \in Indices |-> IF i < 0 THEN 0 ELSE None]
    BY <2>1, <2>2
  <2> QED BY <1>1, <2>3, <2>4
<1>3. ASSUME NEW k \in Nat, k \in S PROVE k + 1 \in S
  <2> SUFFICES ASSUME k + 1 <= Size PROVE Reached(k + 1)
    <3> HIDE DEF Reached
    <3> QED OBVIOUS
  <2>1. k \in 0 .. Size - 1 /\ k <= Size /\ k \in Indices
    BY SizeFacts DEF Indices
  <2>2. Reached(k)
    BY <1>3, <2>1
  <2>3. PICK a, b, c : a = g[k] /\ b = g[k + 1] /\ c = Held(k)
    OBVIOUS
  <2>4. PICK index : index = Constant(k)
    OBVIOUS
  <2>5. index.value = k /\ index.is_constant = TRUE /\ b = WriteTable(a, index, 0)
    BY <1>1, <2>1, <2>3, <2>4 DEF Constant
  <2>6. /\ Sound(a) /\ a.failed = FALSE /\ c = CellsOf(a.t, a.ram)
        /\ c = [i \in Indices |-> IF i < k THEN 0 ELSE None]
        /\ k = 0 => a = m
        /\ k # 0 => Serves(m, a)
    BY <2>2, <2>3
  <2> HIDE DEF Held
  <2>7. /\ b.failed \in BOOLEAN
        /\ b.failed <=> (a.failed \/ index.value \notin Indices \/ (~ index.is_constant /\ ~ Full(c)))
        /\ ~ b.failed => Serves(a, b) /\ CellsOf(b.t, b.ram) = [c EXCEPT ![index.value] = 0]
    <3>1. index.is_constant \in BOOLEAN /\ 0 \in Elements
      BY <2>5, SizeFacts
    <3>2. Sound(a) /\ b = WriteTable(a, index, 0) /\ c = CellsOf(a.t, a.ram)
      BY <2>5, <2>6
    <3> QED BY <3>1, <3>2, WriteEffect
  <2>8. b.failed = FALSE /\ Serves(a, b) /\ CellsOf(b.t, b.ram) = [c EXCEPT ![k] = 0]
    BY <2>1, <2>5, <2>6, <2>7
  <2>9. Serves(m, b)
    BY <2>6, <2>8, ServesTwice
  <2>10. \A i \in Indices : i < k + 1 <=> (i < k \/ i = k)
    BY DEF Indices
  <2>11. [c EXCEPT ![k] = 0] = [i \in Indices |-> IF i < k + 1 THEN 0 ELSE None]
    BY <2>6, <2>10
  <2>12. Sound(b) /\ k + 1 # 0
    BY <2>8 DEF Serves
  <2>13. Held(k + 1) = [i \in Indices |-> IF i < k + 1 THEN 0 ELSE None]
    BY <2>3, <2>8, <2>11 DEF Held
  <2> QED BY <2>3, <2>8, <2>9, <2>12, <2>13
<1> HIDE DEF S
<1>4. Size \in S
  BY <1>2, <1>3, SizeFacts, InductionOverSet
<1>5. Reached(Size)
  BY <1>4, SizeFacts DEF S
<1>6. \A i \in Indices : i < Size
  BY SizeFacts DEF Indices
<1>7. Serves(m, w)
  BY <1>1, <1>5, SizeFacts
<1>8. CellsOf(w.t, w.ram) = [i \in Indices |-> IF i < Size THEN 0 ELSE None]
  BY <1>1, <1>5
<1> QED BY <1>6, <1>7, <1>8

\* The value the loop of resize writes to cell i in the state a.
Rewritten(a, i, default, was_below, is_below) ==
    ResizedCell(ReadTable(a, Constant(i)).value, default, was_below[i], is_below[i])

\* The states of that loop.
LEMMA ResizeLoop ==
    ASSUME NEW m, NEW default, NEW was_below, NEW is_below
    PROVE  \E g : /\ ResizedState(m, default, was_below, is_below) = g[Size]
                  /\ g[0] = m
                  /\ \A k \in 0 .. Size - 1 :
                        g[k + 1] = WriteTable(g[k], Constant(k), Rewritten(g[k], k, default, was_below, is_below))
<1> DEFINE New(a, i) == WriteTable(a, Constant(i), Rewritten(a, i, default, was_below, is_below))
           Loop(g, n) == g = [k \in 0 .. n |-> IF k = 0 THEN m ELSE New(g[k - 1], k - 1)]
           S == {n \in Nat : \E g : Loop(g, n)}
<1>1. 0 \in S
  <2>1. PICK g : g = [k \in 0 .. 0 |-> m]
    OBVIOUS
  <2> HIDE DEF New
  <2>2. Loop(g, 0)
    BY <2>1
  <2> QED BY <2>2
<1>2. ASSUME NEW n \in Nat, n \in S PROVE n + 1 \in S
  <2> HIDE DEF New
  <2>1. PICK g : Loop(g, n)
    BY <1>2
  <2>2. PICK v : v = New(g[n], n)
    OBVIOUS
  <2>3. PICK h : h = [k \in 0 .. n + 1 |-> IF k = n + 1 THEN v ELSE g[k]]
    OBVIOUS
  <2>4. ASSUME NEW k \in 0 .. n + 1
        PROVE  h[k] = IF k = 0 THEN m ELSE New(h[k - 1], k - 1)
    <3>1. CASE k = n + 1
      <4>1. k - 1 = n /\ k # 0 /\ h[k] = v /\ h[n] = g[n]
        BY <2>3, <3>1
      <4> QED BY <2>2, <4>1
    <3>2. CASE k # n + 1
      <4>1. k \in 0 .. n /\ h[k] = g[k]
        BY <2>3, <3>2
      <4>2. k # 0 => k - 1 \in 0 .. n + 1 /\ k - 1 # n + 1 /\ h[k - 1] = g[k - 1]
        BY <2>3, <4>1
      <4> QED BY <2>1, <4>1, <4>2
    <3> QED BY <3>1, <3>2
  <2>5. h = [k \in 0 .. n + 1 |-> h[k]]
    BY <2>3
  <2>6. Loop(h, n + 1)
    BY <2>4, <2>5
  <2> QED BY <2>6
<1> HIDE DEF S
<1>3. Nat \subseteq S
  BY <1>1, <1>2, InductionOverSet
<1>4. \E g : Loop(g, Size)
  BY <1>3, SizeFacts DEF S
<1>5. PICK g : Loop(g, Size) /\ ResizedState(m, default, was_below, is_below) = g[Size]
  <2> DEFINE after == CHOOSE g : Loop(g, Size)
  <2>1. Loop(after, Size)
    BY <1>4
  <2>2. ResizedState(m, default, was_below, is_below) = after[Size]
    BY DEF ResizedState, Rewritten
  <2> QED BY <2>1, <2>2
<1>6. ASSUME NEW k \in 0 .. Size - 1 PROVE g[k + 1] = New(g[k], k)
  <2>1. k + 1 \in 0 .. Size /\ k + 1 # 0 /\ (k + 1) - 1 = k
    BY SizeFacts
  <2> HIDE DEF New
  <2> QED BY <1>5, <2>1
<1>7. g[0] = m
  BY <1>5, SizeFacts
<1> QED BY <1>5, <1>6, <1>7

\* resize rewrites the cells, each by its flags, and nothing else.
LEMMA ResizeEffect ==
    ASSUME NEW m, Sound(m), ~ m.failed, m.t.generated, NEW cells, cells = CellsOf(m.t, m.ram), Full(cells),
           NEW default \in Elements, NEW was_below, NEW is_below,
           NEW w, w = ResizedState(m, default, was_below, is_below)
    PROVE  /\ Serves(m, w)
           /\ CellsOf(w.t, w.ram) = [i \in Indices |-> ResizedCell(cells[i], default, was_below[i], is_below[i])]
<1> DEFINE New(i) == ResizedCell(cells[i], default, was_below[i], is_below[i])
<1>1. PICK g : /\ w = g[Size] /\ g[0] = m
               /\ \A k \in 0 .. Size - 1 :
                    g[k + 1] = WriteTable(g[k], Constant(k), Rewritten(g[k], k, default, was_below, is_below))
  BY ResizeLoop
<1>2. m.failed = FALSE /\ cells \in Row
  BY CellsAre DEF Sound, State
<1>3. \A i \in Indices : cells[i] \in Elements
  BY <1>2 DEF Full, Row
<1>4. \A i \in Indices : New(i) \in Elements
  BY <1>3 DEF ResizedCell
<1> DEFINE Held(k) == CellsOf(g[k].t, g[k].ram)
           Reached(k) == /\ Serves(m, g[k])
                         /\ Held(k) = [i \in Indices |-> IF i < k THEN New(i) ELSE cells[i]]
           S == {k \in Nat : k <= Size => Reached(k)}
<1> HIDE DEF New
<1>5. 0 \in S
  <2>1. Held(0) = cells
    BY <1>1
  <2>2. \A i \in Indices : ~ (i < 0)
    BY DEF Indices
  <2>3. cells = [i \in Indices |-> cells[i]]
    BY <1>2 DEF Row
  <2> HIDE DEF Held
  <2>4. Held(0) = [i \in Indices |-> IF i < 0 THEN New(i) ELSE cells[i]]
    BY <2>1, <2>2, <2>3
  <2>5. Serves(m, g[0])
    BY <1>1, ServesSelf
  <2> QED BY <2>4, <2>5
<1>6. ASSUME NEW k \in Nat, k \in S PROVE k + 1 \in S
  <2> SUFFICES ASSUME k + 1 <= Size PROVE Reached(k + 1)
    <3> HIDE DEF Reached
    <3> QED OBVIOUS
  <2>1. k \in 0 .. Size - 1 /\ k <= Size /\ k \in Indices
    BY SizeFacts DEF Indices
  <2>2. Reached(k)
    BY <1>6, <2>1
  <2>3. PICK a, b, c, index, r, v :
            /\ a = g[k] /\ b = g[k + 1] /\ c = Held(k) /\ index = Constant(k)
            /\ r = ReadTable(a, index) /\ v = ResizedCell(r.value, default, was_below[k], is_below[k])
    OBVIOUS
  <2>4. b = WriteTable(a, index, v)
    BY <1>1, <2>1, <2>3 DEF Rewritten
  <2>5. index.value = k /\ index.is_constant = TRUE
    BY <2>3 DEF Constant
  <2>6. Serves(m, a) /\ c = CellsOf(a.t, a.ram) /\ c = [i \in Indices |-> IF i < k THEN New(i) ELSE cells[i]]
    BY <2>2, <2>3
  <2> HIDE DEF Held
  <2>7. Sound(a) /\ a.failed = FALSE /\ Full(c) /\ c[k] = cells[k]
    <3>1. \A i \in Indices : c[i] \in Elements
      BY <1>3, <1>4, <2>6
    <3>2. Full(c)
      BY <3>1, SizeFacts DEF Full
    <3>3. c[k] = cells[k]
      BY <2>1, <2>6
    <3> QED BY <1>2, <2>6, <3>2, <3>3 DEF Serves
  <2>8. r.value = cells[k]
    <3>1. Sound(a) /\ r = ReadTable(a, index) /\ c = CellsOf(a.t, a.ram)
      BY <2>3, <2>6, <2>7
    <3>2. /\ r.failed \in BOOLEAN
          /\ r.failed <=> (a.failed \/ index.value \notin Indices \/ ~ Full(c))
          /\ ~ r.failed => Serves(a, r) /\ CellsOf(r.t, r.ram) = c /\ r.value = c[index.value]
      BY <3>1, ReadEffect
    <3> QED BY <2>1, <2>5, <2>7, <3>2
  <2>9. v = New(k) /\ v \in Elements
    BY <1>4, <2>1, <2>3, <2>8 DEF New
  <2>10. b.failed = FALSE /\ Serves(a, b) /\ CellsOf(b.t, b.ram) = [c EXCEPT ![k] = v]
    <3>1. Sound(a) /\ index.is_constant \in BOOLEAN /\ v \in Elements /\ b = WriteTable(a, index, v)
          /\ c = CellsOf(a.t, a.ram)
      BY <2>4, <2>5, <2>6, <2>7, <2>9
    <3>2. /\ b.failed \in BOOLEAN
          /\ b.failed <=> (a.failed \/ index.value \notin Indices \/ (~ index.is_constant /\ ~ Full(c)))
          /\ ~ b.failed => Serves(a, b) /\ CellsOf(b.t, b.ram) = [c EXCEPT ![index.value] = v]
      BY <3>1, WriteEffect
    <3> QED BY <2>1, <2>5, <2>7, <3>2
  <2>11. Serves(m, b)
    BY <2>6, <2>10, ServesTwice
  <2>12. \A i \in Indices : i < k + 1 <=> (i < k \/ i = k)
    BY DEF Indices
  <2>13. [c EXCEPT ![k] = v] = [i \in Indices |-> IF i < k + 1 THEN New(i) ELSE cells[i]]
    BY <2>6, <2>9, <2>12
  <2>14. Held(k + 1) = [i \in Indices |-> IF i < k + 1 THEN New(i) ELSE cells[i]]
    BY <2>3, <2>10, <2>13 DEF Held
  <2> QED BY <2>3, <2>11, <2>14
<1> HIDE DEF S
<1>7. Size \in S
  BY <1>5, <1>6, SizeFacts, InductionOverSet
<1>8. Reached(Size)
  BY <1>7, SizeFacts DEF S
<1>9. \A i \in Indices : i < Size
  BY SizeFacts DEF Indices
<1>10. Serves(m, w)
  BY <1>1, <1>8
<1>11. CellsOf(w.t, w.ram) = [i \in Indices |-> IF i < Size THEN New(i) ELSE cells[i]]
  BY <1>1, <1>8
<1> QED BY <1>9, <1>10, <1>11 DEF New

-----------------------------------------------------------------------------
(* Lengths and indices as field elements. *)

\* A difference of two small numbers wraps around exactly when it is negative.
LEMMA SmallDifference ==
    ASSUME NEW a \in Nat, NEW b \in Nat, a <= 2 * Size, b <= 2 * Size
    PROVE  a -- b = IF b <= a THEN a - b ELSE a - b + Modulus
<1>1. Size \in Nat /\ Modulus \in Nat /\ Modulus > 4 * Size
  BY SizeFacts
<1>2. CASE b <= a
  <2>1. PICK d \in Nat : d = a - b
    BY <1>2
  <2>2. d < Modulus /\ Modulus > 0
    BY <1>1, <2>1
  <2>3. d % Modulus = d
    BY <1>1, <2>2
  <2> QED BY <1>2, <2>1, <2>3 DEF --
<1>3. CASE a < b
  <2>1. PICK d \in Int : d = a - b
    OBVIOUS
  <2>2. d + Modulus < Modulus /\ d + Modulus > 0 /\ Modulus > 0
    BY <1>1, <1>3, <2>1
  <2>3. d % Modulus = d + Modulus
    BY <1>1, <2>2
  <2> QED BY <1>3, <2>1, <2>3 DEF --
<1> QED BY <1>2, <1>3

LEMMA DifferenceLessOne ==
    ASSUME NEW a \in Nat, NEW b \in Nat, a <= Size + 1, b <= Size + 1
    PROVE  a -- b -- 1 = IF b < a THEN a - b - 1 ELSE a - b - 1 + Modulus
<1>1. Size \in Nat /\ Size > 0 /\ Modulus \in Nat /\ Modulus > 4 * Size
  BY SizeFacts
<1>2. PICK d : d = a -- b
  OBVIOUS
<1>3. d = IF b <= a THEN a - b ELSE a - b + Modulus
  BY <1>1, <1>2, SmallDifference
<1>4. d -- 1 = IF b < a THEN a - b - 1 ELSE a - b - 1 + Modulus
  <2>1. CASE b <= a
    <3>1. d \in Nat /\ d <= 2 * Size /\ d = a - b
      BY <1>1, <1>3, <2>1
    <3>2. d -- 1 = IF 1 <= d THEN d - 1 ELSE d - 1 + Modulus
      BY <1>1, <3>1, SmallDifference
    <3> QED BY <2>1, <3>1, <3>2
  <2>2. CASE a < b
    <3>1. d - 1 \in Nat /\ d - 1 < Modulus /\ d - 1 = a - b - 1 + Modulus
      BY <1>1, <1>3, <2>2
    <3>2. PICK e \in Nat : e = d - 1
      BY <3>1
    <3>3. e % Modulus = e
      BY <1>1, <3>1, <3>2
    <3>4. d -- 1 = e
      BY <3>2, <3>3 DEF --
    <3> QED BY <2>2, <3>1, <3>2, <3>4
  <2> QED BY <2>1, <2>2
<1> QED BY <1>2, <1>4

\* The constraints of resize leave one choice: a flag says whether the index is below the length.
LEMMA FlagsAreForced ==
    ASSUME NEW n \in 0 .. Size, NEW f \in FlagsOf(n)
    PROVE  \A i \in Indices : f[i] <=> i < n
<1> SUFFICES ASSUME NEW i \in Indices PROVE f[i] <=> i < n
  OBVIOUS
<1>1. Size \in Nat /\ Size > 0 /\ Modulus \in Nat /\ Modulus > 4 * Size /\ i \in Nat /\ i < Size
  BY SizeFacts DEF Indices
<1>2. FlagHolds(n, i, f[i]) /\ f[i] \in BOOLEAN
  BY DEF FlagsOf
<1>3. n -- i -- 1 = IF i < n THEN n - i - 1 ELSE n - i - 1 + Modulus
  BY <1>1, DifferenceLessOne
<1>4. i -- n = IF n <= i THEN i - n ELSE i - n + Modulus
  BY <1>1, SmallDifference
<1>5. CASE f[i]
  <2>1. n -- i -- 1 <= Size
    BY <1>2, <1>5 DEF FlagHolds, InRange
  <2> QED BY <1>1, <1>3, <1>5, <2>1
<1>6. CASE ~ f[i]
  <2>1. i -- n <= Size
    BY <1>2, <1>6 DEF FlagHolds, InRange
  <2> QED BY <1>1, <1>4, <1>6, <2>1
<1> QED BY <1>2, <1>5, <1>6

\* A length or an index.
Number == [value : Nat, is_constant : BOOLEAN]

\* The check of an index against the length, in the program or in the circuit, is exact.
LEMMA IndexIsChecked ==
    ASSUME NEW m, Sound(m), NEW length \in Number, length.value <= Size,
           NEW index \in Number, index.value <= Size,
           NEW f, f = CheckIndex(m, length, index)
    PROVE  /\ Sound(f)
           /\ f.failed <=> (m.failed \/ ~ (index.value < length.value))
           /\ f.t = m.t /\ f.ram = m.ram /\ f.refused = m.refused /\ f.value = m.value
<1>1. Size \in Nat /\ Size > 0 /\ Modulus \in Nat /\ Modulus > 4 * Size
  BY SizeFacts
<1>2. length.value \in Nat /\ index.value \in Nat /\ length.is_constant \in BOOLEAN /\ index.is_constant \in BOOLEAN
  BY DEF Number
<1>3. PICK delta : delta = MinusT(MinusT(length, index), Constant(1))
  OBVIOUS
<1>4. delta.value = length.value -- index.value -- 1
  BY <1>3 DEF MinusT, Constant
<1>5. delta.value = IF index.value < length.value THEN length.value - index.value - 1
                    ELSE length.value - index.value - 1 + Modulus
  BY <1>1, <1>2, <1>4, DifferenceLessOne
<1>6. PICK c \in BOOLEAN : c <=> ~ (index.value < length.value)
  OBVIOUS
<1>7. delta.value >= Size <=> c
  BY <1>1, <1>2, <1>5, <1>6
<1>8. ~ InRange(delta.value) <=> c
  BY <1>1, <1>2, <1>5, <1>6 DEF InRange
<1>9. (IF delta.is_constant THEN delta.value >= Size ELSE ~ InRange(delta.value)) = c
  BY <1>7, <1>8 DEF InRange
<1>10. f = Failure(m, c)
  BY <1>3, <1>9 DEF CheckIndex
<1>11. Sound(f) /\ f.t = m.t /\ f.ram = m.ram /\ f.refused = m.refused /\ f.value = m.value
  BY <1>10, FailureEffect
<1>12. f.failed <=> (m.failed \/ c)
  BY <1>10, FailureEffect
<1> QED BY <1>6, <1>11, <1>12

\* So is the bound on a new length, except that a constant length may be one larger.
LEMMA RoomIsChecked ==
    ASSUME NEW new \in Number, new.value <= Size + 1
    PROVE  HasRoom(new) <=> (new.value < Size \/ (new.is_constant /\ new.value = Size))
<1>1. Size \in Nat /\ Size > 0 /\ Modulus \in Nat /\ Modulus > 4 * Size /\ new.value \in Nat /\ new.is_constant \in BOOLEAN
  BY SizeFacts DEF Number
<1>2. Size -- new.value -- 1 = IF new.value < Size THEN Size - new.value - 1 ELSE Size - new.value - 1 + Modulus
  BY <1>1, DifferenceLessOne
<1> QED BY <1>1, <1>2 DEF HasRoom, InRange

LEMMA SmallSum ==
    ASSUME NEW a \in Nat, NEW b \in Nat, a <= Size, b <= Size
    PROVE  a ++ b = a + b
<1>1. Size \in Nat /\ Modulus \in Nat /\ Modulus > 4 * Size
  BY SizeFacts
<1>2. PICK c \in Nat : c = a + b
  OBVIOUS
<1>3. c < Modulus
  BY <1>1, <1>2
<1>4. c % Modulus = c
  BY <1>1, <1>3
<1> QED BY <1>2, <1>4 DEF ++

-----------------------------------------------------------------------------
(***************************************************************************)
(* The invariant.  While nothing has failed, nothing was refused, each of  *)
(* the two tables agrees with its array in the composer, they have         *)
(* different ones, and the array has a value in every cell.                *)
(***************************************************************************)
RamTableSound == ram_tbl # NoTable => ram_tbl \in Table /\ Marked(ram_tbl, ram)

ArraySound ==
    array # NoTable =>
        /\ array.table \in Table /\ array.table.generated /\ Marked(array.table, ram)
        /\ Full(CellsOf(array.table, ram))
        /\ array.length \in Number /\ array.length.value <= Size

TablesApart ==
    ram_tbl # NoTable /\ array # NoTable =>
        (ram_tbl.generated => ram_tbl.ram_id # array.table.ram_id)

TablesInv ==
    /\ failed \in BOOLEAN
    /\ ~ failed => /\ refused = FALSE /\ ram \in Seq(Row)
                   /\ RamTableSound /\ ArraySound /\ TablesApart

\* The list an array stands for.
ListOf(length, cells) == [i \in 1 .. length |-> cells[i - 1]]

\* What the abstract list sees.
Listed == IF failed THEN << >> ELSE Contents

Answered == IF failed THEN None ELSE list_answer

\* What is shown of every step.
ListStep == [List!ListNext]_(List!listVars)

CellsStep ==
    ram_tbl # NoTable /\ ~ failed' =>
        /\ \A i \in Indices :
              TableView'[i] # TableView[i] =>
                  last'.on = "ram" /\ last'.op = "write" /\ last'.x.value = i
        /\ last'.on = "ram" /\ last'.op = "read" => table_answer' = TableView[last'.x.value]

StepIsRight == TablesInv' /\ ListStep /\ CellsStep /\ (failed' <=> ~ Legal(last'))

LEMMA ComposerIsSound ==
    ASSUME TablesInv, ~ failed, NEW t \in Table, Marked(t, ram), NEW m, m = Composer(t)
    PROVE  /\ Sound(m) /\ m.t = t /\ m.ram = ram /\ m.refused = refused
           /\ m.failed = FALSE /\ m.refused = FALSE
<1>1. failed = FALSE /\ refused = FALSE /\ ram \in Seq(Row)
  BY DEF TablesInv
<1>2. m \in State /\ m.t = t /\ m.ram = ram /\ m.refused = refused /\ m.failed = failed
  BY <1>1, SizeFacts DEF Composer, State
<1> QED BY <1>1, <1>2 DEF Sound

LEMMA TablesAreNotNothing ==
    /\ \A t \in Table : t # NoTable
    /\ \A t, n : [table |-> t, length |-> n] # NoTable
<1>1. ASSUME NEW t \in Table PROVE t # NoTable
  BY DEF Table, NoTable
<1>2. ASSUME NEW t, NEW n PROVE [table |-> t, length |-> n] # NoTable
  <2>1. "table" \in DOMAIN [table |-> t, length |-> n]
    OBVIOUS
  <2>2. "table" \notin DOMAIN NoTable
    BY DEF NoTable
  <2> QED BY <2>1, <2>2
<1> QED BY <1>1, <1>2

LEMMA TableViewIs ==
    ASSUME ram_tbl # NoTable
    PROVE  TableView = CellsOf(ram_tbl, ram)
BY DEF TableView, CellsOf, Cells

LEMMA TableViewBecomes ==
    ASSUME NEW t, ram_tbl' = t, NEW rows, ram' = rows, t # NoTable
    PROVE  TableView' = CellsOf(t, rows)
BY DEF TableView, CellsOf, Cells

\* A call on the ram_table that fails, or serves it, keeps the array.
LEMMA RamCallKeeps ==
    ASSUME TablesInv, ~ failed, ram_tbl # NoTable, NEW m, m = Composer(ram_tbl),
           NEW w, w.failed \in BOOLEAN, ~ w.failed => Serves(m, w),
           Effect(w), ram_tbl' = w.t, array' = array, list_answer' = list_answer
    PROVE  TablesInv' /\ ListStep
<1>1. ram_tbl \in Table /\ Marked(ram_tbl, ram)
  BY DEF TablesInv, RamTableSound
<1>2. /\ Sound(m) /\ m.t = ram_tbl /\ m.ram = ram /\ m.failed = FALSE /\ m.refused = FALSE
  BY <1>1, ComposerIsSound
<1>3. ram' = w.ram /\ refused' = w.refused /\ failed' = w.failed
  BY DEF Effect
<1>4. CASE w.failed
  <2>1. failed' = TRUE /\ failed' \in BOOLEAN
    BY <1>3, <1>4
  <2>2. TablesInv'
    BY <2>1 DEF TablesInv
  <2>3. List!Fail
    BY <2>1 DEF List!Fail, List!None, None
  <2>4. List!ListNext
    BY <2>3 DEF List!ListNext
  <2> QED BY <2>2, <2>4 DEF ListStep
<1>5. CASE ~ w.failed
  <2>1. Serves(m, w) /\ failed' = FALSE /\ refused' = FALSE
    BY <1>2, <1>3, <1>5 DEF Serves
  <2>2. Sound(w) /\ w.t \in Table /\ w.ram \in Seq(Row) /\ Marked(w.t, w.ram) /\ w.t.generated
    BY <2>1 DEF Serves, Sound, State
  <2>3. RamTableSound'
    BY <1>3, <2>2 DEF RamTableSound, Marked
  <2>4. array # NoTable => /\ array.table \in Table /\ Marked(array.table, ram) /\ array.table.generated
                           /\ (array.table.generated /\ m.t.generated => array.table.ram_id # m.t.ram_id)
    BY <1>2 DEF TablesInv, ArraySound, TablesApart
  <2>5. array # NoTable => /\ Marked(array.table, w.ram)
                           /\ CellsOf(array.table, w.ram) = CellsOf(array.table, ram)
                           /\ (array.table.generated => array.table.ram_id # w.t.ram_id)
    BY <1>2, <2>1, <2>4, OtherTableKept
  <2>6. ArraySound' /\ TablesApart'
    BY <1>3, <2>4, <2>5 DEF TablesInv, ArraySound, TablesApart, Marked, CellsOf
  <2>7. TablesInv'
    BY <1>3, <2>1, <2>2, <2>3, <2>6 DEF TablesInv
  <2>8. Contents' = Contents
    BY <1>3, <2>4, <2>5 DEF Contents, Cells, CellsOf
  <2>9. UNCHANGED List!listVars
    <3>1. failed' = failed /\ list_answer' = list_answer
      BY <1>2, <1>3, <2>1 DEF TablesInv
    <3> QED BY <2>8, <3>1 DEF List!listVars
  <2> QED BY <2>7, <2>9 DEF ListStep
<1> QED BY <1>4, <1>5

\* A call on the table of the array that ends in the state w with the length n.
ServesArray(m, w, n) ==
    /\ w.failed \in BOOLEAN
    /\ ~ w.failed => Serves(m, w) /\ Full(CellsOf(w.t, w.ram)) /\ n \in Number /\ n.value <= Size

\* What such a call leads to.
ArrayOutcome(w, n, x) ==
    /\ TablesInv' /\ CellsStep /\ failed' = w.failed
    /\ w.failed => ListStep
    /\ ~ w.failed => Contents' = ListOf(n.value, CellsOf(w.t, w.ram)) /\ list_answer' = x

\* A call on the array that fails, or serves it, keeps the ram_table.  The array may be new.
LEMMA ArrayCallKeeps ==
    ASSUME TablesInv, ~ failed, NEW t \in Table, Marked(t, ram),
           ram_tbl # NoTable /\ ram_tbl.generated /\ t.generated => ram_tbl.ram_id # t.ram_id,
           NEW m, m = Composer(t), NEW w, NEW n, NEW x,
           ServesArray(m, w, n), ArrayBecomes(w, n, x), last'.on = "array"
    PROVE  ArrayOutcome(w, n, x)
<1>1. ram_tbl # NoTable => ram_tbl \in Table /\ Marked(ram_tbl, ram)
  BY DEF TablesInv, RamTableSound
<1>2. /\ Sound(m) /\ m.t = t /\ m.ram = ram /\ m.failed = FALSE /\ m.refused = FALSE
  BY ComposerIsSound
<1>3. /\ ram' = w.ram /\ refused' = w.refused /\ failed' = w.failed
      /\ array' = [table |-> w.t, length |-> n] /\ list_answer' = x
      /\ ram_tbl' = ram_tbl
  BY DEF Effect, ArrayBecomes
<1>0. /\ w.failed \in BOOLEAN
      /\ ~ w.failed => Serves(m, w) /\ Full(CellsOf(w.t, w.ram)) /\ n \in Number /\ n.value <= Size
  BY DEF ServesArray
<1>4. CASE w.failed
  <2>1. failed' = TRUE
    BY <1>3, <1>4
  <2>2. TablesInv'
    BY <2>1 DEF TablesInv
  <2>3. List!Fail
    BY <2>1 DEF List!Fail, List!None, None
  <2>4. List!ListNext
    BY <2>3 DEF List!ListNext
  <2>5. CellsStep
    BY <2>1 DEF CellsStep
  <2> QED BY <1>3, <1>4, <2>2, <2>4, <2>5 DEF ListStep, ArrayOutcome
<1>5. CASE ~ w.failed
  <2>1. Serves(m, w) /\ failed' = FALSE /\ refused' = FALSE
    BY <1>0, <1>2, <1>3, <1>5 DEF Serves
  <2>2. Sound(w) /\ w.t \in Table /\ w.ram \in Seq(Row) /\ Marked(w.t, w.ram) /\ w.t.generated
    BY <2>1 DEF Serves, Sound, State
  <2>3. ram_tbl # NoTable => (ram_tbl.generated /\ m.t.generated => ram_tbl.ram_id # m.t.ram_id)
    BY <1>2
  <2>4. ram_tbl # NoTable => /\ Marked(ram_tbl, w.ram)
                             /\ CellsOf(ram_tbl, w.ram) = CellsOf(ram_tbl, ram)
                             /\ (ram_tbl.generated => ram_tbl.ram_id # w.t.ram_id)
    BY <1>1, <1>2, <2>1, <2>3, OtherTableKept
  <2>5. array'.table = w.t /\ array'.length = n
    BY <1>3
  <2>6. RamTableSound'
    BY <1>1, <1>3, <2>4 DEF RamTableSound, Marked
  <2>7. ArraySound'
    BY <1>0, <1>3, <1>5, <2>2, <2>5 DEF ArraySound, Marked, CellsOf
  <2>8. TablesApart'
    BY <1>3, <2>4, <2>5 DEF TablesApart
  <2>9. TablesInv'
    BY <1>3, <2>1, <2>2, <2>6, <2>7, <2>8 DEF TablesInv
  <2>10. ram_tbl # NoTable => TableView' = TableView
    BY <1>3, <2>4, TableViewIs, TableViewBecomes
  <2>11. CellsStep
    BY <2>10 DEF CellsStep
  <2>12. array' # NoTable
    BY <1>3, TablesAreNotNothing
  <2>13. Contents' = ListOf(n.value, CellsOf(w.t, w.ram))
    BY <1>3, <2>2, <2>5, <2>12 DEF Contents, Cells, CellsOf, ListOf
  <2> QED BY <1>3, <1>5, <2>1, <2>9, <2>11, <2>13 DEF ArrayOutcome
<1> QED BY <1>0, <1>4, <1>5

LEMMA ContentsAre ==
    ASSUME TablesInv, ~ failed
    PROVE  /\ array = NoTable => Contents = << >>
           /\ array # NoTable => Contents = ListOf(array.length.value, CellsOf(array.table, ram))
BY DEF Contents, ListOf, Cells, CellsOf, TablesInv, ArraySound

LEMMA ArrayFacts ==
    ASSUME TablesInv, ~ failed, array # NoTable
    PROVE  /\ array.table \in Table /\ Marked(array.table, ram) /\ array.table.generated
           /\ ram_tbl # NoTable /\ ram_tbl.generated /\ array.table.generated => ram_tbl.ram_id # array.table.ram_id
           /\ array.length \in Number /\ array.length.value <= Size /\ array.length.value \in Nat
           /\ CellsOf(array.table, ram) \in [Indices -> Elements] /\ Full(CellsOf(array.table, ram))
<1>1. /\ array.table \in Table /\ Marked(array.table, ram) /\ array.table.generated
      /\ array.length \in Number /\ array.length.value <= Size /\ Full(CellsOf(array.table, ram))
      /\ ram_tbl # NoTable /\ ram_tbl.generated /\ array.table.generated => ram_tbl.ram_id # array.table.ram_id
  BY DEF TablesInv, ArraySound, TablesApart
<1>2. array.length.value \in Nat
  BY <1>1 DEF Number
<1>3. PICK m : m = Composer(array.table)
  OBVIOUS
<1>4. Sound(m) /\ m.t = array.table /\ m.ram = ram
  BY <1>1, <1>3, ComposerIsSound
<1>5. CellsOf(array.table, ram) \in Row
  BY <1>4, CellsAre
<1>6. CellsOf(array.table, ram) \in [Indices -> Elements]
  BY <1>1, <1>5 DEF Row, Full
<1> QED BY <1>1, <1>2, <1>6

LEMMA LengthOfList ==
    ASSUME NEW n \in Nat, n <= Size, NEW cells \in [Indices -> Elements], NEW s, s = ListOf(n, cells)
    PROVE  /\ s \in Seq(Elements) /\ Len(s) = n
           /\ \A i \in 1 .. n : s[i] = cells[i - 1] /\ i - 1 \in Indices
<1>1. \A i \in 1 .. n : i - 1 \in Indices
  BY SizeFacts DEF Indices
<1>2. \A i \in 1 .. n : cells[i - 1] \in Elements
  BY <1>1
<1> QED BY <1>1, <1>2 DEF ListOf

-----------------------------------------------------------------------------
(* One lemma for each call. *)

LEMMA LegalCalls ==
    ASSUME NEW call
    PROVE  /\ call.on = "ram" /\ call.op = "read" => (Legal(call) <=> call.x.value \in Indices /\ Complete)
           /\ call.on = "ram" /\ call.op = "write" =>
                (Legal(call) <=> call.x.value \in Indices /\ (call.x.is_constant \/ Complete))
           /\ call.on = "rom" /\ call.op = "read" => (Legal(call) <=> call.x.value \in Indices)
           /\ call.on = "array" /\ call.op = "push" => (Legal(call) <=> Len(Contents) < Size)
           /\ call.on = "array" /\ call.op = "pop" => (Legal(call) <=> Len(Contents) > 0)
           /\ call.on = "array" /\ call.op \in {"read", "write"} => (Legal(call) <=> call.x.value < Len(Contents))
           /\ call.on = "array" /\ call.op = "resize" =>
                (Legal(call) <=> call.x.value < Size \/ (call.x.is_constant /\ call.x.value = Size))
           /\ call.op = "create" => Legal(call)
BY DEF Legal

LEMMA InitIsSound == TablesInit => TablesInv /\ List!ListInit
<1> SUFFICES ASSUME TablesInit PROVE TablesInv /\ List!ListInit
  OBVIOUS
<1>1. RamTableSound /\ ArraySound /\ TablesApart
  BY DEF TablesInit, RamTableSound, ArraySound, TablesApart
<1>2. failed = FALSE /\ refused = FALSE /\ ram = << >>
  BY DEF TablesInit
<1>3. << >> \in Seq(Row)
  OBVIOUS
<1>4. TablesInv
  BY <1>1, <1>2, <1>3 DEF TablesInv
<1>5. List!ListInit
  BY DEF TablesInit, List!ListInit, List!None, None, Contents
<1> QED BY <1>4, <1>5

LEMMA CreateRamTableIsRight == ASSUME TablesInv, CreateRamTable PROVE StepIsRight
<1>1. PICK raw \in RawEntries \cup {<< >>} : ram_tbl' = NewRamTable(raw)
  BY DEF CreateRamTable
<1>2. /\ failed = FALSE /\ failed' = FALSE /\ refused' = refused /\ ram' = ram /\ array' = array
      /\ list_answer' = list_answer /\ ram_tbl = NoTable
  BY DEF CreateRamTable, TablesInv
<1>3. ram_tbl' \in Table /\ ~ ram_tbl'.generated /\ \A i \in Indices : ~ ram_tbl'.index_initialized[i]
  BY <1>1 DEF NewRamTable, Table
<1>4. RamTableSound' /\ TablesApart'
  BY <1>3 DEF RamTableSound, TablesApart, Marked
<1>5. ArraySound'
  BY <1>2 DEF TablesInv, ArraySound, Marked, CellsOf
<1>6. TablesInv'
  BY <1>2, <1>4, <1>5 DEF TablesInv
<1>7. UNCHANGED List!listVars
  BY <1>2 DEF List!listVars, Contents, Cells
<1>8. CellsStep
  BY <1>2 DEF CellsStep
<1>9. Legal(last')
  <2>1. PICK call : call = last'
    OBVIOUS
  <2>2. call.op = "create"
    BY <2>1 DEF CreateRamTable, Call
  <2> QED BY <2>1, <2>2, LegalCalls
<1> QED BY <1>2, <1>6, <1>7, <1>8, <1>9 DEF StepIsRight, ListStep

LEMMA ReadRamTableIsRight == ASSUME TablesInv, ReadRamTable PROVE StepIsRight
<1>1. PICK index \in IndexArguments :
        /\ ~ failed /\ ram_tbl # NoTable
        /\ LET m == ReadTable(Composer(ram_tbl), index)
           IN  Effect(m) /\ ram_tbl' = m.t /\ table_answer' = m.value
        /\ Call("ram", "read", index)
        /\ UNCHANGED <<rom_tbl, array, list_answer>>
  BY DEF ReadRamTable
<1>2. PICK m, w, cells : m = Composer(ram_tbl) /\ w = ReadTable(m, index) /\ cells = CellsOf(ram_tbl, ram)
  OBVIOUS
<1>3. Effect(w) /\ ram_tbl' = w.t /\ table_answer' = w.value
  BY <1>1, <1>2
<1>4. ram_tbl \in Table /\ Marked(ram_tbl, ram)
  BY <1>1 DEF TablesInv, RamTableSound
<1>5. Sound(m) /\ m.t = ram_tbl /\ m.ram = ram /\ m.failed = FALSE
  BY <1>1, <1>2, <1>4, ComposerIsSound
<1>6. /\ w.failed \in BOOLEAN
      /\ w.failed <=> (m.failed \/ index.value \notin Indices \/ ~ Full(cells))
      /\ ~ w.failed => Serves(m, w) /\ CellsOf(w.t, w.ram) = cells /\ w.value = cells[index.value]
  <2>1. Sound(m) /\ w = ReadTable(m, index) /\ cells = CellsOf(m.t, m.ram)
    BY <1>2, <1>5
  <2> QED BY <2>1, ReadEffect
<1>7. TablesInv' /\ ListStep
  BY <1>1, <1>2, <1>3, <1>6, RamCallKeeps
<1>8. TableView = cells
  BY <1>1, <1>2, TableViewIs
<1>9. last' = [on |-> "ram", op |-> "read", x |-> index]
  BY <1>1 DEF Call
<1>10. failed' <=> ~ Legal(last')
  <2>1. PICK call : call = last' /\ call = [on |-> "ram", op |-> "read", x |-> index]
    BY <1>9
  <2>2. Legal(call) <=> index.value \in Indices /\ Complete
    BY <2>1, LegalCalls
  <2>3. Complete <=> Full(cells)
    BY <1>8 DEF Complete, Full
  <2> QED BY <1>3, <1>5, <1>6, <2>1, <2>2, <2>3 DEF Effect
<1>11. CellsStep
  <2> SUFFICES ASSUME ~ failed'
               PROVE  TableView' = TableView /\ table_answer' = TableView[index.value]
    BY <1>9 DEF CellsStep
  <2>1. ~ w.failed
    BY <1>3 DEF Effect
  <2>2. ram' = w.ram /\ w.t \in Table
    BY <1>3, <1>6, <2>1 DEF Effect, Serves, Sound, State
  <2>3. TableView' = CellsOf(w.t, w.ram)
    BY <1>3, <2>2, TableViewBecomes, TablesAreNotNothing
  <2> QED BY <1>3, <1>6, <1>8, <2>1, <2>3
<1> QED BY <1>7, <1>10, <1>11 DEF StepIsRight

LEMMA ArgumentsAreNumbers ==
    /\ \A index \in IndexArguments : index \in Number /\ index.value \in 0 .. Size
    /\ \A new \in UNION {BothKinds(x) : x \in 0 .. Size + 1} : new \in Number /\ new.value \in 0 .. Size + 1
<1>1. Size \in Nat
  BY SizeFacts
<1>2. ASSUME NEW x \in Nat, NEW y \in BothKinds(x) PROVE y \in Number /\ y.value = x
  <2>1. y = [value |-> x, is_constant |-> TRUE] \/ y = [value |-> x, is_constant |-> FALSE]
    BY DEF BothKinds, Constant, Witness
  <2>2. CASE y = [value |-> x, is_constant |-> TRUE]
    BY <2>2 DEF Number
  <2>3. CASE y = [value |-> x, is_constant |-> FALSE]
    BY <2>3 DEF Number
  <2> QED BY <2>1, <2>2, <2>3
<1>3. ASSUME NEW index \in IndexArguments PROVE index \in Number /\ index.value \in 0 .. Size
  <2>1. PICK x \in 0 .. Size : index \in BothKinds(x)
    BY DEF IndexArguments
  <2> QED BY <1>1, <1>2, <2>1
<1>4. ASSUME NEW new \in UNION {BothKinds(x) : x \in 0 .. Size + 1} PROVE new \in Number /\ new.value \in 0 .. Size + 1
  <2>1. PICK x \in 0 .. Size + 1 : new \in BothKinds(x)
    OBVIOUS
  <2> QED BY <1>1, <1>2, <2>1
<1> QED BY <1>3, <1>4

LEMMA WriteRamTableIsRight == ASSUME TablesInv, WriteRamTable PROVE StepIsRight
<1>1. PICK index \in IndexArguments, value \in Elements :
        /\ ~ failed /\ ram_tbl # NoTable
        /\ LET m == WriteTable(Composer(ram_tbl), index, value)
           IN  Effect(m) /\ ram_tbl' = m.t
        /\ table_answer' = None
        /\ Call("ram", "write", index)
        /\ UNCHANGED <<rom_tbl, array, list_answer>>
  BY DEF WriteRamTable
<1>2. PICK m, w, cells : m = Composer(ram_tbl) /\ w = WriteTable(m, index, value) /\ cells = CellsOf(ram_tbl, ram)
  OBVIOUS
<1>3. Effect(w) /\ ram_tbl' = w.t
  BY <1>1, <1>2
<1>4. ram_tbl \in Table /\ Marked(ram_tbl, ram)
  BY <1>1 DEF TablesInv, RamTableSound
<1>5. Sound(m) /\ m.t = ram_tbl /\ m.ram = ram /\ m.failed = FALSE
  BY <1>1, <1>2, <1>4, ComposerIsSound
<1>6. /\ w.failed \in BOOLEAN
      /\ w.failed <=> (m.failed \/ index.value \notin Indices \/ (~ index.is_constant /\ ~ Full(cells)))
      /\ ~ w.failed => Serves(m, w) /\ CellsOf(w.t, w.ram) = [cells EXCEPT ![index.value] = value]
  <2>1. Sound(m) /\ w = WriteTable(m, index, value) /\ cells = CellsOf(m.t, m.ram)
    BY <1>2, <1>5
  <2>2. index.is_constant \in BOOLEAN
    BY ArgumentsAreNumbers DEF Number
  <2> QED BY <2>1, <2>2, WriteEffect
<1>7. TablesInv' /\ ListStep
  BY <1>1, <1>2, <1>3, <1>6, RamCallKeeps
<1>8. TableView = cells /\ cells \in Row
  BY <1>1, <1>2, <1>5, TableViewIs, CellsAre
<1>9. last' = [on |-> "ram", op |-> "write", x |-> index]
  BY <1>1 DEF Call
<1>10. failed' <=> ~ Legal(last')
  <2>1. PICK call : call = last' /\ call = [on |-> "ram", op |-> "write", x |-> index]
    BY <1>9
  <2>2. Legal(call) <=> index.value \in Indices /\ (index.is_constant \/ Complete)
    BY <2>1, LegalCalls
  <2>3. Complete <=> Full(cells)
    BY <1>8 DEF Complete, Full
  <2> QED BY <1>3, <1>5, <1>6, <2>1, <2>2, <2>3 DEF Effect
<1>11. CellsStep
  <2> SUFFICES ASSUME ~ failed', NEW i \in Indices, i # index.value
               PROVE  TableView'[i] = TableView[i]
    BY <1>9 DEF CellsStep
  <2>1. ~ w.failed
    BY <1>3 DEF Effect
  <2>2. ram' = w.ram /\ w.t \in Table
    BY <1>3, <1>6, <2>1 DEF Effect, Serves, Sound, State
  <2>3. TableView' = CellsOf(w.t, w.ram)
    BY <1>3, <2>2, TableViewBecomes, TablesAreNotNothing
  <2>4. TableView' = [cells EXCEPT ![index.value] = value]
    BY <1>6, <2>1, <2>3
  <2> QED BY <1>8, <2>4 DEF Row
<1> QED BY <1>7, <1>10, <1>11 DEF StepIsRight

\* The calls on the rom_table touch neither the ram_table nor the array.
LEMMA RomCallIsRight ==
    ASSUME TablesInv, ~ failed, ram' = ram, ram_tbl' = ram_tbl, array' = array, list_answer' = list_answer,
           failed' \in BOOLEAN, ~ failed' => refused' = FALSE,
           NEW call, call = last', call.on = "rom", failed' <=> ~ Legal(call)
    PROVE  StepIsRight
<1>1. CASE failed'
  <2>1. failed' = TRUE
    BY <1>1
  <2>2. TablesInv'
    BY <2>1 DEF TablesInv
  <2>3. List!Fail
    BY <2>1 DEF List!Fail, List!None, None
  <2>4. List!ListNext
    BY <2>3 DEF List!ListNext
  <2>5. CellsStep
    BY <2>1 DEF CellsStep
  <2> QED BY <2>2, <2>4, <2>5 DEF ListStep, StepIsRight
<1>2. CASE ~ failed'
  <2>1. failed' = FALSE /\ failed = FALSE /\ refused' = FALSE
    BY <1>2 DEF TablesInv
  <2>2. RamTableSound' /\ ArraySound' /\ TablesApart'
    BY DEF TablesInv, RamTableSound, ArraySound, TablesApart, Marked, CellsOf
  <2>3. TablesInv'
    BY <2>1, <2>2 DEF TablesInv
  <2>4. UNCHANGED List!listVars
    BY <2>1 DEF List!listVars, Contents, Cells
  <2>5. TableView' = TableView
    BY DEF TableView, Cells
  <2>6. CellsStep
    BY <2>5 DEF CellsStep
  <2> QED BY <2>3, <2>4, <2>6 DEF ListStep, StepIsRight
<1> QED BY <1>1, <1>2

LEMMA RomIsRight ==
    ASSUME TablesInv, CreateRomTable \/ ReadRomConstant \/ ReadRomWitness
    PROVE  StepIsRight
<1>1. ~ failed /\ refused = FALSE /\ failed = FALSE
  BY DEF CreateRomTable, ReadRomConstant, ReadRomWitness, TablesInv
<1>2. PICK call : call = last'
  OBVIOUS
<1>3. CASE CreateRomTable
  <2>1. call.on = "rom" /\ call.op = "create"
    BY <1>2, <1>3 DEF CreateRomTable, Call
  <2>2. Legal(call)
    BY <2>1, LegalCalls
  <2> QED BY <1>1, <1>2, <1>3, <2>1, <2>2, RomCallIsRight DEF CreateRomTable
<1>4. CASE ReadRomConstant
  <2>1. PICK i \in 0 .. Size : failed' = (i \notin Indices) /\ Call("rom", "read", Constant(i))
    BY <1>4 DEF ReadRomConstant
  <2>2. call.on = "rom" /\ call.op = "read" /\ call.x.value = i
    BY <1>2, <2>1 DEF Call, Constant
  <2>3. Legal(call) <=> i \in Indices
    BY <2>2, LegalCalls
  <2> QED BY <1>1, <1>2, <1>4, <2>1, <2>2, <2>3, RomCallIsRight DEF ReadRomConstant
<1>5. CASE ReadRomWitness
  <2>1. PICK i \in 0 .. Size : /\ failed' = (i \notin Indices) /\ refused' = (i \notin Indices)
                               /\ Call("rom", "read", Witness(i))
    BY <1>5 DEF ReadRomWitness
  <2>2. call.on = "rom" /\ call.op = "read" /\ call.x.value = i
    BY <1>2, <2>1 DEF Call, Witness
  <2>3. Legal(call) <=> i \in Indices
    BY <2>2, LegalCalls
  <2> QED BY <1>1, <1>2, <1>5, <2>1, <2>2, <2>3, RomCallIsRight DEF ReadRomWitness
<1> QED BY <1>3, <1>4, <1>5

LEMMA CreateArrayIsRight == ASSUME TablesInv, CreateArray PROVE StepIsRight
<1>1. PICK t, m, w : t = NewRamTable(<< >>) /\ m = Composer(t) /\ w = EmptyArrayState(m)
  OBVIOUS
<1>2. /\ ~ failed /\ array = NoTable
      /\ ArrayBecomes(w, Constant(0), list_answer) /\ list_answer' = list_answer
      /\ Call("array", "create", Constant(Size))
  BY <1>1 DEF CreateArray, ArrayBecomes
<1>3. t \in Table /\ t.generated = FALSE /\ t.raw_entries = << >> /\ Marked(t, ram)
  BY <1>1 DEF NewRamTable, Table, Marked
<1>4. Sound(m) /\ m.t = t /\ m.failed = FALSE
  BY <1>1, <1>2, <1>3, ComposerIsSound
<1>5. Serves(m, w) /\ CellsOf(w.t, w.ram) = [i \in Indices |-> 0]
  BY <1>1, <1>3, <1>4, EmptyArrayEffect
<1>6. w.failed = FALSE /\ Full(CellsOf(w.t, w.ram))
  BY <1>4, <1>5 DEF Serves, Full, None
<1>7. Constant(0) \in Number /\ Constant(0).value = 0 /\ 0 <= Size
  BY SizeFacts DEF Constant, Number
<1>8. last' = [on |-> "array", op |-> "create", x |-> Constant(Size)]
  BY <1>2 DEF Call
<1>9. PICK n, x : n = Constant(0) /\ x = list_answer
  OBVIOUS
<1>10. n \in Number /\ n.value = 0 /\ n.value <= Size /\ ArrayBecomes(w, n, x)
  BY <1>2, <1>7, <1>9
<1>11. /\ TablesInv' /\ CellsStep
       /\ failed' = FALSE /\ Contents' = ListOf(n.value, CellsOf(w.t, w.ram)) /\ list_answer' = list_answer
  <2>1. /\ ram_tbl # NoTable /\ ram_tbl.generated /\ t.generated => ram_tbl.ram_id # t.ram_id
        /\ ServesArray(m, w, n)
    BY <1>3, <1>5, <1>6, <1>10 DEF ServesArray
  <2>2. last'.on = "array"
    BY <1>8
  <2>3. ArrayOutcome(w, n, x)
    BY <1>1, <1>2, <1>3, <1>10, <2>1, <2>2, ArrayCallKeeps
  <2> QED BY <1>6, <1>9, <2>3 DEF ArrayOutcome
<1>12. Contents' = << >> /\ Contents = << >>
  BY <1>2, <1>10, <1>11, ContentsAre DEF ListOf
<1>13. ListStep
  <2>1. failed' = failed /\ list_answer' = list_answer
    BY <1>2, <1>11 DEF TablesInv
  <2> QED BY <1>12, <2>1 DEF ListStep, List!listVars
<1>14. Legal(last')
  <2>1. PICK call : call = last' /\ call.op = "create"
    BY <1>8
  <2> QED BY <2>1, LegalCalls
<1> QED BY <1>11, <1>13, <1>14 DEF StepIsRight

\* The state of the array before a call, in rigid names.
ArrayIs(m, length, cells, s) ==
    /\ m = Composer(array.table) /\ length = array.length
    /\ cells = CellsOf(array.table, ram) /\ s = Contents

LEMMA ArrayBefore ==
    ASSUME TablesInv, ArrayExists, NEW m, NEW length, NEW cells, NEW s, ArrayIs(m, length, cells, s)
    PROVE  /\ Sound(m) /\ m.failed = FALSE /\ m.t.generated /\ cells = CellsOf(m.t, m.ram)
           /\ length \in Number /\ length.value \in Nat /\ length.value <= Size
           /\ cells \in [Indices -> Elements] /\ Full(cells)
           /\ s = ListOf(length.value, cells) /\ s \in Seq(Elements) /\ Len(s) = length.value
<1>1. ~ failed /\ array # NoTable
  BY DEF ArrayExists
<1>2. /\ array.table \in Table /\ Marked(array.table, ram) /\ array.table.generated
      /\ length \in Number /\ length.value <= Size /\ length.value \in Nat
      /\ cells \in [Indices -> Elements] /\ Full(cells)
  BY <1>1, ArrayFacts DEF ArrayIs
<1>3. Sound(m) /\ m.failed = FALSE /\ m.t = array.table /\ m.ram = ram
  BY <1>1, <1>2, ComposerIsSound DEF ArrayIs
<1>4. s = ListOf(length.value, cells)
  BY <1>1, ContentsAre DEF ArrayIs
<1>5. s \in Seq(Elements) /\ Len(s) = length.value
  BY <1>2, <1>4, LengthOfList
<1> QED BY <1>2, <1>3, <1>4, <1>5 DEF ArrayIs

\* ArrayCallKeeps for the array that is there.
LEMMA ArrayAfter ==
    ASSUME TablesInv, ArrayExists, NEW m, m = Composer(array.table), NEW w, NEW n, NEW x,
           ServesArray(m, w, n), ArrayBecomes(w, n, x), last'.on = "array"
    PROVE  ArrayOutcome(w, n, x)
<1>1. ~ failed /\ array # NoTable
  BY DEF ArrayExists
<1>2. PICK t : t = array.table
  OBVIOUS
<1>3. /\ t \in Table /\ Marked(t, ram)
      /\ ram_tbl # NoTable /\ ram_tbl.generated /\ t.generated => ram_tbl.ram_id # t.ram_id
  BY <1>1, <1>2, ArrayFacts
<1>4. m = Composer(t)
  BY <1>2
<1> QED BY <1>1, <1>3, <1>4, ArrayCallKeeps

\* A served call that leaves the list new.
LEMMA ListBecomes ==
    ASSUME failed' = FALSE, NEW new, Contents' = new, list_answer' = None
    PROVE  List!Becomes(new)
BY DEF List!Becomes, List!None, None

LEMMA PushIsRight == ASSUME TablesInv, Push PROVE StepIsRight
<1>1. PICK value \in Elements, predicate \in {Constant(1)} \cup {Witness(b) : b \in {0, 1}} :
        /\ ArrayExists
        /\ ArrayBecomes(WriteTable(Failure(Composer(array.table), array.length.value >= Size), array.length, value),
                        PlusT(array.length, predicate), None)
        /\ Call("array", "push", array.length)
  BY DEF Push
<1>2. PICK m, length, cells, s : ArrayIs(m, length, cells, s)
  BY DEF ArrayIs
<1>3. PICK c \in BOOLEAN : c <=> ~ (length.value < Size)
  OBVIOUS
<1>4. PICK f, w, n : /\ f = Failure(m, length.value >= Size)
                    /\ w = WriteTable(f, length, value) /\ n = PlusT(length, predicate)
  OBVIOUS
<1>5. ArrayExists /\ ArrayBecomes(w, n, None)
  BY <1>1, <1>2, <1>4 DEF ArrayIs
<1>6. /\ Sound(m) /\ m.failed = FALSE /\ m.t.generated /\ cells = CellsOf(m.t, m.ram)
      /\ length \in Number /\ length.value \in Nat /\ length.value <= Size
      /\ cells \in [Indices -> Elements] /\ Full(cells)
      /\ s = ListOf(length.value, cells) /\ s \in Seq(Elements) /\ Len(s) = length.value
  BY <1>2, <1>5, ArrayBefore
<1>7. /\ Sound(f) /\ f.t = m.t /\ f.ram = m.ram /\ f.refused = m.refused
      /\ f.failed <=> (m.failed \/ c)
  <2>1. (length.value >= Size) = c
    BY <1>3, <1>6, SizeFacts
  <2>2. f = Failure(m, c)
    BY <1>4, <2>1
  <2> QED BY <1>6, <2>2, FailureEffect
<1>8. /\ w.failed \in BOOLEAN
      /\ w.failed <=> (f.failed \/ length.value \notin Indices \/ (~ length.is_constant /\ ~ Full(cells)))
      /\ ~ w.failed => Serves(f, w) /\ CellsOf(w.t, w.ram) = [cells EXCEPT ![length.value] = value]
  <2>1. Sound(f) /\ w = WriteTable(f, length, value) /\ cells = CellsOf(f.t, f.ram)
    BY <1>4, <1>6, <1>7
  <2>2. length.is_constant \in BOOLEAN
    BY <1>6 DEF Number
  <2> QED BY <2>1, <2>2, WriteEffect
<1>9. w.failed <=> ~ (length.value < Size)
  <2>1. length.value \in Indices <=> length.value < Size
    BY <1>6, SizeFacts DEF Indices
  <2> QED BY <1>3, <1>6, <1>7, <1>8, <2>1
<1>10. PICK p \in {0, 1} : predicate.value = p /\ predicate.is_constant \in BOOLEAN
  <2>1. CASE predicate = Constant(1)
    BY <2>1 DEF Constant
  <2>2. CASE \E b \in {0, 1} : predicate = Witness(b)
    BY <2>2 DEF Witness
  <2> QED BY <2>1, <2>2
<1>11. ASSUME length.value < Size
       PROVE  n \in Number /\ n.value = length.value + p /\ n.value <= Size
  <2>1. length.value ++ p = length.value + p
    BY <1>6, SizeFacts, SmallSum
  <2>2. n = [value |-> length.value + p, is_constant |-> length.is_constant /\ predicate.is_constant]
    BY <1>4, <1>10, <2>1 DEF PlusT
  <2>3. length.value + p \in Nat /\ length.value + p <= Size /\ (length.is_constant /\ predicate.is_constant) \in BOOLEAN
    BY <1>6, <1>11, SizeFacts
  <2> QED BY <2>2, <2>3 DEF Number
<1>12. PICK new : new = CellsOf(w.t, w.ram)
  OBVIOUS
<1>13. ~ w.failed => /\ Serves(m, w) /\ length.value \in Indices
                    /\ new = [cells EXCEPT ![length.value] = value] /\ new \in [Indices -> Elements] /\ Full(new)
  <2> SUFFICES ASSUME ~ w.failed
               PROVE  /\ Serves(m, w) /\ length.value \in Indices
                      /\ new = [cells EXCEPT ![length.value] = value] /\ new \in [Indices -> Elements] /\ Full(new)
    OBVIOUS
  <2>1. f.failed = m.failed /\ length.value \in Indices
    <3>1. f.failed \in BOOLEAN
      BY <1>7 DEF Sound, State
    <3> QED BY <1>6, <1>8, <3>1
  <2>2. Serves(m, w)
    BY <1>6, <1>7, <1>8, <2>1, ServesAfterFailure
  <2>3. new = [cells EXCEPT ![length.value] = value]
    BY <1>8, <1>12
  <2>4. new \in [Indices -> Elements]
    BY <1>6, <2>3
  <2>5. Full(new)
    BY <2>4, SizeFacts DEF Full
  <2> QED BY <2>1, <2>2, <2>3, <2>4, <2>5
<1>14. ServesArray(m, w, n)
  BY <1>8, <1>9, <1>11, <1>12, <1>13 DEF ServesArray
<1>15. last' = [on |-> "array", op |-> "push", x |-> array.length]
  BY <1>1 DEF Call
<1>16. ArrayOutcome(w, n, None)
  <2>1. m = Composer(array.table) /\ last'.on = "array"
    BY <1>2, <1>15 DEF ArrayIs
  <2> QED BY <1>5, <1>14, <2>1, ArrayAfter
<1>17. failed' <=> ~ Legal(last')
  <2>1. PICK call : call = last' /\ call.on = "array" /\ call.op = "push"
    BY <1>15
  <2>2. Legal(call) <=> Len(Contents) < Size
    BY <2>1, LegalCalls
  <2>3. Len(Contents) = length.value
    BY <1>2, <1>6 DEF ArrayIs
  <2> QED BY <1>9, <1>16, <2>1, <2>2, <2>3 DEF ArrayOutcome
<1>18. ListStep
  <2>1. CASE w.failed
    BY <1>16, <2>1 DEF ArrayOutcome
  <2>2. CASE ~ w.failed
    <3>1. length.value < Size /\ failed' = FALSE /\ Contents' = ListOf(n.value, new) /\ list_answer' = None
      BY <1>6, <1>8, <1>9, <1>12, <1>16, <2>2 DEF ArrayOutcome
    <3>2. \A i \in Indices : new[i] = IF i = length.value THEN value ELSE cells[i]
      BY <1>6, <1>13, <2>2
    <3>3. \A i \in 1 .. length.value : s[i] = cells[i - 1] /\ i - 1 \in Indices /\ i - 1 # length.value
      BY <1>6, LengthOfList
    <3>4. s = [i \in 1 .. length.value |-> cells[i - 1]]
      BY <1>6 DEF ListOf
    <3>5. CASE p = 0
      <4>1. ListOf(n.value, new) = s
        <5>1. n.value = length.value
          BY <1>6, <1>11, <3>1, <3>5
        <5>2. \A i \in 1 .. length.value : new[i - 1] = cells[i - 1]
          BY <3>2, <3>3
        <5> QED BY <3>4, <5>1, <5>2 DEF ListOf
      <4>2. List!Becomes(s)
        BY <3>1, <4>1, ListBecomes
      <4>3. List!Keep
        BY <1>2, <1>5, <4>2 DEF List!Keep, ArrayIs, ArrayExists
      <4> QED BY <1>5, <4>3 DEF ListStep, List!ListNext, ArrayExists
    <3>6. CASE p = 1
      <4>1. ListOf(n.value, new) = Append(s, value)
        <5>1. n.value = length.value + 1 /\ (length.value + 1) - 1 = length.value
          BY <1>6, <1>11, <3>1, <3>6
        <5>2. PICK r : r = Append(s, value)
          OBVIOUS
        <5>3. /\ r = [i \in 1 .. length.value + 1 |-> r[i]] /\ r[length.value + 1] = value
              /\ \A i \in 1 .. length.value : r[i] = s[i]
          BY <1>6, <5>2
        <5>4. length.value \in Indices /\ new[length.value] = value
          BY <1>13, <2>2, <3>2
        <5>5. ASSUME NEW i \in 1 .. length.value + 1 PROVE new[i - 1] = r[i]
          <6>1. CASE i = length.value + 1
            BY <5>1, <5>3, <5>4, <6>1
          <6>2. CASE i # length.value + 1
            <7>1. i \in 1 .. length.value
              BY <1>6, <6>2
            <7> QED BY <3>2, <3>3, <5>3, <7>1
          <6> QED BY <6>1, <6>2
        <5>6. ListOf(n.value, new) = [i \in 1 .. length.value + 1 |-> new[i - 1]]
          BY <5>1 DEF ListOf
        <5> QED BY <5>2, <5>3, <5>5, <5>6
      <4>2. PICK r : r = Append(s, value)
        OBVIOUS
      <4>3. List!Becomes(r)
        BY <3>1, <4>1, <4>2, ListBecomes
      <4>4. List!Becomes(Append(Contents, value)) /\ Len(Contents) < Size
        BY <1>2, <1>6, <3>1, <4>2, <4>3 DEF ArrayIs
      <4>5. List!Push
        BY <1>5, <4>4 DEF List!Push, ArrayExists
      <4> QED BY <1>5, <4>5 DEF ListStep, List!ListNext, ArrayExists
    <3> QED BY <3>5, <3>6
  <2> QED BY <1>8, <2>1, <2>2
<1> QED BY <1>16, <1>17, <1>18 DEF StepIsRight, ArrayOutcome

LEMMA PopIsRight == ASSUME TablesInv, Pop PROVE StepIsRight
<1>1. PICK predicate \in {Constant(1)} \cup {Witness(b) : b \in {0, 1}} :
        /\ ArrayExists
        /\ ArrayBecomes(Failure(Composer(array.table), array.length.value = 0), MinusT(array.length, predicate), None)
        /\ Call("array", "pop", array.length)
  BY DEF Pop
<1>2. PICK m, length, cells, s : ArrayIs(m, length, cells, s)
  BY DEF ArrayIs
<1>3. PICK c \in BOOLEAN : c = (length.value = 0)
  OBVIOUS
<1>4. PICK w, n : w = Failure(m, c) /\ n = MinusT(length, predicate)
  OBVIOUS
<1>5. ArrayExists /\ ArrayBecomes(w, n, None)
  BY <1>1, <1>2, <1>3, <1>4 DEF ArrayIs
<1>6. /\ Sound(m) /\ m.failed = FALSE /\ m.t.generated /\ cells = CellsOf(m.t, m.ram)
      /\ length \in Number /\ length.value \in Nat /\ length.value <= Size
      /\ cells \in [Indices -> Elements] /\ Full(cells)
      /\ s = ListOf(length.value, cells) /\ s \in Seq(Elements) /\ Len(s) = length.value
  BY <1>2, <1>5, ArrayBefore
<1>7. /\ Sound(w) /\ w.t = m.t /\ w.ram = m.ram /\ w.refused = m.refused
      /\ w.failed <=> (m.failed \/ c)
  BY <1>4, <1>6, FailureEffect
<1>8. w.failed \in BOOLEAN /\ (w.failed <=> length.value = 0)
  BY <1>3, <1>6, <1>7 DEF Sound, State
<1>9. PICK p \in {0, 1} : predicate.value = p /\ predicate.is_constant \in BOOLEAN
  <2>1. CASE predicate = Constant(1)
    BY <2>1 DEF Constant
  <2>2. CASE \E b \in {0, 1} : predicate = Witness(b)
    BY <2>2 DEF Witness
  <2> QED BY <2>1, <2>2
<1>10. ASSUME length.value # 0
       PROVE  n \in Number /\ n.value = length.value - p /\ n.value <= Size
  <2>1. length.value -- p = length.value - p
    BY <1>6, <1>10, SizeFacts, SmallDifference, SMTT(30)
  <2>2. n = [value |-> length.value - p, is_constant |-> length.is_constant /\ predicate.is_constant]
    BY <1>4, <1>9, <2>1 DEF MinusT
  <2>3. length.value - p \in Nat /\ length.value - p <= Size /\ (length.is_constant /\ predicate.is_constant) \in BOOLEAN
    BY <1>6, <1>10, SizeFacts
  <2> QED BY <2>2, <2>3 DEF Number
<1>11. CellsOf(w.t, w.ram) = cells
  BY <1>6, <1>7
<1>12. ServesArray(m, w, n)
  <2>1. ~ w.failed => Serves(m, w)
    <3>1. Serves(m, m)
      BY <1>6, ServesSelf
    <3> QED BY <1>6, <1>7, <1>8, <3>1 DEF Serves
  <2> QED BY <1>6, <1>8, <1>10, <1>11, <2>1 DEF ServesArray
<1>13. last' = [on |-> "array", op |-> "pop", x |-> array.length]
  BY <1>1 DEF Call
<1>14. ArrayOutcome(w, n, None)
  <2>1. m = Composer(array.table) /\ last'.on = "array"
    BY <1>2, <1>13 DEF ArrayIs
  <2> QED BY <1>5, <1>12, <2>1, ArrayAfter
<1>15. failed' <=> ~ Legal(last')
  <2>1. PICK call : call = last' /\ call.on = "array" /\ call.op = "pop"
    BY <1>13
  <2>2. Legal(call) <=> Len(Contents) > 0
    BY <2>1, LegalCalls
  <2>3. Len(Contents) = length.value
    BY <1>2, <1>6 DEF ArrayIs
  <2> QED BY <1>6, <1>8, <1>14, <2>1, <2>2, <2>3 DEF ArrayOutcome
<1>16. ListStep
  <2>1. CASE w.failed
    BY <1>14, <2>1 DEF ArrayOutcome
  <2>2. CASE ~ w.failed
    <3>1. length.value # 0 /\ failed' = FALSE /\ Contents' = ListOf(n.value, cells) /\ list_answer' = None
      BY <1>8, <1>11, <1>14, <2>2 DEF ArrayOutcome
    <3>2. s = [i \in 1 .. length.value |-> cells[i - 1]]
      BY <1>6 DEF ListOf
    <3>3. CASE p = 0
      <4>1. ListOf(n.value, cells) = s
        <5>1. n.value = length.value
          BY <1>6, <1>10, <3>1, <3>3
        <5> QED BY <3>2, <5>1 DEF ListOf
      <4>2. List!Becomes(s)
        BY <3>1, <4>1, ListBecomes
      <4>3. List!Keep
        BY <1>2, <1>5, <4>2 DEF List!Keep, ArrayIs, ArrayExists
      <4> QED BY <1>5, <4>3 DEF ListStep, List!ListNext, ArrayExists
    <3>4. CASE p = 1
      <4>1. PICK r : r = SubSeq(s, 1, Len(s) - 1)
        OBVIOUS
      <4>2. ListOf(n.value, cells) = r
        <5>1. n.value = length.value - 1 /\ length.value - 1 \in Nat
          BY <1>6, <1>10, <3>1, <3>4
        <5>2. /\ r = [i \in 1 .. length.value - 1 |-> r[i]]
              /\ \A i \in 1 .. length.value - 1 : r[i] = s[i]
          BY <1>6, <4>1, <5>1
        <5>3. \A i \in 1 .. length.value - 1 : i \in 1 .. length.value /\ s[i] = cells[i - 1]
          BY <1>6, <3>2
        <5>4. ListOf(n.value, cells) = [i \in 1 .. length.value - 1 |-> cells[i - 1]]
          BY <5>1 DEF ListOf
        <5> QED BY <5>2, <5>3, <5>4
      <4>3. List!Becomes(r)
        BY <3>1, <4>2, ListBecomes
      <4>4. Contents = s /\ Contents # << >>
        BY <1>2, <1>6, <3>1 DEF ArrayIs
      <4>5. List!Becomes(SubSeq(Contents, 1, Len(Contents) - 1))
        BY <4>1, <4>3, <4>4
      <4>6. List!Pop
        BY <1>5, <4>4, <4>5 DEF List!Pop, ArrayExists
      <4> QED BY <1>5, <4>6 DEF ListStep, List!ListNext, ArrayExists
    <3> QED BY <3>3, <3>4
  <2> QED BY <1>8, <2>1, <2>2
<1> QED BY <1>14, <1>15, <1>16 DEF StepIsRight, ArrayOutcome

LEMMA ReadArrayIsRight == ASSUME TablesInv, ReadArray PROVE StepIsRight
<1>1. PICK index \in IndexArguments :
        /\ ArrayExists
        /\ LET m == ReadTable(CheckIndex(Composer(array.table), array.length, index), index)
           IN  ArrayBecomes(m, array.length, m.value)
        /\ Call("array", "read", index)
  BY DEF ReadArray
<1>2. PICK m, length, cells, s : ArrayIs(m, length, cells, s)
  BY DEF ArrayIs
<1>3. PICK f, w, x : f = CheckIndex(m, length, index) /\ w = ReadTable(f, index) /\ x = w.value
  OBVIOUS
<1>4. ArrayExists /\ ArrayBecomes(w, length, x)
  BY <1>1, <1>2, <1>3 DEF ArrayIs
<1>5. /\ Sound(m) /\ m.failed = FALSE /\ m.t.generated /\ cells = CellsOf(m.t, m.ram)
      /\ length \in Number /\ length.value \in Nat /\ length.value <= Size
      /\ cells \in [Indices -> Elements] /\ Full(cells)
      /\ s = ListOf(length.value, cells) /\ s \in Seq(Elements) /\ Len(s) = length.value
  BY <1>2, <1>4, ArrayBefore
<1>6. index \in Number /\ index.value \in Nat /\ index.value <= Size
  BY ArgumentsAreNumbers, SizeFacts
<1>7. /\ Sound(f) /\ f.t = m.t /\ f.ram = m.ram /\ f.refused = m.refused
      /\ f.failed <=> (m.failed \/ ~ (index.value < length.value))
  BY <1>3, <1>5, <1>6, IndexIsChecked
<1>8. /\ w.failed \in BOOLEAN
      /\ w.failed <=> (f.failed \/ index.value \notin Indices \/ ~ Full(cells))
      /\ ~ w.failed => Serves(f, w) /\ CellsOf(w.t, w.ram) = cells /\ w.value = cells[index.value]
  <2>1. Sound(f) /\ w = ReadTable(f, index) /\ cells = CellsOf(f.t, f.ram)
    BY <1>3, <1>5, <1>7
  <2> QED BY <2>1, ReadEffect
<1>9. w.failed <=> ~ (index.value < length.value)
  <2>1. index.value < length.value => index.value \in Indices
    BY <1>5, <1>6, SizeFacts DEF Indices
  <2> QED BY <1>5, <1>7, <1>8, <2>1
<1>10. ServesArray(m, w, length)
  <2>1. ~ w.failed => Serves(m, w)
    <3>1. ~ w.failed => f.failed = m.failed
      BY <1>5, <1>7, <1>9 DEF Sound, State
    <3> QED BY <1>5, <1>7, <1>8, <3>1, ServesAfterFailure
  <2> QED BY <1>5, <1>8, <2>1 DEF ServesArray
<1>11. last' = [on |-> "array", op |-> "read", x |-> index]
  BY <1>1 DEF Call
<1>12. ArrayOutcome(w, length, x)
  <2>1. m = Composer(array.table) /\ last'.on = "array"
    BY <1>2, <1>11 DEF ArrayIs
  <2> QED BY <1>4, <1>10, <2>1, ArrayAfter
<1>13. failed' <=> ~ Legal(last')
  <2>1. PICK call : call = last' /\ call.on = "array" /\ call.op = "read" /\ call.x = index
    BY <1>11
  <2>2. Legal(call) <=> index.value < Len(Contents)
    BY <2>1, LegalCalls
  <2>3. Len(Contents) = length.value
    BY <1>2, <1>5 DEF ArrayIs
  <2> QED BY <1>9, <1>12, <2>1, <2>2, <2>3 DEF ArrayOutcome
<1>14. ListStep
  <2>1. CASE w.failed
    BY <1>12, <2>1 DEF ArrayOutcome
  <2>2. CASE ~ w.failed
    <3>1. /\ index.value < length.value /\ failed' = FALSE /\ list_answer' = cells[index.value]
          /\ Contents' = s
      BY <1>3, <1>5, <1>8, <1>9, <1>12, <2>2 DEF ArrayOutcome
    <3>2. index.value + 1 \in 1 .. length.value /\ s[index.value + 1] = cells[index.value]
      <4>1. index.value + 1 \in 1 .. length.value /\ (index.value + 1) - 1 = index.value
        BY <1>5, <1>6, <3>1
      <4> QED BY <1>5, <4>1 DEF ListOf
    <3>3. failed = FALSE /\ Contents = s
      BY <1>2, <1>4 DEF ArrayIs, ArrayExists, TablesInv
    <3>4. List!Get
      <4>1. PICK i \in 1 .. Len(s) : list_answer' = s[i]
        BY <1>5, <3>1, <3>2
      <4> QED BY <3>1, <3>3, <4>1 DEF List!Get
    <3> QED BY <3>3, <3>4 DEF ListStep, List!ListNext
  <2> QED BY <1>8, <2>1, <2>2
<1> QED BY <1>12, <1>13, <1>14 DEF StepIsRight, ArrayOutcome

LEMMA WriteArrayIsRight == ASSUME TablesInv, WriteArray PROVE StepIsRight
<1>1. PICK index \in IndexArguments, value \in Elements :
        /\ ArrayExists
        /\ ArrayBecomes(WriteTable(CheckIndex(Composer(array.table), array.length, index), index, value),
                        array.length, None)
        /\ Call("array", "write", index)
  BY DEF WriteArray
<1>2. PICK m, length, cells, s : ArrayIs(m, length, cells, s)
  BY DEF ArrayIs
<1>3. PICK f, w, new : /\ f = CheckIndex(m, length, index) /\ w = WriteTable(f, index, value)
                       /\ new = CellsOf(w.t, w.ram)
  OBVIOUS
<1>4. ArrayExists /\ ArrayBecomes(w, length, None)
  BY <1>1, <1>2, <1>3 DEF ArrayIs
<1>5. /\ Sound(m) /\ m.failed = FALSE /\ m.t.generated /\ cells = CellsOf(m.t, m.ram)
      /\ length \in Number /\ length.value \in Nat /\ length.value <= Size
      /\ cells \in [Indices -> Elements] /\ Full(cells)
      /\ s = ListOf(length.value, cells) /\ s \in Seq(Elements) /\ Len(s) = length.value
  BY <1>2, <1>4, ArrayBefore
<1>6. index \in Number /\ index.value \in Nat /\ index.value <= Size /\ index.is_constant \in BOOLEAN
  BY ArgumentsAreNumbers, SizeFacts DEF Number
<1>7. /\ Sound(f) /\ f.t = m.t /\ f.ram = m.ram /\ f.refused = m.refused
      /\ f.failed <=> (m.failed \/ ~ (index.value < length.value))
  BY <1>3, <1>5, <1>6, IndexIsChecked
<1>8. /\ w.failed \in BOOLEAN
      /\ w.failed <=> (f.failed \/ index.value \notin Indices \/ (~ index.is_constant /\ ~ Full(cells)))
      /\ ~ w.failed => Serves(f, w) /\ CellsOf(w.t, w.ram) = [cells EXCEPT ![index.value] = value]
  <2>1. Sound(f) /\ w = WriteTable(f, index, value) /\ cells = CellsOf(f.t, f.ram)
    BY <1>3, <1>5, <1>7
  <2> QED BY <1>6, <2>1, WriteEffect
<1>9. w.failed <=> ~ (index.value < length.value)
  <2>1. index.value < length.value => index.value \in Indices
    BY <1>5, <1>6, SizeFacts DEF Indices
  <2> QED BY <1>5, <1>7, <1>8, <2>1
<1>10. ~ w.failed => new = [cells EXCEPT ![index.value] = value] /\ Full(new)
  <2>1. [cells EXCEPT ![index.value] = value] \in [Indices -> Elements]
    BY <1>5
  <2> QED BY <1>3, <1>8, <2>1, SizeFacts, ZenonT(60) DEF Full
<1>11. ServesArray(m, w, length)
  <2>1. ~ w.failed => Serves(m, w)
    <3>1. ~ w.failed => f.failed = m.failed
      BY <1>5, <1>7, <1>9 DEF Sound, State
    <3> QED BY <1>5, <1>7, <1>8, <3>1, ServesAfterFailure
  <2> QED BY <1>3, <1>5, <1>8, <1>10, <2>1 DEF ServesArray
<1>12. last' = [on |-> "array", op |-> "write", x |-> index]
  BY <1>1 DEF Call
<1>13. ArrayOutcome(w, length, None)
  <2>1. m = Composer(array.table) /\ last'.on = "array"
    BY <1>2, <1>12 DEF ArrayIs
  <2> QED BY <1>4, <1>11, <2>1, ArrayAfter
<1>14. failed' <=> ~ Legal(last')
  <2>1. PICK call : call = last' /\ call.on = "array" /\ call.op = "write" /\ call.x = index
    BY <1>12
  <2>2. Legal(call) <=> index.value < Len(Contents)
    BY <2>1, LegalCalls
  <2>3. Len(Contents) = length.value
    BY <1>2, <1>5 DEF ArrayIs
  <2> QED BY <1>9, <1>13, <2>1, <2>2, <2>3 DEF ArrayOutcome
<1>15. ListStep
  <2>1. CASE w.failed
    BY <1>13, <2>1 DEF ArrayOutcome
  <2>2. CASE ~ w.failed
    <3>1. /\ index.value < length.value /\ failed' = FALSE /\ list_answer' = None
          /\ Contents' = ListOf(length.value, new)
      BY <1>3, <1>9, <1>13, <2>2 DEF ArrayOutcome
    <3>2. failed = FALSE /\ Contents = s
      BY <1>2, <1>4 DEF ArrayIs, ArrayExists, TablesInv
    <3>3. PICK i : i = index.value + 1
      OBVIOUS
    <3>4. i \in 1 .. Len(s) /\ i - 1 = index.value
      BY <1>5, <1>6, <3>1, <3>3
    <3>5. PICK r : r = [s EXCEPT ![i] = value]
      OBVIOUS
    <3>6. ListOf(length.value, new) = r
      <4>1. s = [j \in 1 .. length.value |-> cells[j - 1]]
        BY <1>5 DEF ListOf
      <4>2. \A j \in 1 .. length.value : j - 1 \in Indices
        BY <1>5, SizeFacts DEF Indices
      <4>3. new = [j \in Indices |-> IF j = index.value THEN value ELSE cells[j]]
        BY <1>5, <1>10, <2>2
      <4>4. \A j \in 1 .. length.value : new[j - 1] = IF j = i THEN value ELSE cells[j - 1]
        BY <1>5, <1>6, <3>3, <3>4, <4>2, <4>3
      <4>5. r = [j \in 1 .. length.value |-> IF j = i THEN value ELSE cells[j - 1]]
        BY <3>5, <4>1
      <4> QED BY <4>4, <4>5 DEF ListOf
    <3>7. List!Becomes(r)
      BY <3>1, <3>6, ListBecomes
    <3>8. List!Put
      BY <3>2, <3>4, <3>5, <3>7 DEF List!Put
    <3> QED BY <3>2, <3>8 DEF ListStep, List!ListNext
  <2> QED BY <1>8, <2>1, <2>2
<1> QED BY <1>13, <1>14, <1>15 DEF StepIsRight, ArrayOutcome

\* After a resize the elements of s below the old length are there, and the others are the default.
IsResized(w, new, s, default) ==
    /\ w.failed = FALSE
    /\ ListOf(new.value, CellsOf(w.t, w.ram)) = [i \in 1 .. new.value |-> IF i <= Len(s) THEN s[i] ELSE default]

\* A resize within the bound is served, and does that.
LEMMA ResizeServes ==
    ASSUME TablesInv, ArrayExists, NEW m, NEW length, NEW cells, NEW s, ArrayIs(m, length, cells, s),
           NEW new \in Number, new.value <= Size, NEW default \in Elements,
           NEW is_below \in FlagsOf(new.value), NEW was_below \in FlagsOf(length.value),
           NEW w, w = ResizedState(m, default, was_below, is_below)
    PROVE  ServesArray(m, w, new) /\ IsResized(w, new, s, default)
<1>1. /\ Sound(m) /\ m.failed = FALSE /\ m.t.generated /\ cells = CellsOf(m.t, m.ram)
      /\ length \in Number /\ length.value \in Nat /\ length.value <= Size
      /\ cells \in [Indices -> Elements] /\ Full(cells)
      /\ s = ListOf(length.value, cells) /\ s \in Seq(Elements) /\ Len(s) = length.value
  BY ArrayBefore
<1>2. PICK after : after = CellsOf(w.t, w.ram)
  OBVIOUS
<1>3. /\ Serves(m, w)
      /\ after = [i \in Indices |-> ResizedCell(cells[i], default, was_below[i], is_below[i])]
  BY <1>1, <1>2, ResizeEffect
<1>4. w.failed = FALSE
  BY <1>1, <1>3 DEF Serves
<1>5. new.value \in Nat /\ new.value \in 0 .. Size /\ length.value \in 0 .. Size
  BY <1>1, SizeFacts DEF Number
<1>6. \A i \in Indices : (is_below[i] <=> i < new.value) /\ (was_below[i] <=> i < length.value)
  BY <1>5, FlagsAreForced
<1>7. \A i \in Indices : after[i] = IF ~ (i < length.value) /\ i < new.value THEN default ELSE cells[i]
  BY <1>3, <1>6 DEF ResizedCell
<1>8. Full(after)
  <2>1. \A i \in Indices : after[i] \in Elements
    BY <1>1, <1>7
  <2> QED BY <2>1, SizeFacts DEF Full
<1>9. ServesArray(m, w, new)
  BY <1>2, <1>3, <1>4, <1>8 DEF ServesArray
<1>10. ListOf(new.value, after) = [i \in 1 .. new.value |-> IF i <= Len(s) THEN s[i] ELSE default]
  <2>1. ASSUME NEW i \in 1 .. new.value PROVE after[i - 1] = IF i <= Len(s) THEN s[i] ELSE default
    <3>1. i - 1 \in Indices /\ i - 1 < new.value
      BY <1>5, SizeFacts DEF Indices
    <3>2. CASE i <= length.value
      <4>1. i \in 1 .. length.value /\ i - 1 < length.value
        BY <1>1, <1>5, <3>2
      <4>2. s[i] = cells[i - 1]
        BY <1>1, <4>1 DEF ListOf
      <4> QED BY <1>1, <1>7, <3>1, <3>2, <4>1, <4>2
    <3>3. CASE ~ (i <= length.value)
      <4>1. ~ (i - 1 < length.value)
        BY <1>1, <1>5, <3>3
      <4> QED BY <1>1, <1>7, <3>1, <3>3, <4>1
    <3> QED BY <3>2, <3>3
  <2> QED BY <2>1 DEF ListOf
<1> QED BY <1>2, <1>4, <1>9, <1>10 DEF IsResized

LEMMA ResizeArrayIsRight == ASSUME TablesInv, ResizeArray PROVE StepIsRight
<1>1. PICK new \in UNION {BothKinds(x) : x \in 0 .. Size + 1}, default \in Elements :
        /\ ArrayExists
        /\ \/ /\ ~ HasRoom(new)
              /\ ArrayBecomes(Failure(Composer(array.table), TRUE), array.length, None)
           \/ /\ HasRoom(new)
              /\ \E is_below \in FlagsOf(new.value), was_below \in FlagsOf(array.length.value) :
                    ArrayBecomes(ResizedState(Composer(array.table), default, was_below, is_below), new, None)
        /\ Call("array", "resize", new)
  BY DEF ResizeArray
<1>2. PICK m, length, cells, s : ArrayIs(m, length, cells, s)
  BY DEF ArrayIs
<1>3. /\ Sound(m) /\ m.failed = FALSE /\ m.t.generated /\ cells = CellsOf(m.t, m.ram)
      /\ length \in Number /\ length.value \in Nat /\ length.value <= Size
      /\ cells \in [Indices -> Elements] /\ Full(cells)
      /\ s = ListOf(length.value, cells) /\ s \in Seq(Elements) /\ Len(s) = length.value
  BY <1>1, <1>2, ArrayBefore
<1>4. new \in Number /\ new.value \in Nat /\ new.value <= Size + 1
  BY ArgumentsAreNumbers, SizeFacts
<1>5. HasRoom(new) <=> (new.value < Size \/ (new.is_constant /\ new.value = Size))
  BY <1>4, RoomIsChecked
<1>6. last' = [on |-> "array", op |-> "resize", x |-> new]
  BY <1>1 DEF Call
<1>7. Legal(last') <=> HasRoom(new)
  <2>1. PICK call : call = last' /\ call.on = "array" /\ call.op = "resize" /\ call.x = new
    BY <1>6
  <2> QED BY <1>5, <2>1, LegalCalls
<1>8. m = Composer(array.table) /\ last'.on = "array"
  BY <1>2, <1>6 DEF ArrayIs
<1>9. CASE ~ HasRoom(new)
  <2>1. PICK w : w = Failure(m, TRUE)
    OBVIOUS
  <2>2. ArrayBecomes(w, length, None)
    BY <1>1, <1>2, <1>9, <2>1 DEF ArrayIs
  <2>3. w.failed = TRUE
    <3>1. Sound(w)
      BY <1>3, <2>1, FailureEffect
    <3>2. w.failed <=> (m.failed \/ TRUE)
      BY <1>3, <2>1, FailureEffect
    <3> QED BY <3>1, <3>2 DEF Sound, State
  <2>4. ServesArray(m, w, length)
    BY <2>3 DEF ServesArray
  <2>5. ArrayOutcome(w, length, None)
    BY <1>1, <1>8, <2>2, <2>4, ArrayAfter
  <2> QED BY <1>7, <1>9, <2>3, <2>5 DEF StepIsRight, ArrayOutcome
<1>10. CASE HasRoom(new)
  <2>1. PICK is_below \in FlagsOf(new.value), was_below \in FlagsOf(length.value) :
            ArrayBecomes(ResizedState(m, default, was_below, is_below), new, None)
    BY <1>1, <1>2, <1>10 DEF ArrayIs
  <2>2. PICK w, after : w = ResizedState(m, default, was_below, is_below) /\ after = ListOf(new.value, CellsOf(w.t, w.ram))
    OBVIOUS
  <2>3. new.value <= Size /\ new.value \in 0 .. Size
    BY <1>4, <1>5, <1>10, SizeFacts
  <2>4. /\ ServesArray(m, w, new) /\ w.failed = FALSE
        /\ after = [i \in 1 .. new.value |-> IF i <= Len(s) THEN s[i] ELSE default]
    <3>1. ArrayExists /\ w = ResizedState(m, default, was_below, is_below)
      BY <1>1, <2>2
    <3>2. ServesArray(m, w, new) /\ IsResized(w, new, s, default)
      BY <1>2, <1>4, <2>3, <3>1, ResizeServes
    <3> QED BY <2>2, <3>2 DEF IsResized
  <2>5. ArrayOutcome(w, new, None)
    BY <1>1, <1>8, <2>1, <2>2, <2>4, ArrayAfter
  <2>6. failed' = FALSE /\ Contents' = after /\ list_answer' = None
    BY <2>2, <2>4, <2>5 DEF ArrayOutcome
  <2>7. failed = FALSE /\ Contents = s
    BY <1>1, <1>2 DEF ArrayIs, ArrayExists, TablesInv
  <2>8. List!Becomes(after)
    BY <2>6, ListBecomes
  <2>9. List!Resize
    BY <2>3, <2>4, <2>7, <2>8 DEF List!Resize
  <2>10. ListStep
    BY <2>7, <2>9 DEF ListStep, List!ListNext
  <2> QED BY <1>7, <1>10, <2>5, <2>6, <2>10 DEF StepIsRight, ArrayOutcome
<1> QED BY <1>9, <1>10

-----------------------------------------------------------------------------
(* Theorems. *)

LEMMA NextIsRight == TablesInv /\ TablesNext => StepIsRight
BY CreateRamTableIsRight, ReadRamTableIsRight, WriteRamTableIsRight, CreateArrayIsRight, PushIsRight, PopIsRight,
   ReadArrayIsRight, WriteArrayIsRight, ResizeArrayIsRight, RomIsRight
   DEF TablesNext, RamNext, RomNext

LEMMA TablesStutter == TablesInv /\ UNCHANGED tableVars => TablesInv' /\ UNCHANGED List!listVars
<1> SUFFICES ASSUME TablesInv, UNCHANGED tableVars PROVE TablesInv' /\ UNCHANGED List!listVars
  OBVIOUS
<1> USE DEF tableVars
<1>1. RamTableSound' <=> RamTableSound
  BY DEF RamTableSound, Marked
<1>2. ArraySound' <=> ArraySound
  BY DEF ArraySound, Marked, CellsOf
<1>3. TablesApart' <=> TablesApart
  BY DEF TablesApart
<1>4. UNCHANGED List!listVars
  BY DEF List!listVars, Contents, Cells
<1> QED BY <1>1, <1>2, <1>3, <1>4 DEF TablesInv

\* Whatever calls a program makes, each table agrees with its own array of the composer until a call fails.
THEOREM TablesInvariant == TablesSpec => []TablesInv
<1>1. TablesInit => TablesInv
  BY InitIsSound
<1>2. TablesInv /\ [TablesNext]_tableVars => TablesInv'
  BY NextIsRight, TablesStutter DEF StepIsRight
<1> QED BY <1>1, <1>2, PTL DEF TablesSpec

\* The composer refuses a call of the classes only if the class reports a failure (ram_table.cpp).
THEOREM RefusedOnlyIfReported == TablesSpec => []RefusalsAreReported
<1>1. TablesInv => RefusalsAreReported
  BY DEF TablesInv, RefusalsAreReported
<1> QED BY <1>1, TablesInvariant, PTL

\* A call fails exactly when the class does not serve it (ram_table.cpp, dynamic_array.cpp).
THEOREM LegalCallsAreServed == TablesSpec => ServesLegalCalls
<1>1. TablesInv /\ [TablesNext]_tableVars => [failed' <=> ~ Legal(last')]_tableVars
  BY NextIsRight DEF StepIsRight
<1> QED BY <1>1, TablesInvariant, PTL DEF TablesSpec, ServesLegalCalls

\* A ram_table keeps its cells, through its own calls and those on the array in the same composer (ram_table.cpp).
THEOREM CellsAreKept == TablesSpec => TableKeepsItsCells
<1>1. TablesInv /\ [TablesNext]_tableVars => [CellsStep]_tableVars
  BY NextIsRight DEF StepIsRight
<1> QED BY <1>1, TablesInvariant, PTL DEF TablesSpec, TableKeepsItsCells, CellsStep

\* A DynamicArray implements a bounded list (dynamic_array.cpp).
THEOREM ArrayImplementsList == TablesSpec => ArrayIsList
<1>1. TablesInit => List!ListInit
  BY InitIsSound
<1>2. TablesInv /\ [TablesNext]_tableVars => [List!ListNext]_(List!listVars)
  BY NextIsRight, TablesStutter DEF StepIsRight, ListStep
<1> QED BY <1>1, <1>2, TablesInvariant, PTL DEF TablesSpec, ArrayIsList, List!ListSpec
=============================================================================
