----------------------------- MODULE MerkleTreeOps -----------------------------
(***************************************************************************)
(* The sparse Merkle tree kept in a store                                  *)
(* (stdlib/merkle_tree/merkle_tree.cpp): a node is found under its hash as *)
(* its two children, or, when its subtree holds a single leaf, as a stump  *)
(* <<value, index within the subtree, TRUE>>; an absent node is an empty   *)
(* subtree.  The operations are functions of the store.                    *)
(***************************************************************************)
EXTENDS MerkleHash, StoreOps

NodeKey(hash)   == <<"node", hash>>
LeafKey(index)  == <<"leaf", index>>
MetaKey         == <<"meta", 0>>

IsStump(data) == Len(data) = 3

put(s, key, left, right)          == AfterPut(s, NodeKey(key), <<left, right>>)
put_stump(s, key, index, value)   == AfterPut(s, NodeKey(key), <<value, index, TRUE>>)
remove(s, key)                    == AfterDel(s, NodeKey(key))

root(s) == IF Has(s, MetaKey) THEN Get(s, MetaKey)[1] ELSE zero_hashes_[Depth]

\* The hashes on the way from value at index up, in an empty tree.
ZeroPath(index, value) ==
    LET current[i \in 0 .. Depth] ==
            IF i = 0 THEN value
            ELSE LET pair == Ordered(index, i - 1, current[i - 1], zero_hashes_[i - 1])
                 IN  hash_pair_native(pair[1], pair[2])
    IN  current

compute_zero_path_hash(height, index, value) == ZeroPath(index, value)[height]

\* The keys the operations come to below the root on the way to index, d layers
\* down: as long as the nodes there have two children.
Way(s, index) ==
    LET key[d \in 0 .. Depth] ==
            IF d = 0 THEN root(s)
            ELSE Get(s, NodeKey(key[d - 1]))[IF BitSet(index, Depth - d) THEN 2 ELSE 1]
    IN  key

-----------------------------------------------------------------------------
(***************************************************************************)
(* update_element.  The operators return [s |-> store after, hash |-> new  *)
(* hash of the subtree].  The recursions of the code, which go down before *)
(* they write, are functions of the height; a call takes what the call     *)
(* below it returned.                                                      *)
(***************************************************************************)
binary_put(s, a_index, a, b, height) ==
    LET pair == Ordered(a_index, height - 1, a, b)
        key  == hash_pair_native(pair[1], pair[2])
    IN  [s |-> put(s, key, pair[1], pair[2]), hash |-> key]

\* The node of two leaves or stumps that differ in their highest bit.
fork(s, value1, index1, value2, index2, height) ==
    IF height = 1
    THEN binary_put(s, keep_n_lsb(index1, 1), value1, value2, height)
    ELSE LET i1 == keep_n_lsb(index1, height - 1)
             i2 == keep_n_lsb(index2, height - 1)
             h1 == compute_zero_path_hash(height - 1, i1, value1)
             h2 == compute_zero_path_hash(height - 1, i2, value2)
         IN  binary_put(put_stump(put_stump(s, h1, i1, value1), h2, i2, value2),
                        index1, h1, h2, height)

fork_stump(s, value1, index1, value2, index2, height, common_height) ==
    LET forked[h \in common_height .. height] ==
            IF h = common_height
            THEN fork(s, value1, index1, value2, index2, h)
            ELSE LET sub == forked[h - 1]
                 IN  binary_put(sub.s, index1, sub.hash, zero_hashes_[h - 1], h)
    IN  forked[height]

\* Mutant: the old node is removed whether or not it changed.
OldNodeGone_Always(old, new) == TRUE

OldNodeGone(old, new) == old # new

update_node(s, data, right, sub) ==
    LET side == IF right THEN 2 ELSE 1
        pair == [data EXCEPT ![side] = sub.hash]
        new  == hash_pair_native(pair[1], pair[2])
        kept == put(sub.s, new, pair[1], pair[2])
    IN  [s |-> IF OldNodeGone(data[side], sub.hash) THEN remove(kept, data[side]) ELSE kept,
         hash |-> new]

update_subtree(s, key, value, index, height, sub) ==
    IF ~Has(s, NodeKey(key)) \/ (IsStump(Get(s, NodeKey(key))) /\ Get(s, NodeKey(key))[2] = index)
    THEN LET new == compute_zero_path_hash(height, index, value)
         IN  [s |-> put_stump(s, new, index, value), hash |-> new]
    ELSE LET data == Get(s, NodeKey(key)) IN
    IF IsStump(data)
    THEN fork_stump(s, data[1], data[2], value, index, height, DifferingBits(data[2], index))
    ELSE update_node(s, data, BitSet(index, height - 1), sub)

update_root(s, value, index) ==
    LET way == Way(s, index)
        updated[h \in 0 .. Depth] ==
            IF h = 0 THEN [s |-> s, hash |-> value]
            ELSE update_subtree(s, way[Depth - h], value, keep_n_lsb(index, h), h, updated[h - 1])
    IN  updated[Depth]

\* Mutant: the metadata is not written.
AfterUpdate_NoMeta(s, index, value) ==
    update_root(AfterPut(s, LeafKey(index), value), value, index).s

AfterUpdate(s, index, value) ==
    LET r == update_root(AfterPut(s, LeafKey(index), value), value, index)
    IN  AfterPut(r.s, MetaKey, <<r.hash, index + 1>>)

-----------------------------------------------------------------------------
(***************************************************************************)
(* get_hash_path: from the root down, until the node is absent or a stump. *)
(***************************************************************************)

\* The path below a stump of height i + 1.
StumpPath(data, i, index) ==
    LET element == data[2]
        current == ZeroPath(element, data[1])
        differing == DifferingBits(element, keep_n_lsb(index, i + 1))
        from    == IF differing < 2 THEN 0 ELSE differing - 1
    IN  [j \in 0 .. i |-> IF j < from THEN <<zero_hashes_[j], zero_hashes_[j]>>
                                      ELSE Ordered(element, j, current[j], zero_hashes_[j])]

PathBelow(s, key, i, index, below) ==
    IF ~Has(s, NodeKey(key)) THEN [j \in 0 .. i |-> <<zero_hashes_[j], zero_hashes_[j]>>]
    ELSE LET data == Get(s, NodeKey(key)) IN
    IF IsStump(data) THEN StumpPath(data, i, index)
    ELSE [j \in 0 .. i |-> IF j = i THEN data ELSE below[j]]

get_hash_path(s, index) ==
    LET way == Way(s, index)
        path[h \in 0 .. Depth] ==
            IF h = 0 THEN << >> ELSE PathBelow(s, way[Depth - h], h - 1, index, path[h - 1])
    IN  path[Depth]
=============================================================================
