----------------------------- MODULE MemoryTreeOps -----------------------------
(***************************************************************************)
(* The dense Merkle tree of stdlib/merkle_tree/memory_tree.cpp: all the    *)
(* hashes but the root in one array, layer after layer from the leaves up. *)
(* The operations are functions of the array; hash_path.hpp's path update  *)
(* is here too.                                                            *)
(***************************************************************************)
EXTENDS MerkleHash

\* The start of layer i in hashes_.
Offset(i) == PowerOf2[Depth + 1] - PowerOf2[Depth + 1 - i]

HashesSize == 2 * PowerOf2[Depth] - 2

LayerOf(k) == CHOOSE i \in 0 .. Depth - 1 : Offset(i) <= k /\ k < Offset(i + 1)

EmptyHashes == [k \in 0 .. HashesSize - 1 |-> zero_hashes_[LayerOf(k)]]

Sibling(n) == IF n % 2 = 0 THEN n + 1 ELSE n - 1

\* The values current takes in the loop of update_element; the last is the root.
Climb(hashes, index, value) ==
    LET current[i \in 0 .. Depth] ==
            IF i = 0 THEN value
            ELSE LET n == index \div PowerOf2[i - 1]
                     pair == Ordered(n, 0, current[i - 1], hashes[Offset(i - 1) + Sibling(n)])
                 IN  hash_pair_native(pair[1], pair[2])
    IN  current

\* The place of layer i that update_element writes.
Written(i, index) == Offset(i) + index \div PowerOf2[i]

HashesAfter(hashes, index, value) ==
    LET current == Climb(hashes, index, value)
    IN  [k \in DOMAIN hashes |->
            IF k = Written(LayerOf(k), index) THEN current[LayerOf(k)] ELSE hashes[k]]

RootAfter(hashes, index, value) == Climb(hashes, index, value)[Depth]

get_hash_path(hashes, index) ==
    [i \in 0 .. Depth - 1 |->
        LET left == Offset(i) + 2 * (index \div PowerOf2[i + 1]) IN <<hashes[left], hashes[left + 1]>>]

get_sibling_path(hashes, index) ==
    [i \in 0 .. Depth - 1 |-> hashes[Offset(i) + Sibling(index \div PowerOf2[i])]]

\* get_new_hash_path: a path after its leaf has been replaced.
get_new_hash_path(path, index, value) ==
    LET step[i \in 0 .. Depth - 1] ==
            LET current == IF i = 0 THEN value ELSE hash_pair_native(step[i - 1][1], step[i - 1][2])
            IN  IF BitSet(index, i) THEN <<path[i][1], current>> ELSE <<current, path[i][2]>>
    IN  step
=============================================================================
