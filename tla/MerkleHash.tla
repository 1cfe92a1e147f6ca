------------------------------- MODULE MerkleHash -------------------------------
(***************************************************************************)
(* Hashes of binary trees.  A hash is written as the pair it is made of,   *)
(* and a leaf as a sequence of another length: no two hashes collide.      *)
(***************************************************************************)
EXTENDS Integers, Sequences

CONSTANTS
    Depth,      \* depth_
    ZeroLeaf    \* the hash of a leaf that was never written

ASSUME DepthAssumption == Depth \in Nat \ {0}

ASSUME LeafAssumption == Len(ZeroLeaf) # 2      \* a leaf is not taken for a pair

Leaf(v) == <<v>>

\* 1 << n
PowerOf2[n \in 0 .. Depth + 1] == IF n = 0 THEN 1 ELSE 2 * PowerOf2[n - 1]

Indices == 0 .. PowerOf2[Depth] - 1

hash_pair_native(left, right) == <<left, right>>

\* The roots of the empty trees of each height; the last is that of the whole.
zero_hashes_[h \in 0 .. Depth] ==
    IF h = 0 THEN ZeroLeaf
    ELSE LET current == zero_hashes_[h - 1] IN hash_pair_native(current, current)

BitSet(index, i) == (index \div PowerOf2[i]) % 2 = 1

\* Mutant: one bit too many is kept.
keep_n_lsb_OneMore(index, n) == index % PowerOf2[n + 1]

keep_n_lsb(index, n) == index % PowerOf2[n]

\* The bits of a xor b, of two indices, without its leading zeros.
DifferingBits(a, b) ==
    CHOOSE h \in 0 .. Depth : /\ a \div PowerOf2[h] = b \div PowerOf2[h]
                              /\ \A g \in 0 .. h - 1 : a \div PowerOf2[g] # b \div PowerOf2[g]

\* Two children in order, when the first is the one on the way to index.
Ordered(index, i, current, other) == IF BitSet(index, i) THEN <<other, current>> ELSE <<current, other>>

-----------------------------------------------------------------------------
(***************************************************************************)
(* The reference: the tree as a function of its leaves.                    *)
(***************************************************************************)

\* Layer h holds the hashes of the subtrees of height h, from the left.
Layers(leaves, depth) ==
    LET layer[h \in 0 .. depth] ==
            IF h = 0 THEN leaves
            ELSE [n \in 0 .. PowerOf2[depth - h] - 1 |->
                    hash_pair_native(layer[h - 1][2 * n], layer[h - 1][2 * n + 1])]
    IN  layer

TreeHash(leaves, depth) == Layers(leaves, depth)[depth][0]

\* At each height the two siblings above index.
TreePath(leaves, depth, index) ==
    LET layer == Layers(leaves, depth)
        left(i) == 2 * (index \div PowerOf2[i + 1])
    IN  [i \in 0 .. depth - 1 |-> <<layer[i][left(i)], layer[i][left(i) + 1]>>]
=============================================================================
