----------------------------- MODULE MC_MerkleTree -----------------------------
(* The instances of MerkleTree that TLC checks, on trees of eight leaves. *)
EXTENDS MerkleTree

\* fr(0), which MerkleTree and MemoryTree hash for a leaf that is not there.
NewLeaf == <<0>>

\* Leaves of both halves, neighbours and not; a value that is not 0 is never
\* written at two indices.
DistinctUpdates == {<<i, v>> : i \in {0, 1, 3, 6}, v \in {0}} \cup {<<i, i + 1>> : i \in {0, 1, 3, 6}}
                   \cup {<<0, 9>>, <<1, 10>>}

\* The same values at two indices with the same place in their halves.
EqualUpdates == {0, 4} \X {1, 2}
=============================================================================
