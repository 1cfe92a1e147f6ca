------------------------------- MODULE MerkleTree -------------------------------
(***************************************************************************)
(* A Merkle tree in a MemoryStore under any sequence of updates, while the *)
(* owner of the store commits and rolls back.                              *)
(***************************************************************************)
EXTENDS MerkleTreeOps

CONSTANTS
    Updates,        \* pairs <<index, value>> the client may write
    MaxUpdates,     \* bound: calls of update_element
    MaxCommits      \* bound: calls of commit

ASSUME MerkleAssumption == \A u \in Updates : u[1] \in Indices

VARIABLES
    db,             \* the store
    leaves,         \* history: index -> leaf, as of the last update or rollback
    committed,      \* history: leaves as of the last commit
    updates, commits

treeVars == <<db, leaves, committed, updates, commits>>

EmptyLeaves == [i \in Indices |-> ZeroLeaf]

MerkleInit ==
    /\ db = EmptyStore
    /\ leaves = EmptyLeaves
    /\ committed = EmptyLeaves
    /\ updates = 0
    /\ commits = 0

update_element(index, value) ==
    /\ updates < MaxUpdates
    /\ updates' = updates + 1
    /\ db' = AfterUpdate(db, index, Leaf(value))
    /\ leaves' = [leaves EXCEPT ![index] = Leaf(value)]
    /\ UNCHANGED <<committed, commits>>

Commit ==
    /\ commits < MaxCommits
    /\ commits' = commits + 1
    /\ db' = AfterCommit(db)
    /\ committed' = leaves
    /\ UNCHANGED <<leaves, updates>>

Rollback ==
    /\ db' = AfterRollback(db)
    /\ leaves' = committed
    /\ UNCHANGED <<committed, updates, commits>>

MerkleNext == (\E u \in Updates : update_element(u[1], u[2])) \/ Commit \/ Rollback

MerkleSpec == MerkleInit /\ [][MerkleNext]_treeVars

-----------------------------------------------------------------------------
\* The root read from the store is the root of the tree with those leaves.
RootMatches == root(db) = TreeHash(leaves, Depth)

\* So is every hash path, of written and of unwritten leaves, whichever of the
\* forms absent, stump and node the subtrees on the way have.
PathsMatch ==
    \A i \in Indices : get_hash_path(db, i) = TreePath(leaves, Depth, i)

\* The hash of a tree of height h with the one leaf of a stump.
StumpHash(data, h) ==
    TreeHash([n \in 0 .. PowerOf2[h] - 1 |-> IF n = data[2] THEN data[1] ELSE ZeroLeaf], h)

\* A node found under a hash has that hash, in the working and in the
\* committed view: what commit leaves in place under a key is as good as what
\* it does not write.
Authentic(s) ==
    \A key \in DOMAIN s.store \cup DOMAIN s.puts :
        key[1] = "node" /\ Has(s, key) =>
            LET data == Get(s, key)
            IN  IF IsStump(data)
                THEN \E h \in 1 .. Depth : StumpHash(data, h) = key[2]
                ELSE hash_pair_native(data[1], data[2]) = key[2]

NodesAuthentic == Authentic(db) /\ Authentic(AfterRollback(db))
=============================================================================
