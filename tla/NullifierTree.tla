----------------------------- MODULE NullifierTree -----------------------------
(***************************************************************************)
(* The two trees over the list of nullifiers: NullifierTree, sparse in a   *)
(* MemoryStore, and NullifierMemoryTree, a dense array.  Both keep the     *)
(* list of NullifierList and hash its leaves; they are driven here with    *)
(* the same values.                                                        *)
(***************************************************************************)
EXTENDS NullifierList

CONSTANTS NoValue, Depth

ASSUME CapacityAssumption == MaxLeaves <= 2 ^ Depth   \* nothing in the code checks it

VARIABLES db,               \* the store of NullifierTree
          hashes_, root_,   \* the array and the root of NullifierMemoryTree
          fresh             \* history: no update_element yet

treeVars == <<listVars, db, hashes_, root_, fresh>>

\* nullifier_leaf::hash
LeafHash(leaf) == <<leaf.value, leaf.nextIndex, leaf.nextValue>>

ZeroLeafHash == LeafHash(nullifier_leaf(0, 0, 0))

Sparse == INSTANCE MerkleTreeOps WITH ZeroLeaf <- ZeroLeafHash
Base   == INSTANCE MerkleTreeOps WITH ZeroLeaf <- <<0>>
Dense  == INSTANCE MemoryTreeOps WITH ZeroLeaf <- ZeroLeafHash

\* The constructor of NullifierTree inserts the zero leaf while the zero hashes
\* are still those of MerkleTree; that of NullifierMemoryTree fills the array.
TreeInit ==
    /\ Init
    /\ db = Base!AfterUpdate(Base!EmptyStore, 0, ZeroLeafHash)
    /\ hashes_ = Dense!EmptyHashes
    /\ root_ = Dense!zero_hashes_[Depth]
    /\ fresh = TRUE

\* First the relinked leaf, then the new one (the same one, for a value that is
\* present).
StoreAfter(old, new) ==
    Sparse!AfterUpdate(Sparse!AfterUpdate(db, old, LeafHash(leaves'[old])), new, LeafHash(leaves'[new]))

\* Mutant: the new leaf is hashed into the array of before the relinking.
DenseAfter_Stale(old, new) ==
    [ hashes |-> Dense!HashesAfter(hashes_, new, LeafHash(leaves'[new])),
      root   |-> Dense!RootAfter(hashes_, new, LeafHash(leaves'[new])) ]

DenseAfter(old, new) ==
    LET relinked == Dense!HashesAfter(hashes_, old, LeafHash(leaves'[old]))
    IN  [ hashes |-> Dense!HashesAfter(relinked, new, LeafHash(leaves'[new])),
          root   |-> Dense!RootAfter(relinked, new, LeafHash(leaves'[new])) ]

Update(v) ==
    /\ update_element(v)
    /\ LET old == Closest(v)
           new == IF Present(v) THEN old ELSE size
       IN  /\ db' = StoreAfter(old, new)
           /\ hashes_' = DenseAfter(old, new).hashes
           /\ root_' = DenseAfter(old, new).root
    /\ fresh' = FALSE

TreeNext == \E v \in Nullifiers : Update(v)

TreeSpec == TreeInit /\ [][TreeNext]_treeVars

-----------------------------------------------------------------------------
TreeLeaves == [i \in 0 .. 2 ^ Depth - 1 |->
                IF i < size THEN LeafHash(leaves[i]) ELSE ZeroLeafHash]

\* Every hash path of either tree, of used and unused leaves, is the path of
\* the list's leaves.
PathsMatchList ==
    \A i \in DOMAIN TreeLeaves :
        LET path == Dense!TreePath(TreeLeaves, Depth, i)
        IN  /\ Sparse!get_hash_path(db, i) = path
            /\ Dense!get_hash_path(hashes_, i) = path

\* From the first update on the roots of the two trees are that of the list.
RootsMatchList ==
    ~fresh => /\ Sparse!root(db) = Dense!TreeHash(TreeLeaves, Depth)
              /\ root_ = Dense!TreeHash(TreeLeaves, Depth)

\* The sibling paths of the dense tree are the siblings of the hash paths.
SiblingPathsMatch ==
    \A i \in DOMAIN TreeLeaves, h \in 0 .. Depth - 1 :
        Dense!get_sibling_path(hashes_, i)[h] =
            LET pair == Dense!TreePath(TreeLeaves, Depth, i)[h]
            IN  IF Dense!BitSet(i, h) THEN pair[1] ELSE pair[2]

\* The path get_new_hash_path predicts, which circuits are given as the witness
\* of an update, is the path of the leaf after the update: of every leaf, with
\* the value of any other.
NewPathIsPathAfter ==
    \A i, j \in DOMAIN TreeLeaves :
        Dense!get_new_hash_path(Dense!get_hash_path(hashes_, i), i, TreeLeaves[j])
        = Dense!get_hash_path(Dense!HashesAfter(hashes_, i, TreeLeaves[j]), i)

(***************************************************************************)
(* Both trees over the nullifiers are the tree of the list: their hash     *)
(* paths, their roots, and what the dense tree says of siblings and of the *)
(* next insertion (nullifier_tree.cpp, nullifier_memory_tree.hpp,          *)
(* memory_tree.cpp).                                                       *)
(***************************************************************************)
TreesMatchList == PathsMatchList /\ RootsMatchList /\ SiblingPathsMatch /\ NewPathIsPathAfter
=============================================================================
