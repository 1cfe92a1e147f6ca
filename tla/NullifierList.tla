----------------------------- MODULE NullifierList -----------------------------
(***************************************************************************)
(* The sorted linked list of nullifiers that NullifierTree and             *)
(* NullifierMemoryTree keep in their leaves                                *)
(* (stdlib/merkle_tree/nullifier_tree): nextIndex and nextValue of a leaf  *)
(* name the leaf with the next larger value, 0 and 0 at the largest.  A    *)
(* value between the two is not in the tree: the non-membership proof.     *)
(***************************************************************************)
EXTENDS Integers

CONSTANTS Nullifiers,   \* the values inserted, as the integers find_closest_leaf compares
          MaxLeaves     \* bound: leaves of the tree

ASSUME NullifierAssumption == Nullifiers \subseteq Nat /\ MaxLeaves \in Nat

VARIABLES size,         \* leaves.size()
          leaves        \* index -> leaf

listVars == <<size, leaves>>

Positions == 0 .. size - 1

nullifier_leaf(value, nextIndex, nextValue) ==
    [value |-> value, nextIndex |-> nextIndex, nextValue |-> nextValue]

Init ==
    /\ size = 1
    /\ leaves = [i \in {0} |-> nullifier_leaf(0, 0, 0)]

-----------------------------------------------------------------------------
(***************************************************************************)
(* find_closest_leaf: the leaf with that value, or else the first of the   *)
(* smallest entries of diff.  A larger leaf enters diff with its value.    *)
(***************************************************************************)
Present(v) == \E i \in Positions : leaves[i].value = v

\* Mutant: the distance, whichever of the two values is the larger.
Diff_Absolute(i, v) == IF leaves[i].value > v THEN leaves[i].value - v ELSE v - leaves[i].value

Diff(i, v) == IF leaves[i].value > v THEN leaves[i].value ELSE v - leaves[i].value

IsClosest(i, v) == \A j \in Positions : \/ Diff(i, v) < Diff(j, v)
                                        \/ Diff(i, v) = Diff(j, v) /\ i <= j

Closest(v) ==
    IF Present(v) THEN CHOOSE i \in Positions : /\ leaves[i].value = v
                                                /\ \A j \in 0 .. i - 1 : leaves[j].value # v
                  ELSE CHOOSE i \in Positions : IsClosest(i, v)

(***************************************************************************)
(* update_element(value), what it does to the leaves.                      *)
(***************************************************************************)

\* Mutant: the closest leaf is relinked before its old links are read.
NewLeaf_Relinked(v) == nullifier_leaf(v, size, v)

\* The new leaf takes over the links of the closest one.
NewLeaf(v) == nullifier_leaf(v, leaves[Closest(v)].nextIndex, leaves[Closest(v)].nextValue)

Relinked(v) == nullifier_leaf(leaves[Closest(v)].value, size, v)

Insert(v) ==
    /\ ~Present(v)
    /\ size < MaxLeaves
    /\ size' = size + 1
    /\ leaves' = [i \in 0 .. size |-> IF i = size THEN NewLeaf(v)
                                      ELSE IF i = Closest(v) THEN Relinked(v) ELSE leaves[i]]

InsertAgain(v) ==
    /\ Present(v)
    /\ UNCHANGED <<size, leaves>>

update_element(v) == Insert(v) \/ InsertAgain(v)

Next == \E v \in Nullifiers : update_element(v)

Spec == Init /\ [][Next]_listVars

-----------------------------------------------------------------------------
TypeOK ==
    /\ size \in Nat \ {0}
    /\ leaves \in [Positions -> [value : Nat, nextIndex : Positions, nextValue : Nat]]

IsLast(i) == leaves[i].nextValue = 0

\* Does leaf i prove that v is not in the tree?
Covers(i, v) == leaves[i].value < v /\ (v < leaves[i].nextValue \/ IsLast(i))

\* The leaf a leaf links to exists and has the value the link says, which is a
\* larger one, unless it is the last.
LinksSound ==
    \A i \in Positions :
        \/ IsLast(i) /\ leaves[i].nextIndex = 0
        \/ /\ leaves[i].nextValue > leaves[i].value
           /\ leaves[leaves[i].nextIndex].value = leaves[i].nextValue

\* No value is at two leaves, and 0 is at the first.
ValuesDistinct ==
    /\ leaves[0].value = 0
    /\ \A i, j \in Positions : leaves[i].value = leaves[j].value => i = j

\* No leaf covers a value that is in the tree: a non-membership proof is never
\* given for a member.
NoFalseNonMembership == \A i, j \in Positions : ~Covers(i, leaves[j].value)

\* Every other value is covered by a leaf: non-membership can always be proved.
NonMembershipProvable == \A v \in Nat : ~Present(v) => \E i \in Positions : Covers(i, v)

\* The same for the values the client uses, which TLC can enumerate.
NonMembersCovered == \A v \in Nullifiers : ~Present(v) => \E i \in Positions : Covers(i, v)

\* The inductive part of the above.
ListInv == TypeOK /\ LinksSound /\ ValuesDistinct /\ NoFalseNonMembership
=============================================================================
