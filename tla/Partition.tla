------------------------------ MODULE Partition ------------------------------
(***************************************************************************)
(* What the copy constraints of a circuit promise: the variables are       *)
(* partitioned into blocks; a new variable is a block of its own, and      *)
(* asserting that two variables are equal unites their blocks.  Blocks are *)
(* never split.                                                            *)
(***************************************************************************)
CONSTANT Elements   \* what may ever be an element

VARIABLES elements, blocks

BlockOf(a) == CHOOSE B \in blocks : a \in B

Init == elements = {} /\ blocks = {}

Add ==
    \E x \in Elements \ elements :
        /\ elements' = elements \cup {x}
        /\ blocks' = blocks \cup {{x}}

Unite(a, b) ==
    /\ blocks' = (blocks \ {BlockOf(a), BlockOf(b)}) \cup {BlockOf(a) \cup BlockOf(b)}
    /\ UNCHANGED elements

Next == Add \/ \E a, b \in elements : Unite(a, b)

Spec == Init /\ [][Next]_<<elements, blocks>>
=============================================================================
