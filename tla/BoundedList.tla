------------------------------ MODULE BoundedList ------------------------------
(***************************************************************************)
(* What stdlib/primitives/memory/dynamic_array.hpp promises: a list that   *)
(* holds at most MaxSize elements.  A call it cannot serve makes it fail,  *)
(* and nothing is promised of a list that failed.                          *)
(***************************************************************************)
EXTENDS Integers, Sequences

CONSTANTS Elements, MaxSize

VARIABLES
    list,
    answer,     \* of the last read, or None
    failed

None == -1

listVars == <<list, answer, failed>>

ListInit == list = << >> /\ answer = None /\ failed = FALSE

Becomes(new) == list' = new /\ answer' = None /\ failed' = FALSE

Fail == failed' = TRUE /\ list' = << >> /\ answer' = None

Push == \E x \in Elements : Len(list) < MaxSize /\ Becomes(Append(list, x))

Pop == list # << >> /\ Becomes(SubSeq(list, 1, Len(list) - 1))

Put == \E i \in 1 .. Len(list), x \in Elements : Becomes([list EXCEPT ![i] = x])

Get == \E i \in 1 .. Len(list) : answer' = list[i] /\ UNCHANGED <<list, failed>>

\* Elements beyond the old end have one value.
Resize ==
    \E n \in 0 .. MaxSize, x \in Elements :
        Becomes([i \in 1 .. n |-> IF i <= Len(list) THEN list[i] ELSE x])

\* A push or pop under a false predicate.
Keep == Becomes(list)

ListNext == ~ failed /\ (Push \/ Pop \/ Put \/ Get \/ Resize \/ Keep \/ Fail)

ListSpec == ListInit /\ [][ListNext]_listVars
=============================================================================
