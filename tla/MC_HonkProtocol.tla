--------------------------- MODULE MC_HonkProtocol ---------------------------
(***************************************************************************)
(* A circuit of the standard composer: the three gates its constructor     *)
(* adds, and x * x = z, x + x = y for an x that may be public, with z      *)
(* copied to y.  Of the values below x = 2 satisfies it.                   *)
(***************************************************************************)
EXTENDS HonkProtocol

Gate(l, r, o, q) == [wires |-> <<l, r, o>>, selectors |-> q]

MC_Circuit(x, y, public_inputs) ==
    [gates |-> << Gate(0, 0, 0, [m |-> 0, l |-> 1, r |-> 0, o |-> 0, c |-> 0]),
                  Gate(1, 0, 0, [m |-> 0, l |-> 1, r |-> 0, o |-> 0, c |-> -1]),
                  Gate(1, 1, 1, [m |-> 1, l |-> 1, r |-> 1, o |-> 1, c |-> -4]),
                  Gate(2, 2, 4, [m |-> 1, l |-> 0, r |-> 0, o |-> -1, c |-> 0]),
                  Gate(2, 2, 3, [m |-> 0, l |-> 1, r |-> 1, o |-> -1, c |-> 0]) >>,
     variables     |-> <<0, 1, x, y, y>>,
     real          |-> <<0, 1, 2, 3, 3>>,
     public_inputs |-> public_inputs]

MC_Circuits == {MC_Circuit(2, 4, <<2>>), MC_Circuit(2, 4, << >>), MC_Circuit(3, 4, <<2>>)}
=============================================================================
