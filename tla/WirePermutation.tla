---------------------------- MODULE WirePermutation ----------------------------
(***************************************************************************)
(* From copy constraints to the permutation of the proving key:            *)
(* compute_wire_copy_cycles and compute_permutation_mapping                *)
(* (proof_system/composer/permutation_helper.hpp) over the circuit that    *)
(* CircuitConstructor builds, and the witness columns of                   *)
(* compute_witness_base (composer_helper_lib.hpp).                         *)
(*                                                                         *)
(* A cell is a pair <<column, row>> of the execution table.  The first     *)
(* rows hold the public inputs, the gates follow, the rest is padding.     *)
(* sigma and id are kept as the integers the Honk encoding gives them.     *)
(***************************************************************************)
EXTENDS CircuitConstructor

CONSTANTS
    ProgramWidth,   \* wires of a gate
    MaxGates,       \* bound: gates in the circuit
    MappedVariables, MappedPublic, MappedTag,
                    \* bounds: the circuits that get gates and a mapping are smaller than those that are built
    CircuitSize,    \* rows of the proving key
    CellValues,     \* field elements a table may hold, in the statements about all tables
    Generalized     \* TRUE when the tags take part (Ultra), FALSE otherwise

ASSUME PermutationAssumption ==
    /\ ProgramWidth \in Nat \ {0, 1}
    /\ MaxGates \in Nat /\ MappedPublic \in Nat
    /\ CircuitSize \in Nat /\ CircuitSize >= MaxGates + MappedPublic
    /\ Generalized \in BOOLEAN
    /\ Values \subseteq CellValues
    /\ 0 \in CellValues     \* the padding of a witness column

VARIABLES
    wires,      \* the gates: a sequence of functions from column to variable index
    mapping     \* the PermutationMapping of the key, or NoKey

NoKey == [sigmas |-> << >>, ids |-> << >>]

permVars == <<vars, wires, mapping>>

Columns == 0 .. ProgramWidth - 1
Cells   == Columns \X (0 .. CircuitSize - 1)

NumPublic == Len(public_inputs)
NumGates  == Len(wires)

-----------------------------------------------------------------------------
(***************************************************************************)
(* compute_wire_copy_cycles: the occupied cells, public rows first (left   *)
(* and right of each), then the gates row by row; a cycle holds those of   *)
(* one real variable.                                                      *)
(***************************************************************************)

\* Mutant: the rows of the gates are not moved below the public inputs.
GateRow_NotShifted(g) == g - 1

GateRow(g) == g - 1 + NumPublic

VariableAt(c) ==
    Real(IF c[2] < NumPublic THEN public_inputs[c[2] + 1] ELSE wires[c[2] - NumPublic + 1][c[1]])

OccupiedCells ==
    [k \in 1 .. 2 * NumPublic |-> <<(k - 1) % 2, (k - 1) \div 2>>]
    \o [k \in 1 .. ProgramWidth * NumGates |->
            <<(k - 1) % ProgramWidth, GateRow((k - 1) \div ProgramWidth + 1)>>]

Occupied == {OccupiedCells[k] : k \in DOMAIN OccupiedCells}

\* The cycle of v: the places of its cells among the occupied ones, walked in their order.
CopyCycle(v) == {k \in DOMAIN OccupiedCells : VariableAt(OccupiedCells[k]) = v}

IsFirst(cycle, k) == \A j \in cycle : k <= j
IsLast(cycle, k)  == \A j \in cycle : j <= k

Leader(cycle) == CHOOSE k \in cycle : IsFirst(cycle, k)

(***************************************************************************)
(* compute_permutation_mapping: every cell points to itself, the cells of  *)
(* a cycle point to their successors, the first and last of a cycle carry  *)
(* the tag and its image under tau, and the left cells of the public rows  *)
(* are cut out of their cycle.                                             *)
(***************************************************************************)
Entry(c, public, tag) == [row |-> c[2], col |-> c[1], is_public_input |-> public, is_tag |-> tag]

Successor(cycle, k) ==
    IF IsLast(cycle, k) THEN Leader(cycle) ELSE Leader({j \in cycle : j > k})

\* What the walk over the cycle of v writes at the cell of place k.
CycleSigma(v, k) ==
    LET entry == Entry(OccupiedCells[Successor(CopyCycle(v), k)], FALSE, FALSE)
    IN  IF Generalized /\ IsLast(CopyCycle(v), k)
        THEN [entry EXCEPT !.is_tag = TRUE, !.row = tau[real_variable_tags[v]]]
        ELSE entry

CycleId(v, k) ==
    LET own == Entry(OccupiedCells[k], FALSE, FALSE)
    IN  IF Generalized /\ IsFirst(CopyCycle(v), k)
        THEN [own EXCEPT !.is_tag = TRUE, !.row = real_variable_tags[v]]
        ELSE own

PublicSigma(c, entry) ==
    IF c[1] = 0 /\ c[2] < NumPublic
    THEN [entry EXCEPT !.row = c[2], !.col = 0, !.is_public_input = TRUE]
    ELSE entry

\* The place of an occupied cell.
Place(c) == CHOOSE k \in DOMAIN OccupiedCells : OccupiedCells[k] = c

PermutationMapping ==
    [ sigmas |-> [c \in Cells |-> PublicSigma(c,
                    IF c \in Occupied THEN CycleSigma(VariableAt(c), Place(c))
                                      ELSE Entry(c, FALSE, FALSE))],
      ids    |-> [c \in Cells |-> IF c \in Occupied THEN CycleId(VariableAt(c), Place(c))
                                                    ELSE Entry(c, FALSE, FALSE)] ]

-----------------------------------------------------------------------------
PermInit == Init /\ wires = << >> /\ mapping = NoKey

Building == mapping = NoKey

SmallEnough ==
    num_variables <= MappedVariables /\ NumPublic <= MappedPublic /\ current_tag <= MappedTag

Construct == Building /\ Next /\ (wires # << >> => SmallEnough') /\ UNCHANGED <<wires, mapping>>

\* A gate refers to variables that exist (assert_valid_variables).
CreateGate ==
    /\ Building /\ SmallEnough
    /\ NumGates < MaxGates
    /\ \E w \in [Columns -> Indices] : wires' = Append(wires, w)
    /\ UNCHANGED <<vars, mapping>>

ComputeMapping ==
    /\ Building /\ SmallEnough
    /\ mapping' = PermutationMapping
    /\ UNCHANGED <<vars, wires>>

PermNext == Construct \/ CreateGate \/ ComputeMapping

PermSpec == PermInit /\ [][PermNext]_permVars

-----------------------------------------------------------------------------
(***************************************************************************)
(* The encoding of an entry and the grand product.  Over a large field and *)
(* for random beta and gamma, the product telescopes to the public input   *)
(* delta iff the two bags of pairs <<value, label>> are the same.          *)
(***************************************************************************)

\* Mutant: the labels of tags start inside the labels of the cells.
Label_TagsOverlap(e) ==
    IF e.is_public_input THEN -(e.row + 1 + CircuitSize * e.col)
    ELSE IF e.is_tag THEN CircuitSize + e.row
    ELSE e.row + CircuitSize * e.col

\* compute_honk_style_permutation_lagrange_polynomials_from_mapping
Label(e) ==
    IF e.is_public_input THEN -(e.row + 1 + CircuitSize * e.col)
    ELSE IF e.is_tag THEN CircuitSize * ProgramWidth + e.row
    ELSE e.row + CircuitSize * e.col

\* compute_public_input_delta: the i-th public input x stands on the left with
\* label -(i+1) and on the right with label n+i.
PublicRows == 0 .. NumPublic - 1
DeltaLeft(i)  == -(i + 1)
DeltaRight(i) == CircuitSize + i

\* Does the grand product of table w equal the delta of the public inputs x?
ProductIsDelta(w, x) ==
    LET id     == [c \in Cells |-> Label(mapping.ids[c])]
        sigma  == [c \in Cells |-> Label(mapping.sigmas[c])]
        labels == {id[c] : c \in Cells} \cup {sigma[c] : c \in Cells}
    IN  \A l \in labels :
          LET leftCells  == {c \in Cells : id[c] = l}
              rightCells == {c \in Cells : sigma[c] = l}
              leftX      == {i \in PublicRows : DeltaLeft(i) = l}
              rightX     == {i \in PublicRows : DeltaRight(i) = l}
          IN  \A v \in CellValues :
                Cardinality({c \in leftCells : w[c] = v}) + Cardinality({i \in leftX : x[i] = v})
                = Cardinality({c \in rightCells : w[c] = v}) + Cardinality({i \in rightX : x[i] = v})

-----------------------------------------------------------------------------
(***************************************************************************)
(* What the permutation argument is for.                                   *)
(***************************************************************************)
\* The table gives one value to all the cells of a class.
CopiesHold(w) ==
    LET variable == [c \in Occupied |-> VariableAt(c)]
    IN  \A c, d \in DOMAIN variable : variable[c] = variable[d] => w[c] = w[d]

PublicHold(w, x) == \A i \in PublicRows : w[<<0, i>>] = x[i] /\ w[<<1, i>>] = x[i]

\* The classes with tag t and those with tag tau[t] take the same values, the
\* same number of times.
TagSetsHold(w) ==
    LET used    == {VariableAt(c) : c \in Occupied}
        valueOf == [v \in used |-> w[OccupiedCells[Leader(CopyCycle(v))]]]
        times(t, x) == Cardinality({v \in used : real_variable_tags[v] = t /\ valueOf[v] = x})
    IN  \A t \in DOMAIN tau, x \in CellValues : times(t, x) = times(tau[t], x)

\* The permutation argument accepts a table and public inputs iff the table
\* satisfies the copy constraints, the public inputs stand in their rows and
\* (generalised) the tagged sets match: the mapping is neither too weak nor
\* too strong, wherever public inputs, shared classes and tags meet.
ArgumentIsExact ==
    mapping # NoKey =>
        \A w \in [Cells -> CellValues], x \in [PublicRows -> CellValues] :
            ProductIsDelta(w, x) <=>
                CopiesHold(w) /\ PublicHold(w, x) /\ (Generalized => TagSetsHold(w))

(***************************************************************************)
(* compute_witness_base: the columns the prover commits to.                *)
(***************************************************************************)
\* Mutant: the public inputs are placed in the left column only.
Witness_LeftOnly ==
    [c \in Cells |->
        IF c[2] < NumPublic
        THEN IF c[1] = 0 THEN GetVariable(public_inputs[c[2] + 1]) ELSE 0
        ELSE IF c[2] < NumPublic + NumGates
             THEN GetVariable(wires[c[2] - NumPublic + 1][c[1]])
             ELSE 0]

Witness ==
    [c \in Cells |->
        IF c[2] < NumPublic
        THEN IF c[1] \in {0, 1} THEN GetVariable(public_inputs[c[2] + 1]) ELSE 0
        ELSE IF c[2] < NumPublic + NumGates
             THEN GetVariable(wires[c[2] - NumPublic + 1][c[1]])
             ELSE 0]

\* The witness of the composer, with the public inputs it reports, passes the
\* argument of the key computed from the same circuit.
HonestWitnessPasses ==
    mapping # NoKey =>
        LET x == [i \in PublicRows |-> GetVariable(public_inputs[i + 1])]
        IN  (Generalized => TagSetsHold(Witness)) => ProductIsDelta(Witness, x)
=============================================================================
