------------------------- MODULE WirePermutationProofs -------------------------
(***************************************************************************)
(* Theorems about WirePermutation.  A program that builds a circuit, gives *)
(* it gates and computes the mapping builds, as far as the variables go, a *)
(* circuit of CircuitConstructor, so what is proved there holds here; the  *)
(* gates name variables that exist; and the witness columns respect the    *)
(* copy constraints and place the public inputs, whatever was built.       *)
(***************************************************************************)
EXTENDS WirePermutation, CircuitConstructorProofs, LeastElements, FunctionTheorems

-----------------------------------------------------------------------------
(* The circuit underneath. *)

\* Adding a gate and computing the mapping leave the variables alone, and
\* everything else the program does is a step of the circuit constructor.
THEOREM BuildsACircuit == PermSpec => Spec
<1>1. PermInit => Init
  BY DEF PermInit
<1>2. [PermNext]_permVars => [Next]_vars
  <2> SUFFICES ASSUME [PermNext]_permVars PROVE [Next]_vars
    OBVIOUS
  <2>1. CASE Construct
    BY <2>1 DEF Construct
  <2>2. CASE CreateGate
    BY <2>2 DEF CreateGate
  <2>3. CASE ComputeMapping
    BY <2>3 DEF ComputeMapping
  <2>4. CASE UNCHANGED permVars
    BY <2>4 DEF permVars
  <2> QED BY <2>1, <2>2, <2>3, <2>4 DEF PermNext
<1> QED BY <1>1, <1>2, PTL DEF PermSpec, Spec

\* The walk of assert_equal visits a class, with gates and mapping around it.
THEOREM CircuitWalksItsClasses == PermSpec => []ChainIsClass
BY BuildsACircuit, WalkVisitsClass, PTL

\* The members of a class were given one value, unless the circuit has failed.
THEOREM CircuitValuesAgree == PermSpec => []OneValuePerClass
BY BuildsACircuit, ValuesAgree, PTL

\* A tag once given to a class is kept, unless the circuit has failed.
THEOREM CircuitTagsAreKept == PermSpec => TagsKept
BY BuildsACircuit, TagsAreKept, PTL

\* The circuit under construction is a partition whose blocks are united.
THEOREM CircuitIsAPartition == PermSpec => RefinesPartition
BY BuildsACircuit, ImplementsPartition, PTL

-----------------------------------------------------------------------------
(***************************************************************************)
(* The witness.  The rows of the key are enough for what was built, and    *)
(* the gates name variables of the circuit.                                *)
(***************************************************************************)
GatesNameVariables == wires \in Seq([Columns -> Indices]) /\ NumGates <= MaxGates

RowsSuffice == wires # << >> \/ mapping # NoKey => SmallEnough

PermInv == IInv /\ GatesNameVariables /\ RowsSuffice

LEMMA PermInitInv == PermInit => PermInv
<1> SUFFICES ASSUME PermInit PROVE PermInv
  OBVIOUS
<1>1. IInv
  BY InitIInv DEF PermInit
<1>2. wires = << >> /\ mapping = NoKey
  BY DEF PermInit
<1> QED BY <1>1, <1>2, PermutationAssumption DEF PermInv, GatesNameVariables, RowsSuffice, NumGates

LEMMA PermNextInv == PermInv /\ [PermNext]_permVars => PermInv'
<1> SUFFICES ASSUME PermInv, [PermNext]_permVars PROVE PermInv'
  OBVIOUS
<1> USE DEF PermInv
<1>1. CASE Construct
  <2>1. IInv' /\ Next
    BY <1>1, NextIInv DEF Construct
  <2>2. Indices \subseteq Indices'
    BY <2>1, ClassesGrow
  <2>3. GatesNameVariables'
    BY <1>1, <2>2 DEF Construct, GatesNameVariables, NumGates
  <2>4. RowsSuffice'
    BY <1>1 DEF Construct, RowsSuffice, Building
  <2> QED BY <2>1, <2>3, <2>4
<1>2. CASE CreateGate
  <2>1. UNCHANGED vars /\ mapping' = mapping
    BY <1>2 DEF CreateGate
  <2>2. IInv'
    BY <2>1, NextIInv
  <2>3. PICK w \in [Columns -> Indices] : wires' = Append(wires, w)
    BY <1>2 DEF CreateGate
  <2>4. Indices' = Indices
    BY <2>1 DEF vars, Indices
  <2>5. GatesNameVariables'
    <3>1. wires' \in Seq([Columns -> Indices]) /\ Len(wires') = NumGates + 1
      BY <2>3 DEF GatesNameVariables, NumGates
    <3>2. NumGates + 1 <= MaxGates
      BY <1>2, PermutationAssumption DEF CreateGate, GatesNameVariables, NumGates
    <3>3. Columns' = Columns
      BY DEF Columns
    <3> QED BY <2>4, <3>1, <3>2, <3>3 DEF GatesNameVariables, NumGates
  <2>6. RowsSuffice'
    BY <1>2, <2>1 DEF CreateGate, RowsSuffice, SmallEnough, NumPublic, vars, tagVars
  <2> QED BY <2>2, <2>5, <2>6
<1>3. CASE ComputeMapping
  <2>1. UNCHANGED vars /\ wires' = wires
    BY <1>3 DEF ComputeMapping
  <2>2. IInv'
    BY <2>1, NextIInv
  <2>3. GatesNameVariables'
    BY <2>1 DEF GatesNameVariables, NumGates, vars, Indices
  <2>4. RowsSuffice'
    BY <1>3, <2>1 DEF ComputeMapping, RowsSuffice, SmallEnough, NumPublic, vars, tagVars
  <2> QED BY <2>2, <2>3, <2>4
<1>4. CASE UNCHANGED permVars
  <2>1. UNCHANGED vars /\ wires' = wires /\ mapping' = mapping
    BY <1>4 DEF permVars
  <2>2. IInv'
    BY <2>1, NextIInv
  <2>3. GatesNameVariables' /\ RowsSuffice'
    BY <2>1 DEF GatesNameVariables, NumGates, vars, Indices, RowsSuffice, SmallEnough, NumPublic, tagVars
  <2> QED BY <2>2, <2>3
<1> QED BY <1>1, <1>2, <1>3, <1>4 DEF PermNext

\* The gates of every circuit name variables of that circuit, and its rows fit
\* the key that the mapping was made for.
THEOREM GatesAreValid == PermSpec => []PermInv
BY PermInitInv, PermNextInv, PTL DEF PermSpec

\* Quotient and remainder of the k-th cell, row by row.
LEMMA RowAndColumn ==
    ASSUME NEW width \in Nat \ {0}, NEW rows \in Nat, NEW m \in 0 .. width * rows - 1
    PROVE  m % width \in 0 .. width - 1 /\ m \div width \in 0 .. rows - 1
OBVIOUS

\* An occupied cell is the left or right cell of a public row, or a cell of a
\* gate.
LEMMA OccupiedIsPublicOrGate ==
    ASSUME PermInv, NEW c \in Occupied
    PROVE  \/ c \in {0, 1} \X (0 .. NumPublic - 1)
           \/ c \in Columns \X (NumPublic .. NumPublic + NumGates - 1)
<1> DEFINE public == [k \in 1 .. 2 * NumPublic |-> <<(k - 1) % 2, (k - 1) \div 2>>]
           gates  == [k \in 1 .. ProgramWidth * NumGates |->
                        <<(k - 1) % ProgramWidth, GateRow((k - 1) \div ProgramWidth + 1)>>]
<1>1. NumPublic \in Nat /\ NumGates \in Nat /\ ProgramWidth \in Nat \ {0}
  BY PermutationAssumption DEF PermInv, IInv, TypeOK, GatesNameVariables, NumPublic, NumGates
<1>2. ProgramWidth * NumGates \in Nat
  BY <1>1
<1>3. PICK k \in DOMAIN (public \o gates) : c = (public \o gates)[k]
  BY DEF Occupied, OccupiedCells
<1>4. (\E j \in 1 .. 2 * NumPublic : c = public[j]) \/ (\E j \in 1 .. ProgramWidth * NumGates : c = gates[j])
  <2>1. public \in Seq(Int \X Int) /\ Len(public) = 2 * NumPublic
    BY <1>1
  <2>2. gates \in Seq(Int \X Int) /\ Len(gates) = ProgramWidth * NumGates
    <3>1. \A j \in 1 .. ProgramWidth * NumGates : gates[j] \in Int \X Int
      BY <1>1, <1>2, PermutationAssumption DEF GateRow
    <3> QED BY <1>2, <3>1
  <2> HIDE DEF public, gates
  <2> QED BY <1>1, <1>2, <1>3, <2>1, <2>2
<1>5. CASE \E j \in 1 .. 2 * NumPublic : c = public[j]
  BY <1>1, <1>5
<1>6. CASE \E j \in 1 .. ProgramWidth * NumGates : c = gates[j]
  <2>1. PICK j \in 1 .. ProgramWidth * NumGates : c = gates[j]
    BY <1>6
  <2>2. j - 1 \in 0 .. ProgramWidth * NumGates - 1
    BY <1>2
  <2>3. (j - 1) % ProgramWidth \in Columns /\ (j - 1) \div ProgramWidth \in 0 .. NumGates - 1
    BY <1>1, <2>2, RowAndColumn DEF Columns
  <2> QED BY <1>1, <2>1, <2>3 DEF GateRow
<1> QED BY <1>4, <1>5, <1>6

\* The witness columns of compute_witness_base give one value to all the cells
\* of a copy class and put the public inputs in their rows: the honest table
\* satisfies what the permutation argument is for, in every circuit.
HonestWitnessIsATable ==
    mapping # NoKey =>
        CopiesHold(Witness) /\ PublicHold(Witness, [i \in PublicRows |-> GetVariable(public_inputs[i + 1])])

THEOREM WitnessRespectsCopies == PermSpec => []HonestWitnessIsATable
<1>1. ASSUME PermInv, mapping # NoKey, NEW c \in Occupied
      PROVE  c \in Cells /\ Witness[c] = variables[VariableAt(c)]
  <2>1. NumPublic \in Nat /\ NumGates \in Nat /\ NumPublic + NumGates <= CircuitSize /\ {0, 1} \subseteq Columns
    BY <1>1, PermutationAssumption
    DEF PermInv, IInv, TypeOK, GatesNameVariables, RowsSuffice, SmallEnough, NumPublic, NumGates, Columns
  <2>2. CASE c \in {0, 1} \X (0 .. NumPublic - 1)
    <3>1. c \in Cells /\ c[2] < NumPublic /\ c[1] \in {0, 1}
      BY <2>1, <2>2, PermutationAssumption DEF Cells
    <3> QED BY <3>1 DEF Witness, VariableAt, GetVariable
  <2>3. CASE c \in Columns \X (NumPublic .. NumPublic + NumGates - 1)
    <3>1. c \in Cells /\ ~(c[2] < NumPublic) /\ c[2] < NumPublic + NumGates
      BY <2>1, <2>3, PermutationAssumption DEF Cells
    <3> QED BY <3>1 DEF Witness, VariableAt, GetVariable
  <2> QED BY <1>1, <2>2, <2>3, OccupiedIsPublicOrGate
<1>2. PermInv => HonestWitnessIsATable
  <2> SUFFICES ASSUME PermInv, mapping # NoKey PROVE HonestWitnessIsATable
    BY DEF HonestWitnessIsATable
  <2>1. CopiesHold(Witness)
    BY <1>1 DEF CopiesHold
  <2>2. PublicHold(Witness, [i \in PublicRows |-> GetVariable(public_inputs[i + 1])])
    <3> SUFFICES ASSUME NEW i \in PublicRows
                 PROVE  Witness[<<0, i>>] = GetVariable(public_inputs[i + 1])
                        /\ Witness[<<1, i>>] = GetVariable(public_inputs[i + 1])
      BY DEF PublicHold
    <3>1. <<0, i>> \in Cells /\ <<1, i>> \in Cells /\ i < NumPublic
      BY PermutationAssumption
      DEF PermInv, IInv, TypeOK, GatesNameVariables, RowsSuffice, SmallEnough, NumPublic, NumGates, Columns,
          Cells, PublicRows
    <3> QED BY <3>1 DEF Witness
  <2> QED BY <2>1, <2>2 DEF HonestWitnessIsATable
<1> QED BY <1>2, GatesAreValid, PTL

-----------------------------------------------------------------------------
(***************************************************************************)
(* Cycles.  The places of a cycle are a set of naturals; its successors go *)
(* around it.                                                              *)
(***************************************************************************)
LEMMA LeaderIsFirst ==
    ASSUME NEW cycle \in SUBSET Nat, cycle # {}
    PROVE  Leader(cycle) \in cycle /\ IsFirst(cycle, Leader(cycle))
<1>1. \E k \in cycle : IsFirst(cycle, k)
  BY LeastNumber DEF IsFirst
<1> QED BY <1>1 DEF Leader

\* The successor of the last place is the first one; that of any other is the
\* next one.
LEMMA SuccessorIsNext ==
    ASSUME NEW cycle \in SUBSET Nat, NEW k \in cycle
    PROVE  LET next == Successor(cycle, k)
           IN  /\ next \in cycle
               /\ IsLast(cycle, k) => IsFirst(cycle, next)
               /\ ~IsLast(cycle, k) => k < next /\ \A j \in cycle : j <= k \/ next <= j
<1>1. CASE IsLast(cycle, k)
  BY <1>1, LeaderIsFirst DEF Successor
<1>2. CASE ~IsLast(cycle, k)
  <2> DEFINE later == {j \in cycle : j > k}
  <2>0. \A i \in cycle : i \in Nat
    OBVIOUS
  <2>1. later \in SUBSET Nat /\ later # {}
    <3>1. PICK j \in cycle : ~(j <= k)
      BY <1>2 DEF IsLast
    <3>2. j \in later
      BY <2>0, <3>1
    <3> QED BY <3>2
  <2>2. Leader(later) \in later /\ IsFirst(later, Leader(later))
    BY <2>1, LeaderIsFirst
  <2>3. Successor(cycle, k) = Leader(later)
    BY <1>2 DEF Successor
  <2>4. PICK next \in later : next = Successor(cycle, k) /\ \A j \in later : next <= j
    BY <2>2, <2>3 DEF IsFirst
  <2>5. \A j \in cycle : j <= k \/ next <= j
    BY <2>0, <2>4
  <2> QED BY <1>2, <2>4, <2>5
<1> QED BY <1>1, <1>2

LEMMA SuccessorIsInjective ==
    ASSUME NEW cycle \in SUBSET Nat, NEW j \in cycle, NEW k \in cycle,
           Successor(cycle, j) = Successor(cycle, k)
    PROVE  j = k
<1>1. PICK m \in cycle : m = Successor(cycle, j)
  BY SuccessorIsNext
<1>2. /\ IsLast(cycle, j) => IsFirst(cycle, m)
      /\ IsLast(cycle, k) => IsFirst(cycle, m)
      /\ ~IsLast(cycle, j) => j < m /\ \A i \in cycle : i <= j \/ m <= i
      /\ ~IsLast(cycle, k) => k < m /\ \A i \in cycle : i <= k \/ m <= i
  BY <1>1, SuccessorIsNext
<1>3. j \in Nat /\ k \in Nat /\ m \in Nat
  OBVIOUS
<1>4. CASE IsLast(cycle, j) /\ IsLast(cycle, k)
  BY <1>3, <1>4 DEF IsLast
<1>5. CASE IsFirst(cycle, m)
  <2>1. ~(j < m) /\ ~(k < m)
    BY <1>3, <1>5 DEF IsFirst
  <2>2. IsLast(cycle, j) /\ IsLast(cycle, k)
    BY <1>2, <2>1
  <2> QED BY <1>4, <2>2
<1>6. CASE ~IsLast(cycle, j) /\ ~IsLast(cycle, k)
  BY <1>2, <1>3, <1>6
<1> QED BY <1>2, <1>4, <1>5, <1>6

\* Every place of a bounded cycle is a successor: the first one of the last,
\* and only that.
LEMMA SuccessorIsOnto ==
    ASSUME NEW b \in Nat, NEW cycle \in SUBSET (0 .. b), NEW m \in cycle
    PROVE  \E k \in cycle : Successor(cycle, k) = m /\ (IsLast(cycle, k) <=> IsFirst(cycle, m))
<1>1. cycle \in SUBSET Nat /\ m \in Nat
  OBVIOUS
<1>2. CASE IsFirst(cycle, m)
  <2>1. PICK k \in cycle : IsLast(cycle, k)
    BY GreatestNumber DEF IsLast
  <2>2. PICK next \in cycle : next = Successor(cycle, k) /\ IsFirst(cycle, next)
    BY <1>1, <2>1, SuccessorIsNext
  <2>3. next = m
    <3>1. next \in Nat /\ next <= m /\ m <= next
      BY <1>1, <1>2, <2>2 DEF IsFirst
    <3> QED BY <1>1, <3>1
  <2> QED BY <1>2, <2>1, <2>2, <2>3
<1>3. CASE ~IsFirst(cycle, m)
  <2> DEFINE earlier == {j \in cycle : j < m}
  <2>1. PICK j \in cycle : j < m
    BY <1>1, <1>3 DEF IsFirst
  <2>2. earlier \in SUBSET (0 .. b) /\ earlier # {}
    BY <2>1
  <2>3. PICK k \in earlier : \A i \in earlier : i <= k
    BY <2>2, GreatestNumber
  <2>4. k \in cycle /\ k \in Nat /\ k < m
    BY <2>3
  <2>5. ~IsLast(cycle, k)
    BY <1>1, <2>4 DEF IsLast
  <2>6. PICK next \in cycle : /\ next = Successor(cycle, k)
                              /\ k < next /\ \A i \in cycle : i <= k \/ next <= i
    BY <1>1, <2>4, <2>5, SuccessorIsNext
  <2>7. next \in Nat /\ next <= m
    BY <1>1, <2>4, <2>6
  <2>8. ~(next < m)
    BY <2>3, <2>4, <2>6, <2>7
  <2>9. next = m
    BY <1>1, <2>7, <2>8
  <2> QED BY <1>3, <2>4, <2>5, <2>6, <2>9
<1> QED BY <1>2, <1>3

\* What every step around a cycle keeps, but for the step that closes it, is
\* the same at all its places.
LEMMA SameAroundCycle ==
    ASSUME NEW b \in Nat, NEW cycle \in SUBSET (0 .. b), NEW f,
           \A k \in cycle : ~IsLast(cycle, k) => f[k] = f[Successor(cycle, k)]
    PROVE  \A j, k \in cycle : f[j] = f[k]
<1>1. cycle \in SUBSET Nat
  OBVIOUS
<1>2. SUFFICES ASSUME cycle # {} PROVE \A k \in cycle : f[k] = f[Leader(cycle)]
  OBVIOUS
<1> DEFINE first == Leader(cycle)
           wrong == {k \in cycle : f[k] # f[first]}
<1>3. SUFFICES ASSUME wrong # {} PROVE FALSE
  OBVIOUS
<1>4. PICK m \in wrong : \A n \in wrong : m <= n
  BY <1>1, <1>3, LeastNumber
<1>5. ~IsFirst(cycle, m)
  <2>1. PICK n \in cycle : n = first /\ IsFirst(cycle, n)
    BY <1>1, <1>2, LeaderIsFirst
  <2>2. m # n /\ n \in Nat /\ m \in Nat
    BY <1>1, <1>4, <2>1
  <2> QED BY <2>1, <2>2 DEF IsFirst
<1>6. PICK k \in cycle : Successor(cycle, k) = m /\ ~IsLast(cycle, k)
  BY <1>5, SuccessorIsOnto
<1>7. k < m /\ k \in Nat /\ m \in Nat
  BY <1>1, <1>6, SuccessorIsNext
<1>8. k \in wrong
  BY <1>6
<1> QED BY <1>1, <1>4, <1>7, <1>8

-----------------------------------------------------------------------------
(***************************************************************************)
(* The occupied cells of a circuit that has a mapping.                     *)
(***************************************************************************)
Places == DOMAIN OccupiedCells

LEMMA ElementsOfConcat ==
    ASSUME NEW S, NEW s \in Seq(S), NEW t \in Seq(S)
    PROVE  /\ DOMAIN (s \o t) = 1 .. Len(s) + Len(t)
           /\ \A k \in 1 .. Len(s) : (s \o t)[k] = s[k]
           /\ \A k \in 1 .. Len(t) : (s \o t)[Len(s) + k] = t[k]
OBVIOUS

LEMMA OccupiedCellAt ==
    ASSUME PermInv
    PROVE  /\ NumPublic \in Nat /\ NumGates \in Nat /\ ProgramWidth * NumGates \in Nat
           /\ Places = 1 .. 2 * NumPublic + ProgramWidth * NumGates
           /\ \A k \in 1 .. 2 * NumPublic : OccupiedCells[k] = <<(k - 1) % 2, (k - 1) \div 2>>
           /\ \A k \in 1 .. ProgramWidth * NumGates :
                OccupiedCells[2 * NumPublic + k] = <<(k - 1) % ProgramWidth, NumPublic + (k - 1) \div ProgramWidth>>
<1> DEFINE public == [k \in 1 .. 2 * NumPublic |-> <<(k - 1) % 2, (k - 1) \div 2>>]
           gates  == [k \in 1 .. ProgramWidth * NumGates |->
                        <<(k - 1) % ProgramWidth, GateRow((k - 1) \div ProgramWidth + 1)>>]
<1>1. NumPublic \in Nat /\ NumGates \in Nat /\ ProgramWidth \in Nat \ {0}
  BY PermutationAssumption DEF PermInv, IInv, TypeOK, GatesNameVariables, NumPublic, NumGates
<1>2. ProgramWidth * NumGates \in Nat
  BY <1>1
<1>3. public \in Seq(Int \X Int) /\ Len(public) = 2 * NumPublic
  BY <1>1
<1>4. \A k \in 1 .. ProgramWidth * NumGates :
        gates[k] = <<(k - 1) % ProgramWidth, NumPublic + (k - 1) \div ProgramWidth>>
  BY <1>1, <1>2 DEF GateRow
<1>5. gates \in Seq(Int \X Int) /\ Len(gates) = ProgramWidth * NumGates
  <2>1. \A k \in 1 .. ProgramWidth * NumGates : gates[k] \in Int \X Int
    BY <1>1, <1>2, <1>4
  <2> QED BY <1>2, <2>1
<1>6. OccupiedCells = public \o gates
  BY DEF OccupiedCells
<1>7. \A k \in 1 .. 2 * NumPublic : public[k] = <<(k - 1) % 2, (k - 1) \div 2>>
  OBVIOUS
<1> HIDE DEF public, gates
<1>8. /\ Places = 1 .. Len(public) + Len(gates)
      /\ \A k \in 1 .. Len(public) : OccupiedCells[k] = public[k]
      /\ \A k \in 1 .. Len(gates) : OccupiedCells[Len(public) + k] = gates[k]
  <2>1. /\ DOMAIN (public \o gates) = 1 .. Len(public) + Len(gates)
        /\ \A k \in 1 .. Len(public) : (public \o gates)[k] = public[k]
        /\ \A k \in 1 .. Len(gates) : (public \o gates)[Len(public) + k] = gates[k]
    <3>1. public \in Seq(Int \X Int) /\ gates \in Seq(Int \X Int)
      BY <1>3, <1>5
    <3> HIDE DEF public, gates
    <3> QED BY <3>1, ElementsOfConcat
  <2> QED BY <1>6, <2>1 DEF Places
<1> QED BY <1>1, <1>2, <1>3, <1>4, <1>5, <1>7, <1>8

\* Quotient and remainder give a number back.
LEMMA FromRowAndColumn ==
    ASSUME NEW width \in Nat \ {0}, NEW j \in Nat, NEW k \in Nat,
           j % width = k % width, j \div width = k \div width
    PROVE  j = k
OBVIOUS

\* No cell is occupied twice.
LEMMA CellsAreDistinct ==
    ASSUME PermInv, NEW j \in Places, NEW k \in Places, OccupiedCells[j] = OccupiedCells[k]
    PROVE  j = k
<1> DEFINE P == 2 * NumPublic
           G == ProgramWidth * NumGates
<1>1. /\ NumPublic \in Nat /\ P \in Nat /\ G \in Nat
      /\ Places = 1 .. P + G
      /\ \A n \in 1 .. P : OccupiedCells[n] = <<(n - 1) % 2, (n - 1) \div 2>>
      /\ \A n \in 1 .. G : OccupiedCells[P + n] = <<(n - 1) % ProgramWidth, NumPublic + (n - 1) \div ProgramWidth>>
  BY OccupiedCellAt
<1>2. ProgramWidth \in Nat \ {0}
  BY PermutationAssumption
<1>3. ASSUME NEW n \in 1 .. P PROVE OccupiedCells[n][2] \in Int /\ OccupiedCells[n][2] < NumPublic
  <2>1. (n - 1) \div 2 \in Int /\ (n - 1) \div 2 < NumPublic
    BY <1>1
  <2> QED BY <1>1, <2>1
<1> HIDE DEF P, G
<1>4. ASSUME NEW n \in 1 .. G
      PROVE  (n - 1) \div ProgramWidth \in Nat /\ OccupiedCells[P + n][2] >= NumPublic
  <2>1. n - 1 \in Nat
    BY <1>1
  <2>2. PICK q \in Nat : q = (n - 1) \div ProgramWidth
    BY <1>2, <2>1
  <2>3. OccupiedCells[P + n] = <<(n - 1) % ProgramWidth, NumPublic + q>>
    BY <1>1, <2>2
  <2>4. OccupiedCells[P + n][2] = NumPublic + q
    BY <2>3
  <2> QED BY <1>1, <2>2, <2>4
<1>5. CASE j \in 1 .. P /\ k \in 1 .. P
  <2>1. j - 1 \in Nat /\ k - 1 \in Nat /\ (j - 1) % 2 = (k - 1) % 2 /\ (j - 1) \div 2 = (k - 1) \div 2
    BY <1>1, <1>5
  <2>2. j - 1 = k - 1
    BY <2>1, FromRowAndColumn
  <2> QED BY <1>1, <1>5, <2>2
<1>6. CASE j \notin 1 .. P /\ k \notin 1 .. P
  <2>1. PICK a \in 1 .. G, b \in 1 .. G : j = P + a /\ k = P + b
    <3>1. j - P \in 1 .. G /\ k - P \in 1 .. G
      BY <1>1, <1>6
    <3> QED BY <1>1, <3>1
  <2>2. a - 1 \in Nat /\ b - 1 \in Nat
    BY <1>1
  <2>3. (a - 1) % ProgramWidth = (b - 1) % ProgramWidth
        /\ NumPublic + (a - 1) \div ProgramWidth = NumPublic + (b - 1) \div ProgramWidth
    BY <1>1, <2>1
  <2>4. (a - 1) \div ProgramWidth = (b - 1) \div ProgramWidth
    BY <1>1, <1>4, <2>3
  <2>5. a - 1 = b - 1
    BY <1>2, <2>2, <2>3, <2>4, FromRowAndColumn
  <2> QED BY <1>1, <2>1, <2>5
<1>7. CASE j \in 1 .. P /\ k \notin 1 .. P
  <2>1. k - P \in 1 .. G /\ k = P + (k - P)
    BY <1>1, <1>7
  <2>2. OccupiedCells[k][2] >= NumPublic
    BY <1>4, <2>1
  <2>3. OccupiedCells[j][2] < NumPublic /\ OccupiedCells[j][2] \in Int
    BY <1>3, <1>7
  <2> QED BY <1>1, <2>2, <2>3
<1>8. CASE j \notin 1 .. P /\ k \in 1 .. P
  <2>1. j - P \in 1 .. G /\ j = P + (j - P)
    BY <1>1, <1>8
  <2>2. OccupiedCells[j][2] >= NumPublic
    BY <1>4, <2>1
  <2>3. OccupiedCells[k][2] < NumPublic /\ OccupiedCells[k][2] \in Int
    BY <1>3, <1>8
  <2> QED BY <1>1, <2>2, <2>3
<1> QED BY <1>5, <1>6, <1>7, <1>8

-----------------------------------------------------------------------------
(***************************************************************************)
(* The labels of a computed mapping.  The cells of the table are numbered  *)
(* from 0, the tags after them, the public inputs below 0.                 *)
(***************************************************************************)
Keyed == PermInv /\ TauSwaps /\ SmallEnough

CellNumber(c) == c[2] + CircuitSize * c[1]
TagLabel(t)   == CircuitSize * ProgramWidth + t

CycleOf(k)    == CopyCycle(VariableAt(OccupiedCells[k]))
LeftPublic(k) == \E i \in PublicRows : OccupiedCells[k] = <<0, i>>

LEMMA RowsBelow ==
    ASSUME NEW n \in Nat, NEW a \in Nat, NEW b \in Nat, a < b
    PROVE  n * a + n <= n * b
<1>1. PICK d \in Nat : b = a + 1 + d
  <2>1. b - a - 1 \in Nat /\ b = a + 1 + (b - a - 1)
    OBVIOUS
  <2> QED BY <2>1
<1>2. n * b = n * a + n + n * d
  BY <1>1
<1>3. n * d \in Nat /\ n * a \in Nat
  OBVIOUS
<1> QED BY <1>2, <1>3

LEMMA CellNumberBounds ==
    ASSUME NEW c \in Cells
    PROVE  CellNumber(c) \in Nat /\ CellNumber(c) < CircuitSize * ProgramWidth
<1>1. CircuitSize \in Nat /\ ProgramWidth \in Nat
  BY PermutationAssumption
<1>2. PICK a \in Columns, r \in 0 .. CircuitSize - 1 : c = <<a, r>>
  BY DEF Cells
<1>3. a \in Nat /\ a < ProgramWidth /\ r \in Nat /\ r < CircuitSize
  BY <1>1, <1>2 DEF Columns
<1>4. CircuitSize * a + CircuitSize <= CircuitSize * ProgramWidth
  BY <1>1, <1>3, RowsBelow
<1>5. CircuitSize * a \in Nat /\ CircuitSize * ProgramWidth \in Nat
  BY <1>1, <1>3
<1>6. CellNumber(c) = r + CircuitSize * a
  BY <1>2 DEF CellNumber
<1> QED BY <1>1, <1>3, <1>4, <1>5, <1>6

\* No two cells have one number.
LEMMA CellNumberIsInjective ==
    ASSUME NEW c \in Cells, NEW d \in Cells, CellNumber(c) = CellNumber(d)
    PROVE  c = d
<1>1. CircuitSize \in Nat /\ ProgramWidth \in Nat
  BY PermutationAssumption
<1>2. PICK a \in Columns, r \in 0 .. CircuitSize - 1 : c = <<a, r>>
  BY DEF Cells
<1>3. PICK b \in Columns, s \in 0 .. CircuitSize - 1 : d = <<b, s>>
  BY DEF Cells
<1>4. a \in Nat /\ r \in Nat /\ r < CircuitSize /\ b \in Nat /\ s \in Nat /\ s < CircuitSize
  BY <1>1, <1>2, <1>3 DEF Columns
<1> DEFINE A == CircuitSize * a
           B == CircuitSize * b
<1>5. A \in Nat /\ B \in Nat
  BY <1>1, <1>4
<1>6. r + A = s + B
  BY <1>2, <1>3 DEF CellNumber
<1>7. (a < b => A + CircuitSize <= B) /\ (b < a => B + CircuitSize <= A)
  BY <1>1, <1>4, RowsBelow
<1> HIDE DEF A, B
<1>8. a = b
  BY <1>1, <1>4, <1>5, <1>6, <1>7
<1>9. A = B
  BY <1>8 DEF A, B
<1> QED BY <1>2, <1>3, <1>4, <1>5, <1>6, <1>8, <1>9

\* The places of the two cells of a public row.
LEMMA PublicPlaces ==
    ASSUME Keyed, NEW i \in PublicRows
    PROVE  /\ 2 * i + 1 \in Places /\ OccupiedCells[2 * i + 1] = <<0, i>>
           /\ 2 * i + 2 \in Places /\ OccupiedCells[2 * i + 2] = <<1, i>>
           /\ VariableAt(<<0, i>>) = VariableAt(<<1, i>>)
<1> DEFINE G == ProgramWidth * NumGates
<1>1. /\ NumPublic \in Nat /\ G \in Nat
      /\ Places = 1 .. 2 * NumPublic + G
      /\ \A k \in 1 .. 2 * NumPublic : OccupiedCells[k] = <<(k - 1) % 2, (k - 1) \div 2>>
  BY OccupiedCellAt DEF Keyed
<1> HIDE DEF G
<1>2. i \in Nat /\ i < NumPublic
  BY <1>1 DEF PublicRows
<1>3. PICK k \in 1 .. 2 * NumPublic, m \in 1 .. 2 * NumPublic : k = 2 * i + 1 /\ m = 2 * i + 2
  BY <1>1, <1>2
<1>4. (k - 1) % 2 = 0 /\ (k - 1) \div 2 = i /\ (m - 1) % 2 = 1 /\ (m - 1) \div 2 = i
  BY <1>2, <1>3
<1>5. OccupiedCells[k] = <<0, i>> /\ OccupiedCells[m] = <<1, i>>
  BY <1>1, <1>4
<1>6. VariableAt(<<0, i>>) = VariableAt(<<1, i>>)
  BY <1>2 DEF VariableAt
<1>7. k \in Places /\ m \in Places
  BY <1>1
<1> QED BY <1>3, <1>5, <1>6, <1>7

LEMMA CellsOfTheKey ==
    ASSUME Keyed
    PROVE  /\ NumPublic \in Nat /\ NumPublic <= CircuitSize
           /\ \A k \in Places : OccupiedCells[k] \in Cells
           /\ \A i \in PublicRows : <<0, i>> \in Cells /\ <<1, i>> \in Cells
<1>1. NumPublic \in Nat /\ NumGates \in Nat /\ NumPublic + NumGates <= CircuitSize /\ {0, 1} \subseteq Columns
  BY PermutationAssumption
  DEF Keyed, PermInv, IInv, TypeOK, GatesNameVariables, SmallEnough, NumPublic, NumGates, Columns
<1>2. CircuitSize \in Nat
  BY PermutationAssumption
<1>3. ASSUME NEW k \in Places PROVE OccupiedCells[k] \in Cells
  <2>1. PICK c \in Occupied : c = OccupiedCells[k]
    BY DEF Occupied, Places
  <2>2. CASE c \in {0, 1} \X (0 .. NumPublic - 1)
    BY <1>1, <1>2, <2>1, <2>2 DEF Cells
  <2>3. CASE c \in Columns \X (NumPublic .. NumPublic + NumGates - 1)
    BY <1>1, <1>2, <2>1, <2>3 DEF Cells
  <2> QED BY <2>1, <2>2, <2>3, OccupiedIsPublicOrGate DEF Keyed
<1>4. \A i \in PublicRows : <<0, i>> \in Cells /\ <<1, i>> \in Cells
  BY <1>1, <1>2 DEF Cells, PublicRows
<1> QED BY <1>1, <1>2, <1>3, <1>4

\* The cycle of a place is a bounded set of places that holds it.
LEMMA CycleOfPlace ==
    ASSUME Keyed, NEW k \in Places
    PROVE  /\ k \in CycleOf(k)
           /\ CycleOf(k) \in SUBSET (0 .. 2 * NumPublic + ProgramWidth * NumGates)
           /\ CycleOf(k) \in SUBSET Nat
           /\ CycleOf(k) \subseteq Places
           /\ \A j \in CycleOf(k) : CycleOf(j) = CycleOf(k) /\ VariableAt(OccupiedCells[j]) = VariableAt(OccupiedCells[k])
           /\ 2 * NumPublic + ProgramWidth * NumGates \in Nat
<1> DEFINE b == 2 * NumPublic + ProgramWidth * NumGates
<1>1. b \in Nat /\ Places = 1 .. b
  BY OccupiedCellAt DEF Keyed
<1>2. k \in CycleOf(k) /\ CycleOf(k) \subseteq Places
  BY DEF CycleOf, CopyCycle, Places
<1>3. \A j \in CycleOf(k) : VariableAt(OccupiedCells[j]) = VariableAt(OccupiedCells[k])
  BY DEF CycleOf, CopyCycle
<1>4. \A j \in CycleOf(k) : CycleOf(j) = CycleOf(k)
  BY <1>3 DEF CycleOf
<1> HIDE DEF b
<1>5. CycleOf(k) \in SUBSET (0 .. b) /\ CycleOf(k) \in SUBSET Nat
  BY <1>1, <1>2
<1>6. b = 2 * NumPublic + ProgramWidth * NumGates
  BY DEF b
<1> QED BY <1>1, <1>2, <1>3, <1>4, <1>5, <1>6

\* In a public row the right cell follows the left one, so no cycle ends at
\* a left cell.
LEMMA PublicSuccessor ==
    ASSUME Keyed, NEW i \in PublicRows
    PROVE  /\ 2 * i + 2 \in CycleOf(2 * i + 1)
           /\ ~IsLast(CycleOf(2 * i + 1), 2 * i + 1)
           /\ ~IsFirst(CycleOf(2 * i + 1), 2 * i + 2)
           /\ Successor(CycleOf(2 * i + 1), 2 * i + 1) = 2 * i + 2
<1>0. /\ 2 * i + 1 \in Places /\ 2 * i + 2 \in Places
      /\ VariableAt(OccupiedCells[2 * i + 1]) = VariableAt(OccupiedCells[2 * i + 2])
  BY PublicPlaces
<1>1. PICK k \in Places, m \in Places :
           /\ k = 2 * i + 1 /\ m = 2 * i + 2
           /\ VariableAt(OccupiedCells[k]) = VariableAt(OccupiedCells[m])
  BY <1>0
<1> DEFINE cycle == CycleOf(k)
<1>2. cycle \in SUBSET Nat /\ k \in cycle
  BY CycleOfPlace
<1>3. m \in cycle
  BY <1>1 DEF CycleOf, CopyCycle, Places
<1>4. k \in Nat /\ m \in Nat /\ m = k + 1
  <2>1. i \in Nat
    BY CellsOfTheKey DEF PublicRows
  <2> QED BY <1>1, <2>1
<1> HIDE DEF cycle
<1>5. ~IsLast(cycle, k) /\ ~IsFirst(cycle, m)
  BY <1>2, <1>3, <1>4 DEF IsLast, IsFirst
<1>6. PICK next \in cycle : next = Successor(cycle, k) /\ k < next /\ \A j \in cycle : j <= k \/ next <= j
  BY <1>2, <1>5, SuccessorIsNext
<1>7. next = m
  BY <1>2, <1>3, <1>4, <1>6
<1> QED BY <1>1, <1>3, <1>5, <1>6, <1>7 DEF cycle

-----------------------------------------------------------------------------
IdLabel(c)    == Label(PermutationMapping.ids[c])
SigmaLabel(c) == Label(PermutationMapping.sigmas[c])

TagOf(k) == real_variable_tags[VariableAt(OccupiedCells[k])]

LEMMA UnoccupiedLabels ==
    ASSUME Keyed, NEW c \in Cells, c \notin Occupied
    PROVE  IdLabel(c) = CellNumber(c) /\ SigmaLabel(c) = CellNumber(c)
<1> DEFINE own == Entry(c, FALSE, FALSE)
<1>1. PermutationMapping.ids[c] = own
  BY DEF PermutationMapping
<1>2. PermutationMapping.sigmas[c] = PublicSigma(c, own)
  BY DEF PermutationMapping
<1>3. ~(c[1] = 0 /\ c[2] < NumPublic)
  <2> SUFFICES ASSUME c[1] = 0, c[2] < NumPublic PROVE FALSE
    OBVIOUS
  <2>1. c[2] \in PublicRows /\ c = <<0, c[2]>>
    BY CellsOfTheKey, PermutationAssumption DEF Cells, PublicRows
  <2>2. 2 * c[2] + 1 \in Places /\ OccupiedCells[2 * c[2] + 1] = <<0, c[2]>>
    BY <2>1, PublicPlaces
  <2> QED BY <2>1, <2>2 DEF Occupied, Places
<1>4. PublicSigma(c, own) = own
  BY <1>3 DEF PublicSigma
<1>5. Label(own) = CellNumber(c)
  BY DEF Label, Entry, CellNumber
<1> QED BY <1>1, <1>2, <1>4, <1>5 DEF IdLabel, SigmaLabel

LEMMA PlaceOfCell ==
    ASSUME Keyed, NEW k \in Places
    PROVE  Place(OccupiedCells[k]) = k
<1>1. \A j \in Places : OccupiedCells[j] = OccupiedCells[k] => j = k
  BY CellsAreDistinct DEF Keyed
<1> QED BY <1>1 DEF Place, Places

LEMMA LabelsOfPlace ==
    ASSUME Keyed, NEW k \in Places
    PROVE  LET c    == OccupiedCells[k]
               next == OccupiedCells[Successor(CycleOf(k), k)]
           IN  /\ IdLabel(c) = IF Generalized /\ IsFirst(CycleOf(k), k) THEN TagLabel(TagOf(k)) ELSE CellNumber(c)
               /\ \A i \in PublicRows : c = <<0, i>> => SigmaLabel(c) = -(i + 1)
               /\ ~LeftPublic(k) =>
                    SigmaLabel(c) = IF Generalized /\ IsLast(CycleOf(k), k) THEN TagLabel(tau[TagOf(k)])
                                                                            ELSE CellNumber(next)
<1> DEFINE c     == OccupiedCells[k]
           next  == OccupiedCells[Successor(CycleOf(k), k)]
           id    == CycleId(VariableAt(c), k)
           sigma == CycleSigma(VariableAt(c), k)
<1>1. c \in Cells /\ c \in Occupied /\ Place(c) = k
  BY CellsOfTheKey, PlaceOfCell DEF Occupied, Places
<1>2. IdLabel(c) = Label(id)
  BY <1>1 DEF IdLabel, PermutationMapping
<1>3. SigmaLabel(c) = Label(PublicSigma(c, sigma))
  BY <1>1 DEF SigmaLabel, PermutationMapping
<1>4. Label(id) = IF Generalized /\ IsFirst(CycleOf(k), k) THEN TagLabel(TagOf(k)) ELSE CellNumber(c)
  <2>1. CASE Generalized /\ IsFirst(CycleOf(k), k)
    BY <2>1 DEF CycleId, Label, Entry, TagLabel, TagOf, CycleOf
  <2>2. CASE ~(Generalized /\ IsFirst(CycleOf(k), k))
    BY <2>2 DEF CycleId, Label, Entry, CellNumber, CycleOf
  <2> QED BY <2>1, <2>2
<1>5. Label(sigma) = IF Generalized /\ IsLast(CycleOf(k), k) THEN TagLabel(tau[TagOf(k)]) ELSE CellNumber(next)
  <2>1. CASE Generalized /\ IsLast(CycleOf(k), k)
    BY <2>1 DEF CycleSigma, Label, Entry, TagLabel, TagOf, CycleOf
  <2>2. CASE ~(Generalized /\ IsLast(CycleOf(k), k))
    BY <2>2 DEF CycleSigma, Label, Entry, CellNumber, CycleOf
  <2> QED BY <2>1, <2>2
<1>6. ASSUME NEW i \in PublicRows, c = <<0, i>> PROVE Label(PublicSigma(c, sigma)) = -(i + 1)
  <2>1. NumPublic \in Nat /\ CircuitSize \in Nat /\ i \in Nat /\ i < NumPublic
    BY CellsOfTheKey, PermutationAssumption DEF PublicRows
  <2>2. PublicSigma(c, sigma) = [sigma EXCEPT !.row = i, !.col = 0, !.is_public_input = TRUE]
    BY <1>6, <2>1 DEF PublicSigma
  <2>3. DOMAIN sigma = {"row", "col", "is_public_input", "is_tag"}
    BY DEF CycleSigma, Entry
  <2>4. PublicSigma(c, sigma).is_public_input /\ PublicSigma(c, sigma).row = i /\ PublicSigma(c, sigma).col = 0
    BY <2>2, <2>3
  <2>5. Label(PublicSigma(c, sigma)) = -(i + 1 + CircuitSize * 0)
    BY <2>4 DEF Label
  <2> QED BY <2>1, <2>5
<1>7. ~LeftPublic(k) => PublicSigma(c, sigma) = sigma
  <2> SUFFICES ASSUME c[1] = 0, c[2] < NumPublic PROVE LeftPublic(k)
    BY DEF PublicSigma
  <2>1. c[2] \in PublicRows /\ c = <<0, c[2]>>
    BY <1>1, CellsOfTheKey, PermutationAssumption DEF Cells, PublicRows
  <2> QED BY <2>1 DEF LeftPublic
<1> QED BY <1>2, <1>3, <1>4, <1>5, <1>6, <1>7

(***************************************************************************)
(* Three disjoint kinds of label.                                          *)
(***************************************************************************)
CellLabels   == 0 .. CircuitSize * ProgramWidth - 1
TagLabels    == {l \in Nat : l >= CircuitSize * ProgramWidth}
PublicLabels == {l \in Int : l < 0}

LEMMA KindsOfLabel ==
    /\ CellLabels \cap TagLabels = {} /\ CellLabels \cap PublicLabels = {} /\ TagLabels \cap PublicLabels = {}
    /\ \A c \in Cells : CellNumber(c) \in CellLabels
    /\ \A t \in Nat : TagLabel(t) \in TagLabels
    /\ \A s, t \in Nat : TagLabel(s) = TagLabel(t) => s = t
<1> DEFINE T == CircuitSize * ProgramWidth
<1>1. T \in Nat
  BY PermutationAssumption
<1>2. ASSUME NEW c \in Cells PROVE CellNumber(c) \in 0 .. T - 1
  <2>1. CellNumber(c) \in Nat /\ CellNumber(c) < T
    BY CellNumberBounds
  <2> HIDE DEF T
  <2> QED BY <1>1, <2>1
<1>3. \A t \in Nat : TagLabel(t) = T + t
  BY DEF TagLabel
<1>4. CellLabels = 0 .. T - 1 /\ TagLabels = {l \in Nat : l >= T}
  BY DEF CellLabels, TagLabels
<1> HIDE DEF T
<1>5. CellLabels \cap TagLabels = {}
  BY <1>1, <1>4
<1>6. CellLabels \cap PublicLabels = {} /\ TagLabels \cap PublicLabels = {}
  BY <1>1, <1>4 DEF PublicLabels
<1>7. \A t \in Nat : TagLabel(t) \in TagLabels
  BY <1>1, <1>3, <1>4
<1>8. \A s, t \in Nat : TagLabel(s) = TagLabel(t) => s = t
  BY <1>1, <1>3
<1> QED BY <1>2, <1>4, <1>5, <1>6, <1>7, <1>8

LEMMA PublicLabelKinds ==
    ASSUME Keyed, NEW i \in PublicRows
    PROVE  /\ DeltaLeft(i) = -(i + 1) /\ DeltaLeft(i) \in PublicLabels
           /\ \A j \in PublicRows : DeltaLeft(i) = DeltaLeft(j) => i = j
           /\ DeltaRight(i) = CellNumber(<<1, i>>)
<1>1. i \in Nat /\ PublicRows \subseteq Nat /\ CircuitSize \in Nat
  BY CellsOfTheKey, PermutationAssumption DEF PublicRows
<1>2. CellNumber(<<1, i>>) = CircuitSize + i
  BY <1>1 DEF CellNumber
<1> QED BY <1>1, <1>2 DEF DeltaLeft, DeltaRight, PublicLabels

LEMMA TagsOfPlaces ==
    ASSUME Keyed, NEW k \in Places
    PROVE  /\ VariableAt(OccupiedCells[k]) \in Indices
           /\ TagOf(k) \in DOMAIN tau /\ tau[TagOf(k)] \in DOMAIN tau
           /\ DOMAIN tau \subseteq Nat
<1>1. /\ public_inputs \in Seq(Indices) /\ wires \in Seq([Columns -> Indices])
      /\ real_variable_index \in [Indices -> Indices]
      /\ real_variable_tags \in [Indices -> DOMAIN tau]
      /\ DOMAIN tau \subseteq Nat /\ \A t \in DOMAIN tau : tau[t] \in DOMAIN tau
  BY CircuitAssumption DEF Keyed, PermInv, IInv, TypeOK, GatesNameVariables, TauSwaps
<1> DEFINE c == OccupiedCells[k]
<1>2. c \in Occupied
  BY DEF Occupied, Places
<1>3. VariableAt(c) \in Indices
  <2>1. NumPublic \in Nat /\ NumGates \in Nat
    BY <1>1 DEF NumPublic, NumGates
  <2>2. CASE c \in {0, 1} \X (0 .. NumPublic - 1)
    <3>1. c[2] < NumPublic /\ c[2] + 1 \in 1 .. Len(public_inputs)
      BY <2>1, <2>2 DEF NumPublic
    <3>2. public_inputs[c[2] + 1] \in Indices
      BY <1>1, <3>1
    <3> QED BY <1>1, <3>1, <3>2 DEF VariableAt, Real
  <2>3. CASE c \in Columns \X (NumPublic .. NumPublic + NumGates - 1)
    <3>1. ~(c[2] < NumPublic) /\ c[2] - NumPublic + 1 \in 1 .. Len(wires) /\ c[1] \in Columns
      BY <2>1, <2>3 DEF NumGates
    <3>2. wires[c[2] - NumPublic + 1] \in [Columns -> Indices]
      BY <1>1, <3>1
    <3>3. wires[c[2] - NumPublic + 1][c[1]] \in Indices
      BY <3>1, <3>2
    <3> QED BY <1>1, <3>1, <3>3 DEF VariableAt, Real
  <2> HIDE DEF c
  <2> QED BY <1>2, <2>2, <2>3, OccupiedIsPublicOrGate DEF Keyed
<1> QED BY <1>1, <1>3 DEF TagOf

\* What stands under the label of a cell on the left ...
LEMMA IdKinds ==
    ASSUME Keyed, NEW c \in Cells
    PROVE  \/ /\ IdLabel(c) = CellNumber(c)
              /\ \A k \in Places : c = OccupiedCells[k] => ~(Generalized /\ IsFirst(CycleOf(k), k))
           \/ \E k \in Places : /\ c = OccupiedCells[k] /\ Generalized /\ IsFirst(CycleOf(k), k)
                                /\ IdLabel(c) = TagLabel(TagOf(k))
<1>1. CASE c \notin Occupied
  BY <1>1, UnoccupiedLabels DEF Occupied, Places
<1>2. CASE c \in Occupied
  <2>1. PICK k \in Places : c = OccupiedCells[k]
    BY <1>2 DEF Occupied, Places
  <2>2. \A j \in Places : c = OccupiedCells[j] => j = k
    BY <2>1, CellsAreDistinct DEF Keyed
  <2> QED BY <2>1, <2>2, LabelsOfPlace
<1> QED BY <1>1, <1>2

\* ... and on the right.
LEMMA SigmaKinds ==
    ASSUME Keyed, NEW c \in Cells
    PROVE  \/ c \notin Occupied /\ SigmaLabel(c) = CellNumber(c)
           \/ \E i \in PublicRows : c = <<0, i>> /\ SigmaLabel(c) = DeltaLeft(i)
           \/ \E k \in Places : /\ c = OccupiedCells[k] /\ ~LeftPublic(k)
                                /\ Generalized /\ IsLast(CycleOf(k), k)
                                /\ SigmaLabel(c) = TagLabel(tau[TagOf(k)])
           \/ \E k \in Places : /\ c = OccupiedCells[k] /\ ~LeftPublic(k)
                                /\ ~(Generalized /\ IsLast(CycleOf(k), k))
                                /\ SigmaLabel(c) = CellNumber(OccupiedCells[Successor(CycleOf(k), k)])
<1>1. CASE c \notin Occupied
  BY <1>1, UnoccupiedLabels
<1>2. CASE c \in Occupied
  <2>1. PICK k \in Places : c = OccupiedCells[k]
    BY <1>2 DEF Occupied, Places
  <2>2. CASE LeftPublic(k)
    BY <2>1, <2>2, LabelsOfPlace DEF LeftPublic, DeltaLeft
  <2>3. CASE ~LeftPublic(k)
    BY <2>1, <2>3, LabelsOfPlace
  <2> QED BY <2>2, <2>3
<1> QED BY <1>1, <1>2

-----------------------------------------------------------------------------
(***************************************************************************)
(* What the two products hold under each label.                            *)
(***************************************************************************)
LeftCells(l)  == {c \in Cells : IdLabel(c) = l}
RightCells(l) == {c \in Cells : SigmaLabel(c) = l}
LeftX(l)      == {i \in PublicRows : DeltaLeft(i) = l}
RightX(l)     == {i \in PublicRows : DeltaRight(i) = l}

Sides(l, left, right, leftX, rightX) ==
    LeftCells(l) = left /\ RightCells(l) = right /\ LeftX(l) = leftX /\ RightX(l) = rightX

CellMeetsCell(l, a, b)    == Sides(l, {a}, {b}, {}, {})
CellMeetsPublic(l, a, i)  == Sides(l, {a}, {}, {}, {i})
PublicMeetsCell(l, i, a)  == Sides(l, {}, {a}, {i}, {})

\* The left cell of a public row stands under the label of its public input.
LEMMA PublicSides ==
    ASSUME Keyed, NEW i \in PublicRows
    PROVE  PublicMeetsCell(DeltaLeft(i), i, <<0, i>>)
<1> DEFINE l == DeltaLeft(i)
<1>1. l \in PublicLabels /\ \A j \in PublicRows : DeltaLeft(j) = l => j = i
  BY PublicLabelKinds
<1>2. \A c \in Cells : CellNumber(c) # l
  BY <1>1, KindsOfLabel
<1>3. \A k \in Places : TagLabel(TagOf(k)) # l /\ TagLabel(tau[TagOf(k)]) # l
  BY <1>1, TagsOfPlaces, KindsOfLabel
<1> HIDE DEF l
<1>4. \A c \in Cells : IdLabel(c) # l
  BY <1>2, <1>3, IdKinds
<1>5. \A k \in Places : OccupiedCells[Successor(CycleOf(k), k)] \in Cells
  BY CycleOfPlace, SuccessorIsNext, CellsOfTheKey
<1>6. \A c \in Cells : SigmaLabel(c) = l => c = <<0, i>>
  BY <1>1, <1>2, <1>3, <1>5, SigmaKinds
<1>7. <<0, i>> \in Cells /\ SigmaLabel(<<0, i>>) = l
  <2>1. PICK k \in Places : OccupiedCells[k] = <<0, i>>
    BY PublicPlaces
  <2>2. SigmaLabel(OccupiedCells[k]) = -(i + 1)
    BY <2>1, LabelsOfPlace
  <2>3. <<0, i>> \in Cells /\ -(i + 1) = l
    BY CellsOfTheKey, PublicLabelKinds DEF l
  <2> QED BY <2>1, <2>2, <2>3
<1>8. \A j \in PublicRows : DeltaRight(j) # l
  <2>1. \A j \in PublicRows : <<1, j>> \in Cells /\ DeltaRight(j) = CellNumber(<<1, j>>)
    BY CellsOfTheKey, PublicLabelKinds
  <2> QED BY <1>2, <2>1
<1>9. l = DeltaLeft(i)
  BY DEF l
<1> QED BY <1>1, <1>4, <1>6, <1>7, <1>8, <1>9 DEF PublicMeetsCell, Sides, LeftCells, RightCells, LeftX, RightX

\* Under the number of a cell no public input stands on the left, and one on
\* the right when the cell is the right cell of its row.
LEMMA CellSides ==
    ASSUME Keyed, NEW c \in Cells
    PROVE  /\ LeftX(CellNumber(c)) = {}
           /\ RightX(CellNumber(c)) = {i \in PublicRows : c = <<1, i>>}
           /\ LeftCells(CellNumber(c)) =
                {d \in {c} : \A k \in Places : c = OccupiedCells[k] => ~(Generalized /\ IsFirst(CycleOf(k), k))}
<1> DEFINE l == CellNumber(c)
<1>1. l \in CellLabels /\ \A d \in Cells : CellNumber(d) = l => d = c
  BY KindsOfLabel, CellNumberIsInjective
<1>2. \A i \in PublicRows : DeltaLeft(i) # l /\ (DeltaRight(i) = l <=> c = <<1, i>>)
  BY <1>1, KindsOfLabel, PublicLabelKinds, CellsOfTheKey, ZenonT(60)
<1>3. \A k \in Places : TagLabel(TagOf(k)) # l
  BY <1>1, TagsOfPlaces, KindsOfLabel
<1> HIDE DEF l
<1>4. \A d \in Cells : IdLabel(d) = l => d = c
  BY <1>1, <1>3, IdKinds
<1>5. IdLabel(c) = l <=> \A k \in Places : c = OccupiedCells[k] => ~(Generalized /\ IsFirst(CycleOf(k), k))
  <2>1. l = CellNumber(c)
    BY DEF l
  <2>2. CASE \E k \in Places : c = OccupiedCells[k] /\ Generalized /\ IsFirst(CycleOf(k), k)
    <3>1. PICK k \in Places : c = OccupiedCells[k] /\ Generalized /\ IsFirst(CycleOf(k), k)
      BY <2>2
    <3>2. IdLabel(c) = TagLabel(TagOf(k))
      BY <3>1, LabelsOfPlace
    <3> QED BY <1>3, <3>1, <3>2
  <2>3. CASE ~\E k \in Places : c = OccupiedCells[k] /\ Generalized /\ IsFirst(CycleOf(k), k)
    BY <2>1, <2>3, IdKinds
  <2> QED BY <2>2, <2>3
<1>6. LeftX(l) = {} /\ RightX(l) = {i \in PublicRows : c = <<1, i>>}
  BY <1>2 DEF LeftX, RightX
<1>7. LeftCells(l) =
        {d \in {c} : \A k \in Places : c = OccupiedCells[k] => ~(Generalized /\ IsFirst(CycleOf(k), k))}
  BY <1>4, <1>5 DEF LeftCells
<1> QED BY <1>6, <1>7 DEF l

\* What the walk writes at a place: the right-hand cells under the number of a
\* cell are those whose place the walk sends to it.
LEMMA CellRightSide ==
    ASSUME Keyed, NEW c \in Cells, NEW d \in Cells
    PROVE  d \in RightCells(CellNumber(c)) <=>
             \/ d \notin Occupied /\ d = c
             \/ \E k \in Places : /\ d = OccupiedCells[k] /\ ~LeftPublic(k)
                                  /\ ~(Generalized /\ IsLast(CycleOf(k), k))
                                  /\ c = OccupiedCells[Successor(CycleOf(k), k)]
<1> DEFINE l == CellNumber(c)
<1>1. l \in CellLabels /\ \A e \in Cells : CellNumber(e) = l <=> e = c
  BY KindsOfLabel, CellNumberIsInjective
<1>2. \A i \in PublicRows : DeltaLeft(i) # l
  BY <1>1, KindsOfLabel, PublicLabelKinds
<1>3. \A k \in Places : TagLabel(tau[TagOf(k)]) # l
  BY <1>1, TagsOfPlaces, KindsOfLabel
<1>4. \A k \in Places : OccupiedCells[Successor(CycleOf(k), k)] \in Cells
  BY CycleOfPlace, SuccessorIsNext, CellsOfTheKey
<1> HIDE DEF l
<1>5. ASSUME SigmaLabel(d) = l
      PROVE  \/ d \notin Occupied /\ d = c
             \/ \E k \in Places : /\ d = OccupiedCells[k] /\ ~LeftPublic(k)
                                  /\ ~(Generalized /\ IsLast(CycleOf(k), k))
                                  /\ c = OccupiedCells[Successor(CycleOf(k), k)]
  BY <1>1, <1>2, <1>3, <1>4, <1>5, SigmaKinds
<1>6. ASSUME d \notin Occupied, d = c PROVE SigmaLabel(d) = l
  BY <1>1, <1>6, UnoccupiedLabels
<1>7. ASSUME NEW k \in Places, d = OccupiedCells[k], ~LeftPublic(k),
             ~(Generalized /\ IsLast(CycleOf(k), k)), c = OccupiedCells[Successor(CycleOf(k), k)]
      PROVE  SigmaLabel(d) = l
  BY <1>1, <1>7, LabelsOfPlace
<1>8. d \in RightCells(l) <=> SigmaLabel(d) = l
  BY DEF RightCells
<1> QED BY <1>5, <1>6, <1>7, <1>8 DEF l

\* A cell outside the circuit stands for itself.
LEMMA UnoccupiedSides ==
    ASSUME Keyed, NEW c \in Cells, c \notin Occupied
    PROVE  CellMeetsCell(CellNumber(c), c, c)
<1>1. \A k \in Places : c # OccupiedCells[k]
  BY DEF Occupied, Places
<1>2. \A i \in PublicRows : c # <<1, i>>
  BY <1>1, PublicPlaces
<1>3. \A k \in Places : c # OccupiedCells[Successor(CycleOf(k), k)]
  BY <1>1, CycleOfPlace, SuccessorIsNext
<1>4. \A d \in Cells : d \in RightCells(CellNumber(c)) <=> d = c
  BY <1>3, CellRightSide
<1>5. RightCells(CellNumber(c)) = {c}
  BY <1>4 DEF RightCells
<1> QED BY <1>1, <1>2, <1>5, CellSides DEF CellMeetsCell, Sides

\* A step of the walk that does not close a generalised cycle: the cell it goes
\* to on the left, the cell it comes from on the right.
LEMMA StepSides ==
    ASSUME Keyed, NEW k \in Places, ~(Generalized /\ IsLast(CycleOf(k), k)), ~LeftPublic(k)
    PROVE  LET next == OccupiedCells[Successor(CycleOf(k), k)]
           IN  CellMeetsCell(CellNumber(next), next, OccupiedCells[k])
<1>1. PICK m \in Places : m = Successor(CycleOf(k), k) /\ m \in CycleOf(k)
  BY CycleOfPlace, SuccessorIsNext
<1> DEFINE cell == OccupiedCells[m]
           from == OccupiedCells[k]
<1>2. cell \in Cells /\ from \in Cells /\ cell \in Occupied /\ from \in Occupied
  BY CellsOfTheKey DEF Occupied, Places
<1>3. CycleOf(m) = CycleOf(k) /\ CycleOf(k) \in SUBSET Nat
  BY <1>1, CycleOfPlace
<1>4. \A j \in Places : cell = OccupiedCells[j] => j = m
  BY CellsAreDistinct DEF Keyed
<1>5. \A j \in Places : m = Successor(CycleOf(j), j) => j = k
  <2> SUFFICES ASSUME NEW j \in Places, m = Successor(CycleOf(j), j) PROVE j = k
    OBVIOUS
  <2>1. m \in CycleOf(j) /\ j \in CycleOf(j)
    BY CycleOfPlace, SuccessorIsNext
  <2>2. CycleOf(j) = CycleOf(k)
    BY <1>3, <2>1, CycleOfPlace
  <2>3. k \in CycleOf(k)
    BY CycleOfPlace
  <2> QED BY <1>1, <1>3, <2>1, <2>2, <2>3, SuccessorIsInjective
<1>6. ~(Generalized /\ IsFirst(CycleOf(m), m))
  <2> SUFFICES ASSUME Generalized, IsFirst(CycleOf(k), m) PROVE FALSE
    BY <1>3
  <2>1. k \in CycleOf(k) /\ k \in Nat /\ m \in Nat
    BY <1>1, <1>3, CycleOfPlace
  <2>2. k < m
    BY <1>1, <1>3, <2>1, SuccessorIsNext
  <2>3. m <= k
    BY <2>1 DEF IsFirst
  <2> QED BY <2>1, <2>2, <2>3
<1>7. \A i \in PublicRows : cell # <<1, i>>
  <2> SUFFICES ASSUME NEW i \in PublicRows, cell = <<1, i>> PROVE FALSE
    OBVIOUS
  <2>1. PICK j \in Places : /\ OccupiedCells[j] = <<0, i>>
                            /\ OccupiedCells[Successor(CycleOf(j), j)] = <<1, i>>
                            /\ Successor(CycleOf(j), j) \in Places
    BY PublicPlaces, PublicSuccessor
  <2>2. j = k
    BY <1>4, <1>5, <2>1
  <2> QED BY <2>1, <2>2 DEF LeftPublic
<1>8. \A d \in Cells : d \in RightCells(CellNumber(cell)) <=> d = from
  <2> SUFFICES ASSUME NEW d \in Cells PROVE d \in RightCells(CellNumber(cell)) <=> d = from
    OBVIOUS
  <2>1. ASSUME d = from PROVE d \in RightCells(CellNumber(cell))
    BY <1>1, <1>2, <2>1, CellRightSide
  <2>2. ASSUME d \in RightCells(CellNumber(cell)) PROVE d = from
    <3>1. ~(d \notin Occupied /\ d = cell)
      BY <1>2
    <3>2. PICK j \in Places : d = OccupiedCells[j] /\ cell = OccupiedCells[Successor(CycleOf(j), j)]
      BY <1>2, <2>2, <3>1, CellRightSide
    <3>3. Successor(CycleOf(j), j) \in Places
      BY CycleOfPlace, SuccessorIsNext
    <3>4. m = Successor(CycleOf(j), j)
      BY <1>4, <3>2, <3>3
    <3> QED BY <1>5, <3>2, <3>4
  <2> QED BY <2>1, <2>2
<1>9. RightCells(CellNumber(cell)) = {from}
  BY <1>2, <1>8 DEF RightCells
<1>10. LeftCells(CellNumber(cell)) = {cell}
  BY <1>2, <1>4, <1>6, CellSides
<1>11. LeftX(CellNumber(cell)) = {} /\ RightX(CellNumber(cell)) = {}
  BY <1>2, <1>7, CellSides
<1> QED BY <1>1, <1>9, <1>10, <1>11 DEF CellMeetsCell, Sides

\* The step from the left to the right cell of a public row is cut: in its
\* place stands the public input.
LEMMA CutSides ==
    ASSUME Keyed, NEW i \in PublicRows
    PROVE  CellMeetsPublic(CellNumber(<<1, i>>), <<1, i>>, i)
<1>1. PICK k \in Places, m \in Places :
          /\ OccupiedCells[k] = <<0, i>> /\ OccupiedCells[m] = <<1, i>>
          /\ m \in CycleOf(k) /\ m = Successor(CycleOf(k), k)
          /\ ~IsFirst(CycleOf(k), m)
  BY PublicPlaces, PublicSuccessor
<1> DEFINE cell == <<1, i>>
<1>2. cell \in Cells /\ cell \in Occupied
  BY <1>1, CellsOfTheKey DEF Occupied, Places
<1>3. CycleOf(m) = CycleOf(k) /\ CycleOf(k) \in SUBSET Nat
  BY <1>1, CycleOfPlace
<1>4. \A j \in Places : cell = OccupiedCells[j] => j = m
  BY <1>1, CellsAreDistinct DEF Keyed
<1>5. ASSUME NEW j \in Places, m = Successor(CycleOf(j), j) PROVE j = k
  <2>1. m \in CycleOf(j) /\ j \in CycleOf(j)
    BY <1>5, CycleOfPlace, SuccessorIsNext
  <2>2. CycleOf(j) = CycleOf(k)
    BY <1>3, <2>1, CycleOfPlace
  <2>3. k \in CycleOf(k)
    BY CycleOfPlace
  <2> QED BY <1>1, <1>3, <1>5, <2>1, <2>2, <2>3, SuccessorIsInjective
<1>6. \A d \in Cells : d \notin RightCells(CellNumber(cell))
  <2> SUFFICES ASSUME NEW d \in Cells, d \in RightCells(CellNumber(cell)) PROVE FALSE
    OBVIOUS
  <2>1. PICK j \in Places : /\ d = OccupiedCells[j] /\ ~LeftPublic(j)
                            /\ cell = OccupiedCells[Successor(CycleOf(j), j)]
    BY <1>2, CellRightSide
  <2>2. Successor(CycleOf(j), j) \in Places
    BY CycleOfPlace, SuccessorIsNext
  <2>3. j = k
    BY <1>4, <1>5, <2>1, <2>2
  <2> QED BY <1>1, <2>1, <2>3 DEF LeftPublic
<1>7. RightCells(CellNumber(cell)) = {}
  BY <1>6 DEF RightCells
<1>8. LeftCells(CellNumber(cell)) = {cell}
  BY <1>1, <1>2, <1>3, <1>4, CellSides
<1>9. LeftX(CellNumber(cell)) = {} /\ RightX(CellNumber(cell)) = {i}
  <2>1. \A j \in PublicRows : cell = <<1, j>> <=> j = i
    OBVIOUS
  <2> QED BY <1>2, <2>1, CellSides
<1> QED BY <1>7, <1>8, <1>9 DEF CellMeetsPublic, Sides

\* Nothing stands under the number of a cell that opens a generalised cycle.
LEMMA OpeningSides ==
    ASSUME Keyed, Generalized, NEW m \in Places, IsFirst(CycleOf(m), m)
    PROVE  Sides(CellNumber(OccupiedCells[m]), {}, {}, {}, {})
<1> DEFINE cell == OccupiedCells[m]
<1>1. cell \in Cells /\ cell \in Occupied
  BY CellsOfTheKey DEF Occupied, Places
<1>2. \A j \in Places : cell = OccupiedCells[j] => j = m
  BY CellsAreDistinct DEF Keyed
<1>3. \A i \in PublicRows : cell # <<1, i>>
  <2> SUFFICES ASSUME NEW i \in PublicRows, cell = <<1, i>> PROVE FALSE
    OBVIOUS
  <2>1. PICK k \in Places, n \in Places :
            OccupiedCells[n] = <<1, i>> /\ n \in CycleOf(k) /\ ~IsFirst(CycleOf(k), n)
    BY PublicPlaces, PublicSuccessor
  <2>2. n = m
    BY <1>2, <2>1
  <2> QED BY <2>1, <2>2, CycleOfPlace
<1>4. \A d \in Cells : d \notin RightCells(CellNumber(cell))
  <2> SUFFICES ASSUME NEW d \in Cells, d \in RightCells(CellNumber(cell)) PROVE FALSE
    OBVIOUS
  <2>1. PICK j \in Places : ~IsLast(CycleOf(j), j) /\ cell = OccupiedCells[Successor(CycleOf(j), j)]
    BY <1>1, CellRightSide
  <2>2. j \in CycleOf(j) /\ CycleOf(j) \in SUBSET Nat
    BY CycleOfPlace
  <2>3. Successor(CycleOf(j), j) \in CycleOf(j) /\ j < Successor(CycleOf(j), j)
    BY <2>1, <2>2, SuccessorIsNext
  <2>4. m = Successor(CycleOf(j), j)
    BY <1>2, <2>1, <2>3, CycleOfPlace
  <2>5. m \in CycleOf(j) /\ j < m /\ j \in Nat /\ m \in Nat
    BY <2>2, <2>3, <2>4
  <2>6. CycleOf(m) = CycleOf(j)
    BY <2>5, CycleOfPlace
  <2>7. m <= j
    BY <2>2, <2>6 DEF IsFirst
  <2> QED BY <2>5, <2>7
<1>5. RightCells(CellNumber(cell)) = {}
  BY <1>4 DEF RightCells
<1>6. LeftCells(CellNumber(cell)) = {}
  BY <1>1, CellSides
<1>7. LeftX(CellNumber(cell)) = {} /\ RightX(CellNumber(cell)) = {}
  BY <1>1, <1>3, CellSides
<1> QED BY <1>5, <1>6, <1>7 DEF Sides

\* Under a tag stand the openings of the cycles that carry it on the left, the
\* closings of the cycles that carry its image on the right.
LEMMA TagSides ==
    ASSUME Keyed, Generalized, NEW t \in DOMAIN tau
    PROVE  Sides(TagLabel(t),
                 {c \in Cells : \E k \in Places : c = OccupiedCells[k] /\ IsFirst(CycleOf(k), k) /\ TagOf(k) = t},
                 {c \in Cells : \E k \in Places : c = OccupiedCells[k] /\ IsLast(CycleOf(k), k) /\ TagOf(k) = tau[t]},
                 {}, {})
<1> DEFINE l == TagLabel(t)
<1>1. /\ DOMAIN tau \subseteq Nat
      /\ \A s \in DOMAIN tau : tau[s] \in DOMAIN tau /\ tau[tau[s]] = s
  BY CircuitAssumption DEF Keyed, PermInv, IInv, TypeOK, TauSwaps
<1>2. l \in TagLabels /\ \A s \in DOMAIN tau : TagLabel(s) = l => s = t
  BY <1>1, KindsOfLabel
<1>3. \A c \in Cells : CellNumber(c) # l
  BY <1>2, KindsOfLabel
<1>4. \A i \in PublicRows : DeltaLeft(i) # l /\ DeltaRight(i) # l
  BY <1>2, <1>3, KindsOfLabel, PublicLabelKinds, CellsOfTheKey, ZenonT(60)
<1>5. \A k \in Places : OccupiedCells[Successor(CycleOf(k), k)] \in Cells
  BY CycleOfPlace, SuccessorIsNext, CellsOfTheKey
<1>6. \A k \in Places : TagOf(k) \in DOMAIN tau
  BY TagsOfPlaces
<1> HIDE DEF l
<1>7. \A c \in Cells : IdLabel(c) = l <=>
        \E k \in Places : c = OccupiedCells[k] /\ IsFirst(CycleOf(k), k) /\ TagOf(k) = t
  <2> SUFFICES ASSUME NEW c \in Cells
               PROVE  IdLabel(c) = l <=>
                        \E k \in Places : c = OccupiedCells[k] /\ IsFirst(CycleOf(k), k) /\ TagOf(k) = t
    OBVIOUS
  <2>1. ASSUME IdLabel(c) = l
        PROVE  \E k \in Places : c = OccupiedCells[k] /\ IsFirst(CycleOf(k), k) /\ TagOf(k) = t
    BY <1>2, <1>3, <1>6, <2>1, IdKinds
  <2>2. ASSUME NEW k \in Places, c = OccupiedCells[k], IsFirst(CycleOf(k), k), TagOf(k) = t
        PROVE  IdLabel(c) = l
    BY <2>2, LabelsOfPlace DEF l
  <2> QED BY <2>1, <2>2
<1>8. \A c \in Cells : SigmaLabel(c) = l <=>
        \E k \in Places : c = OccupiedCells[k] /\ IsLast(CycleOf(k), k) /\ TagOf(k) = tau[t]
  <2> SUFFICES ASSUME NEW c \in Cells
               PROVE  SigmaLabel(c) = l <=>
                        \E k \in Places : c = OccupiedCells[k] /\ IsLast(CycleOf(k), k) /\ TagOf(k) = tau[t]
    OBVIOUS
  <2>1. ASSUME SigmaLabel(c) = l
        PROVE  \E k \in Places : c = OccupiedCells[k] /\ IsLast(CycleOf(k), k) /\ TagOf(k) = tau[t]
    <3>1. PICK k \in Places : /\ c = OccupiedCells[k] /\ IsLast(CycleOf(k), k)
                              /\ SigmaLabel(c) = TagLabel(tau[TagOf(k)])
      BY <1>3, <1>4, <1>5, <2>1, SigmaKinds
    <3>2. tau[TagOf(k)] = t
      BY <1>1, <1>2, <1>6, <2>1, <3>1
    <3> QED BY <1>1, <1>6, <3>1, <3>2
  <2>2. ASSUME NEW k \in Places, c = OccupiedCells[k], IsLast(CycleOf(k), k), TagOf(k) = tau[t]
        PROVE  SigmaLabel(c) = l
    <3>1. ~LeftPublic(k)
      <4> SUFFICES ASSUME NEW i \in PublicRows, OccupiedCells[k] = <<0, i>> PROVE FALSE
        BY DEF LeftPublic
      <4>1. PICK j \in Places : OccupiedCells[j] = <<0, i>> /\ ~IsLast(CycleOf(j), j)
        BY PublicPlaces, PublicSuccessor
      <4>2. j = k
        BY <4>1, CellsAreDistinct DEF Keyed
      <4> QED BY <2>2, <4>1, <4>2
    <3>2. SigmaLabel(c) = TagLabel(tau[TagOf(k)])
      BY <2>2, <3>1, LabelsOfPlace
    <3> QED BY <1>1, <2>2, <3>2 DEF l
  <2> QED BY <2>1, <2>2
<1>9. LeftX(l) = {} /\ RightX(l) = {}
  BY <1>4 DEF LeftX, RightX
<1> QED BY <1>7, <1>8, <1>9 DEF Sides, LeftCells, RightCells, l

\* Every label of the key is one of these.
AllLabels == {IdLabel(c) : c \in Cells} \cup {SigmaLabel(c) : c \in Cells}

LEMMA LabelsCovered ==
    ASSUME Keyed, NEW l \in AllLabels
    PROVE  \/ \E i \in PublicRows : l = DeltaLeft(i)
           \/ \E c \in Cells : l = CellNumber(c)
           \/ Generalized /\ \E t \in DOMAIN tau : l = TagLabel(t)
<1>1. \A k \in Places : TagOf(k) \in DOMAIN tau /\ tau[TagOf(k)] \in DOMAIN tau
  BY TagsOfPlaces
<1>2. \A k \in Places : OccupiedCells[Successor(CycleOf(k), k)] \in Cells
  BY CycleOfPlace, SuccessorIsNext, CellsOfTheKey
<1>3. PICK c \in Cells : l = IdLabel(c) \/ l = SigmaLabel(c)
  BY DEF AllLabels
<1>4. CASE l = IdLabel(c)
  BY <1>1, <1>4, IdKinds
<1>5. CASE l = SigmaLabel(c)
  BY <1>1, <1>2, <1>5, SigmaKinds
<1> QED BY <1>3, <1>4, <1>5

\* Every cell of the circuit opens a generalised cycle, is the right cell of a
\* public row, or is where a step of the walk goes to.
LEMMA CellsCovered ==
    ASSUME Keyed, NEW m \in Places
    PROVE  \/ Generalized /\ IsFirst(CycleOf(m), m)
           \/ \E i \in PublicRows : OccupiedCells[m] = <<1, i>>
           \/ \E k \in Places : /\ ~(Generalized /\ IsLast(CycleOf(k), k)) /\ ~LeftPublic(k)
                                /\ m = Successor(CycleOf(k), k)
<1> DEFINE cycle == CycleOf(m)
<1>1. m \in cycle /\ cycle \subseteq Places
  BY CycleOfPlace
<1>2. PICK k \in cycle : Successor(cycle, k) = m /\ (IsLast(cycle, k) <=> IsFirst(cycle, m))
  BY CycleOfPlace, SuccessorIsOnto
<1>3. CycleOf(k) = cycle /\ k \in Places
  BY <1>1, <1>2, CycleOfPlace
<1>4. CASE LeftPublic(k)
  <2>1. PICK i \in PublicRows : OccupiedCells[k] = <<0, i>>
    BY <1>4 DEF LeftPublic
  <2>2. PICK j \in Places : OccupiedCells[j] = <<0, i>> /\ OccupiedCells[Successor(CycleOf(j), j)] = <<1, i>>
    BY PublicPlaces, PublicSuccessor
  <2>3. j = k
    BY <1>3, <2>1, <2>2, CellsAreDistinct DEF Keyed
  <2> QED BY <1>2, <1>3, <2>2, <2>3
<1>5. CASE ~LeftPublic(k)
  BY <1>2, <1>3, <1>5
<1> QED BY <1>4, <1>5

-----------------------------------------------------------------------------
(***************************************************************************)
(* Counting.  The two products agree under a label when they hold every    *)
(* value equally often there.                                              *)
(***************************************************************************)
Count(S, f, v) == Cardinality({c \in S : f[c] = v})

Balanced(l, w, x) ==
    \A v \in CellValues :
        Count(LeftCells(l), w, v) + Count(LeftX(l), x, v) = Count(RightCells(l), w, v) + Count(RightX(l), x, v)

LEMMA ProductByLabel ==
    ASSUME mapping = PermutationMapping, NEW w, NEW x
    PROVE  ProductIsDelta(w, x) <=> \A l \in AllLabels : Balanced(l, w, x)
<1> DEFINE id     == [c \in Cells |-> Label(mapping.ids[c])]
           sigma  == [c \in Cells |-> Label(mapping.sigmas[c])]
           labels == {id[c] : c \in Cells} \cup {sigma[c] : c \in Cells}
<1>1. \A c \in Cells : id[c] = IdLabel(c) /\ sigma[c] = SigmaLabel(c)
  BY DEF IdLabel, SigmaLabel
<1>2. ProductIsDelta(w, x) <=>
        \A l \in labels :
          LET leftCells  == {c \in Cells : id[c] = l}
              rightCells == {c \in Cells : sigma[c] = l}
              leftX      == {i \in PublicRows : DeltaLeft(i) = l}
              rightX     == {i \in PublicRows : DeltaRight(i) = l}
          IN  \A v \in CellValues :
                Cardinality({c \in leftCells : w[c] = v}) + Cardinality({i \in leftX : x[i] = v})
                = Cardinality({c \in rightCells : w[c] = v}) + Cardinality({i \in rightX : x[i] = v})
  BY DEF ProductIsDelta
<1> HIDE DEF id, sigma
<1>3. labels = AllLabels
  BY <1>1 DEF AllLabels
<1>4. \A l : {c \in Cells : id[c] = l} = LeftCells(l) /\ {c \in Cells : sigma[c] = l} = RightCells(l)
  BY <1>1 DEF LeftCells, RightCells
<1>5. \A l : /\ {i \in PublicRows : DeltaLeft(i) = l} = LeftX(l)
             /\ {i \in PublicRows : DeltaRight(i) = l} = RightX(l)
  BY DEF LeftX, RightX
<1> HIDE DEF labels
<1> QED BY <1>2, <1>3, <1>4, <1>5 DEF Balanced, Count

LEMMA CountOfOne ==
    ASSUME NEW f, NEW a, NEW v
    PROVE  Count({a}, f, v) = (IF f[a] = v THEN 1 ELSE 0) /\ Count({}, f, v) = 0
<1> USE DEF Count
<1>1. {c \in {} : f[c] = v} = {}
  OBVIOUS
<1>2. CASE f[a] = v
  <2>1. {c \in {a} : f[c] = v} = {a}
    BY <1>2
  <2> QED BY <1>1, <1>2, <2>1, FS_EmptySet, FS_Singleton
<1>3. CASE f[a] # v
  <2>1. {c \in {a} : f[c] = v} = {}
    BY <1>3
  <2> QED BY <1>1, <1>3, <2>1, FS_EmptySet
<1> QED BY <1>2, <1>3

\* One cell on each side: they hold one value.
LEMMA BalancedCells ==
    ASSUME NEW l, NEW w, NEW x, NEW a, NEW b, w[a] \in CellValues, CellMeetsCell(l, a, b)
    PROVE  Balanced(l, w, x) <=> w[a] = w[b]
<1>1. Balanced(l, w, x) <=>
        \A v \in CellValues : (IF w[a] = v THEN 1 ELSE 0) + 0 = (IF w[b] = v THEN 1 ELSE 0) + 0
  BY CountOfOne DEF Balanced, Sides, CellMeetsCell
<1> QED BY <1>1

\* A cell against a public input: the cell holds it.
LEMMA BalancedInput ==
    ASSUME NEW l, NEW w, NEW x, NEW a, NEW i, x[i] \in CellValues, CellMeetsPublic(l, a, i)
    PROVE  Balanced(l, w, x) <=> w[a] = x[i]
<1>1. Balanced(l, w, x) <=>
        \A v \in CellValues : (IF w[a] = v THEN 1 ELSE 0) + 0 = 0 + (IF x[i] = v THEN 1 ELSE 0)
  BY CountOfOne DEF Balanced, Sides, CellMeetsPublic
<1> QED BY <1>1

LEMMA BalancedDelta ==
    ASSUME NEW l, NEW w, NEW x, NEW a, NEW i, x[i] \in CellValues, PublicMeetsCell(l, i, a)
    PROVE  Balanced(l, w, x) <=> w[a] = x[i]
<1>1. Balanced(l, w, x) <=>
        \A v \in CellValues : 0 + (IF x[i] = v THEN 1 ELSE 0) = (IF w[a] = v THEN 1 ELSE 0) + 0
  BY CountOfOne DEF Balanced, Sides, PublicMeetsCell
<1> QED BY <1>1

LEMMA BalancedNothing ==
    ASSUME NEW l, NEW w, NEW x, Sides(l, {}, {}, {}, {})
    PROVE  Balanced(l, w, x)
BY CountOfOne DEF Balanced, Sides

\* A label that no cell has stands under nothing.
LEMMA OtherLabels ==
    ASSUME NEW l, l \notin AllLabels
    PROVE  LeftCells(l) = {} /\ RightCells(l) = {}
BY DEF AllLabels, LeftCells, RightCells

(***************************************************************************)
(* The tags.  Counting classes is counting one place of each class.        *)
(***************************************************************************)
Used == {VariableAt(c) : c \in Occupied}

Times(w, t, y) ==
    Cardinality({v \in Used : real_variable_tags[v] = t /\ w[OccupiedCells[Leader(CopyCycle(v))]] = y})

LEMMA UsedIsFinite ==
    ASSUME Keyed
    PROVE  IsFiniteSet(Used)
<1>1. Used \subseteq Indices
  BY TagsOfPlaces DEF Used, Occupied, Places
<1>2. IsFiniteSet(Indices)
  BY CircuitAssumption, FS_Interval DEF Keyed, PermInv, IInv, TypeOK, Indices
<1> QED BY <1>1, <1>2, FS_Subset

LEMMA CountByClass ==
    ASSUME Keyed, NEW w, CopiesHold(w), NEW t, NEW y, NEW at \in [Used -> Places],
           \A v \in Used : VariableAt(OccupiedCells[at[v]]) = v
    PROVE  Times(w, t, y) =
             Cardinality({c \in Cells : /\ \E k \in Places : /\ c = OccupiedCells[k] /\ k = at[VariableAt(c)]
                                                             /\ TagOf(k) = t
                                        /\ w[c] = y})
<1> DEFINE S == {v \in Used : real_variable_tags[v] = t /\ w[OccupiedCells[Leader(CopyCycle(v))]] = y}
           T == {c \in Cells : /\ \E k \in Places : c = OccupiedCells[k] /\ k = at[VariableAt(c)] /\ TagOf(k) = t
                               /\ w[c] = y}
           f == [v \in S |-> OccupiedCells[at[v]]]
<1>1. \A k \in Places : OccupiedCells[k] \in Cells /\ OccupiedCells[k] \in Occupied
  BY CellsOfTheKey DEF Occupied, Places
<1>2. ASSUME NEW v \in Used
      PROVE  w[OccupiedCells[Leader(CopyCycle(v))]] = w[OccupiedCells[at[v]]]
  <2>1. PICK k \in Places : k = at[v] /\ VariableAt(OccupiedCells[k]) = v
    OBVIOUS
  <2>2. CopyCycle(v) = CycleOf(k)
    BY <2>1 DEF CycleOf
  <2>3. PICK j \in Places : j = Leader(CopyCycle(v)) /\ VariableAt(OccupiedCells[j]) = VariableAt(OccupiedCells[k])
    BY <2>2, CycleOfPlace, LeaderIsFirst
  <2> QED BY <1>1, <2>1, <2>3 DEF CopiesHold
<1>3. f \in [S -> T]
  <2> SUFFICES ASSUME NEW v \in S PROVE OccupiedCells[at[v]] \in T
    OBVIOUS
  <2>1. PICK k \in Places : k = at[v] /\ VariableAt(OccupiedCells[k]) = v
    OBVIOUS
  <2>2. TagOf(k) = t /\ w[OccupiedCells[k]] = y /\ OccupiedCells[k] \in Cells
    BY <1>1, <1>2, <2>1 DEF TagOf
  <2> QED BY <2>1, <2>2
<1>4. ASSUME NEW u \in S, NEW v \in S, f[u] = f[v] PROVE u = v
  BY <1>4
<1>5. ASSUME NEW c \in T PROVE \E v \in S : f[v] = c
  <2>1. PICK k \in Places : c = OccupiedCells[k] /\ k = at[VariableAt(c)] /\ TagOf(k) = t /\ w[c] = y
    OBVIOUS
  <2>2. VariableAt(c) \in Used
    BY <1>1, <2>1 DEF Used
  <2>3. VariableAt(c) \in S
    BY <1>2, <2>1, <2>2 DEF TagOf
  <2> QED BY <2>1, <2>3
<1>6. IsFiniteSet(S)
  BY UsedIsFinite, FS_Subset
<1> HIDE DEF S, T, f
<1>7. f \in Bijection(S, T)
  BY <1>3, <1>4, <1>5, Fun_IsBij
<1>8. Cardinality(T) = Cardinality(S)
  BY <1>6, <1>7, FS_Bijection DEF ExistsBijection
<1> QED BY <1>8 DEF S, T, Times

LEMMA EndsOfCycle ==
    ASSUME Keyed, NEW v \in Used
    PROVE  \E j, m \in Places :
             /\ j \in CopyCycle(v) /\ VariableAt(OccupiedCells[j]) = v /\ j = Leader(CopyCycle(v))
             /\ \A k \in CopyCycle(v) : IsFirst(CopyCycle(v), k) <=> k = j
             /\ m \in CopyCycle(v) /\ VariableAt(OccupiedCells[m]) = v
             /\ \A k \in CopyCycle(v) : IsLast(CopyCycle(v), k) <=> k = m
<1>1. PICK i \in Places : VariableAt(OccupiedCells[i]) = v
  BY DEF Used, Occupied, Places
<1> DEFINE cycle == CopyCycle(v)
           b == 2 * NumPublic + ProgramWidth * NumGates
<1>2. cycle = CycleOf(i)
  BY <1>1 DEF CycleOf
<1>3. /\ i \in cycle /\ cycle \in SUBSET Nat /\ cycle \subseteq Places /\ b \in Nat /\ cycle \in SUBSET (0 .. b)
      /\ \A k \in cycle : VariableAt(OccupiedCells[k]) = v
  BY <1>1, <1>2, CycleOfPlace
<1> HIDE DEF cycle, b
<1>4. PICK j \in cycle : j = Leader(cycle) /\ IsFirst(cycle, j)
  BY <1>3, LeaderIsFirst
<1>5. PICK m \in cycle : IsLast(cycle, m)
  BY <1>3, GreatestNumber DEF IsLast
<1>6. j \in Nat /\ m \in Nat /\ \A k \in cycle : k \in Nat
  BY <1>3
<1>7. \A k \in cycle : IsFirst(cycle, k) <=> k = j
  <2> SUFFICES ASSUME NEW k \in cycle, IsFirst(cycle, k) PROVE k = j
    BY <1>4
  <2>1. k <= j /\ j <= k
    BY <1>4 DEF IsFirst
  <2> QED BY <1>6, <2>1
<1>8. \A k \in cycle : IsLast(cycle, k) <=> k = m
  <2> SUFFICES ASSUME NEW k \in cycle, IsLast(cycle, k) PROVE k = m
    BY <1>5
  <2>1. k <= m /\ m <= k
    BY <1>5 DEF IsLast
  <2> QED BY <1>6, <2>1
<1> QED BY <1>3, <1>4, <1>5, <1>7, <1>8 DEF cycle

LEMMA TimesIsNat ==
    ASSUME Keyed, NEW w, NEW t, NEW y
    PROVE  Times(w, t, y) \in Nat
BY UsedIsFinite, FS_Subset, FS_CardinalityType DEF Times

\* Where the copy constraints hold, the products agree under a tag when the
\* classes that carry it and those that carry its image hold the same values.
LEMMA BalancedTag ==
    ASSUME Keyed, Generalized, NEW w, NEW x, CopiesHold(w), NEW t \in DOMAIN tau
    PROVE  Balanced(TagLabel(t), w, x) <=> \A y \in CellValues : Times(w, t, y) = Times(w, tau[t], y)
<1> DEFINE l     == TagLabel(t)
           first == [v \in Used |-> CHOOSE k \in Places : k \in CopyCycle(v) /\ IsFirst(CopyCycle(v), k)]
           last  == [v \in Used |-> CHOOSE k \in Places : k \in CopyCycle(v) /\ IsLast(CopyCycle(v), k)]
<1>1. \A v \in Used : /\ first[v] \in Places /\ VariableAt(OccupiedCells[first[v]]) = v
                      /\ \A k \in CopyCycle(v) : IsFirst(CopyCycle(v), k) <=> k = first[v]
  <2> SUFFICES ASSUME NEW v \in Used
               PROVE  /\ first[v] \in Places /\ VariableAt(OccupiedCells[first[v]]) = v
                      /\ \A k \in CopyCycle(v) : IsFirst(CopyCycle(v), k) <=> k = first[v]
    OBVIOUS
  <2>1. PICK j \in Places : /\ j \in CopyCycle(v) /\ VariableAt(OccupiedCells[j]) = v
                            /\ \A k \in CopyCycle(v) : IsFirst(CopyCycle(v), k) <=> k = j
    BY EndsOfCycle
  <2>2. first[v] = j
    BY <2>1
  <2> QED BY <2>1, <2>2
<1>2. \A v \in Used : /\ last[v] \in Places /\ VariableAt(OccupiedCells[last[v]]) = v
                      /\ \A k \in CopyCycle(v) : IsLast(CopyCycle(v), k) <=> k = last[v]
  <2> SUFFICES ASSUME NEW v \in Used
               PROVE  /\ last[v] \in Places /\ VariableAt(OccupiedCells[last[v]]) = v
                      /\ \A k \in CopyCycle(v) : IsLast(CopyCycle(v), k) <=> k = last[v]
    OBVIOUS
  <2>1. PICK j \in Places : /\ j \in CopyCycle(v) /\ VariableAt(OccupiedCells[j]) = v
                            /\ \A k \in CopyCycle(v) : IsLast(CopyCycle(v), k) <=> k = j
    BY EndsOfCycle
  <2>2. last[v] = j
    BY <2>1
  <2> QED BY <2>1, <2>2
<1>3. first \in [Used -> Places] /\ last \in [Used -> Places]
  BY <1>1, <1>2
<1> HIDE DEF first, last
<1>4. \A k \in Places : /\ VariableAt(OccupiedCells[k]) \in Used
                        /\ k \in CycleOf(k) /\ CycleOf(k) = CopyCycle(VariableAt(OccupiedCells[k]))
  BY CycleOfPlace DEF Used, Occupied, Places, CycleOf
<1>5. \A k \in Places : /\ IsFirst(CycleOf(k), k) <=> k = first[VariableAt(OccupiedCells[k])]
                        /\ IsLast(CycleOf(k), k) <=> k = last[VariableAt(OccupiedCells[k])]
  BY <1>1, <1>2, <1>4
<1>6. Sides(l, {c \in Cells : \E k \in Places : c = OccupiedCells[k] /\ IsFirst(CycleOf(k), k) /\ TagOf(k) = t},
               {c \in Cells : \E k \in Places : c = OccupiedCells[k] /\ IsLast(CycleOf(k), k) /\ TagOf(k) = tau[t]},
               {}, {})
  BY TagSides
<1>7. ASSUME NEW y PROVE Count(LeftCells(l), w, y) = Times(w, t, y)
  <2> DEFINE A == {c \in LeftCells(l) : w[c] = y}
             B == {c \in Cells : /\ \E k \in Places : c = OccupiedCells[k] /\ k = first[VariableAt(c)] /\ TagOf(k) = t
                                 /\ w[c] = y}
  <2>1. A = B
    BY <1>5, <1>6 DEF Sides
  <2>2. Times(w, t, y) = Cardinality(B)
    BY <1>1, <1>3, CountByClass
  <2>3. Count(LeftCells(l), w, y) = Cardinality(A)
    BY DEF Count
  <2> QED BY <2>1, <2>2, <2>3
<1>8. ASSUME NEW y PROVE Count(RightCells(l), w, y) = Times(w, tau[t], y)
  <2> DEFINE A == {c \in RightCells(l) : w[c] = y}
             B == {c \in Cells : /\ \E k \in Places : c = OccupiedCells[k] /\ k = last[VariableAt(c)] /\ TagOf(k) = tau[t]
                                 /\ w[c] = y}
  <2>1. A = B
    BY <1>5, <1>6 DEF Sides
  <2>2. Times(w, tau[t], y) = Cardinality(B)
    BY <1>2, <1>3, CountByClass
  <2>3. Count(RightCells(l), w, y) = Cardinality(A)
    BY DEF Count
  <2> QED BY <2>1, <2>2, <2>3
<1>9. \A y : Count(LeftX(l), x, y) = 0 /\ Count(RightX(l), x, y) = 0
  BY <1>6, CountOfOne DEF Sides
<1>10. \A y : Times(w, t, y) \in Nat /\ Times(w, tau[t], y) \in Nat
  BY TimesIsNat
<1> HIDE DEF l
<1>11. Balanced(l, w, x) <=> \A y \in CellValues : Times(w, t, y) = Times(w, tau[t], y)
  BY <1>7, <1>8, <1>9, <1>10 DEF Balanced
<1> QED BY <1>11 DEF l

LEMMA TagSetsByTimes ==
    ASSUME NEW w
    PROVE  TagSetsHold(w) <=> \A t \in DOMAIN tau, y \in CellValues : Times(w, t, y) = Times(w, tau[t], y)
<1> DEFINE used == {VariableAt(c) : c \in Occupied}
           valueOf == [v \in used |-> w[OccupiedCells[Leader(CopyCycle(v))]]]
           times(t, y) == Cardinality({v \in used : real_variable_tags[v] = t /\ valueOf[v] = y})
<1>1. TagSetsHold(w) <=> \A t \in DOMAIN tau, y \in CellValues : times(t, y) = times(tau[t], y)
  BY DEF TagSetsHold
<1>2. ASSUME NEW t, NEW y PROVE times(t, y) = Times(w, t, y)
  <2>1. {v \in used : real_variable_tags[v] = t /\ valueOf[v] = y}
          = {v \in Used : real_variable_tags[v] = t /\ w[OccupiedCells[Leader(CopyCycle(v))]] = y}
    BY DEF Used
  <2> QED BY <2>1 DEF Times
<1> HIDE DEF times
<1> QED BY <1>1, <1>2

-----------------------------------------------------------------------------
(***************************************************************************)
(* The argument is exact: what is accepted holds, what holds is accepted.  *)
(***************************************************************************)
TableValues(w)  == \A c \in Cells : w[c] \in CellValues
PublicValues(x) == \A i \in PublicRows : x[i] \in CellValues

LEMMA AcceptedHolds ==
    ASSUME Keyed, NEW w, NEW x, TableValues(w), PublicValues(x),
           \A l \in AllLabels : Balanced(l, w, x)
    PROVE  CopiesHold(w) /\ PublicHold(w, x) /\ (Generalized => TagSetsHold(w))
<1>1. \A l : Balanced(l, w, x)
  <2> SUFFICES ASSUME NEW l, l \notin AllLabels, LeftX(l) # {} \/ RightX(l) # {} PROVE FALSE
    <3>1. ASSUME NEW l, l \notin AllLabels, LeftX(l) = {}, RightX(l) = {} PROVE Balanced(l, w, x)
      BY <3>1, OtherLabels, BalancedNothing DEF Sides
    <3> QED BY <3>1
  <2>1. LeftCells(l) = {} /\ RightCells(l) = {}
    BY OtherLabels
  <2>2. PICK i \in PublicRows : l = DeltaLeft(i) \/ l = DeltaRight(i)
    BY DEF LeftX, RightX
  <2>3. PublicMeetsCell(DeltaLeft(i), i, <<0, i>>) /\ CellMeetsPublic(DeltaRight(i), <<1, i>>, i)
    BY PublicSides, CutSides, PublicLabelKinds
  <2> QED BY <2>1, <2>2, <2>3 DEF Sides, CellMeetsPublic, PublicMeetsCell
<1>2. PublicHold(w, x)
  <2> SUFFICES ASSUME NEW i \in PublicRows PROVE w[<<0, i>>] = x[i] /\ w[<<1, i>>] = x[i]
    BY DEF PublicHold
  <2>1. Balanced(DeltaLeft(i), w, x) /\ Balanced(CellNumber(<<1, i>>), w, x) /\ x[i] \in CellValues
    BY <1>1 DEF PublicValues
  <2>2. PublicMeetsCell(DeltaLeft(i), i, <<0, i>>) /\ CellMeetsPublic(CellNumber(<<1, i>>), <<1, i>>, i)
    BY PublicSides, CutSides
  <2>3. w[<<0, i>>] = x[i]
    BY <2>1, <2>2, BalancedDelta
  <2>4. w[<<1, i>>] = x[i]
    BY <2>1, <2>2, BalancedInput
  <2> QED BY <2>3, <2>4
<1>3. ASSUME NEW k \in Places, ~IsLast(CycleOf(k), k)
      PROVE  w[OccupiedCells[k]] = w[OccupiedCells[Successor(CycleOf(k), k)]]
  <2>1. CASE LeftPublic(k)
    <3>1. PICK i \in PublicRows : OccupiedCells[k] = <<0, i>>
      BY <2>1 DEF LeftPublic
    <3>2. PICK j \in Places : OccupiedCells[j] = <<0, i>> /\ OccupiedCells[Successor(CycleOf(j), j)] = <<1, i>>
      BY PublicPlaces, PublicSuccessor
    <3>3. j = k
      BY <3>1, <3>2, CellsAreDistinct DEF Keyed
    <3> QED BY <1>2, <3>1, <3>2, <3>3 DEF PublicHold
  <2>2. CASE ~LeftPublic(k)
    <3> DEFINE next == OccupiedCells[Successor(CycleOf(k), k)]
    <3>1. next \in Cells
      BY CycleOfPlace, SuccessorIsNext, CellsOfTheKey
    <3>2. CellMeetsCell(CellNumber(next), next, OccupiedCells[k])
      BY <1>3, <2>2, StepSides
    <3> HIDE DEF next
    <3>3. Balanced(CellNumber(next), w, x) /\ w[next] \in CellValues
      BY <1>1, <3>1 DEF TableValues
    <3>4. Balanced(CellNumber(next), w, x) <=> w[next] = w[OccupiedCells[k]]
      BY <3>2, <3>3, BalancedCells
    <3> QED BY <3>3, <3>4 DEF next
  <2> QED BY <2>1, <2>2
<1>4. ASSUME NEW j \in Places, NEW k \in CycleOf(j) PROVE w[OccupiedCells[j]] = w[OccupiedCells[k]]
  <2> DEFINE cycle == CycleOf(j)
             b == 2 * NumPublic + ProgramWidth * NumGates
             f == [n \in Places |-> w[OccupiedCells[n]]]
  <2>1. j \in cycle /\ k \in cycle /\ b \in Nat /\ cycle \in SUBSET (0 .. b) /\ cycle \in SUBSET Nat
    BY <1>4, CycleOfPlace
  <2>2. \A n \in cycle : n \in Places /\ CycleOf(n) = cycle
    BY CycleOfPlace
  <2>3. \A n \in cycle : ~IsLast(cycle, n) => w[OccupiedCells[n]] = w[OccupiedCells[Successor(cycle, n)]]
    BY <1>3, <2>2
  <2>4. \A n \in cycle : Successor(cycle, n) \in Places
    BY <2>1, <2>2, SuccessorIsNext
  <2> HIDE DEF cycle, b
  <2>5. \A n \in cycle : ~IsLast(cycle, n) => f[n] = f[Successor(cycle, n)]
    BY <2>2, <2>3, <2>4
  <2> HIDE DEF f
  <2>6. f[j] = f[k]
    BY <2>1, <2>5, SameAroundCycle
  <2> QED BY <2>1, <2>2, <2>6 DEF f
<1>5. CopiesHold(w)
  <2> SUFFICES ASSUME NEW c \in Occupied, NEW d \in Occupied, VariableAt(c) = VariableAt(d) PROVE w[c] = w[d]
    BY DEF CopiesHold
  <2>1. PICK j \in Places, k \in Places : c = OccupiedCells[j] /\ d = OccupiedCells[k]
    BY DEF Occupied, Places
  <2>2. k \in CycleOf(j)
    BY <2>1 DEF CycleOf, CopyCycle, Places
  <2> QED BY <1>4, <2>1, <2>2
<1>6. Generalized => TagSetsHold(w)
  BY <1>1, <1>5, BalancedTag, TagSetsByTimes
<1> QED BY <1>2, <1>5, <1>6

LEMMA HoldsAccepted ==
    ASSUME Keyed, NEW w, NEW x, TableValues(w), PublicValues(x),
           CopiesHold(w), PublicHold(w, x), Generalized => TagSetsHold(w), NEW l \in AllLabels
    PROVE  Balanced(l, w, x)
<1>1. ASSUME NEW i \in PublicRows PROVE Balanced(DeltaLeft(i), w, x) /\ Balanced(CellNumber(<<1, i>>), w, x)
  <2>1. w[<<0, i>>] = x[i] /\ w[<<1, i>>] = x[i] /\ x[i] \in CellValues
    BY DEF PublicHold, PublicValues
  <2>2. Balanced(DeltaLeft(i), w, x)
    BY <2>1, PublicSides, BalancedDelta
  <2>3. Balanced(CellNumber(<<1, i>>), w, x)
    BY <2>1, CutSides, BalancedInput
  <2> QED BY <2>2, <2>3
<1>2. ASSUME NEW k \in Places, ~(Generalized /\ IsLast(CycleOf(k), k)), ~LeftPublic(k)
      PROVE  Balanced(CellNumber(OccupiedCells[Successor(CycleOf(k), k)]), w, x)
  <2> DEFINE next == OccupiedCells[Successor(CycleOf(k), k)]
  <2>1. next \in Cells /\ next \in Occupied /\ VariableAt(next) = VariableAt(OccupiedCells[k])
    BY CycleOfPlace, SuccessorIsNext, CellsOfTheKey DEF Occupied, Places
  <2>2. OccupiedCells[k] \in Occupied
    BY DEF Occupied, Places
  <2>3. CellMeetsCell(CellNumber(next), next, OccupiedCells[k])
    BY <1>2, StepSides
  <2> HIDE DEF next
  <2>4. w[next] = w[OccupiedCells[k]] /\ w[next] \in CellValues
    BY <2>1, <2>2 DEF CopiesHold, TableValues
  <2>5. Balanced(CellNumber(next), w, x)
    BY <2>3, <2>4, BalancedCells
  <2> QED BY <2>5 DEF next
<1>3. ASSUME NEW c \in Cells PROVE Balanced(CellNumber(c), w, x)
  <2>1. CASE c \notin Occupied
    BY <2>1, UnoccupiedSides, BalancedCells DEF TableValues
  <2>2. CASE c \in Occupied
    <3>1. PICK m \in Places : c = OccupiedCells[m]
      BY <2>2 DEF Occupied, Places
    <3>2. CASE Generalized /\ IsFirst(CycleOf(m), m)
      BY <3>1, <3>2, OpeningSides, BalancedNothing
    <3>3. CASE \E i \in PublicRows : OccupiedCells[m] = <<1, i>>
      BY <1>1, <3>1, <3>3
    <3>4. CASE \E k \in Places : /\ ~(Generalized /\ IsLast(CycleOf(k), k)) /\ ~LeftPublic(k)
                                 /\ m = Successor(CycleOf(k), k)
      BY <1>2, <3>1, <3>4
    <3> QED BY <3>2, <3>3, <3>4, CellsCovered
  <2> QED BY <2>1, <2>2
<1>4. Generalized => \A t \in DOMAIN tau : Balanced(TagLabel(t), w, x)
  BY BalancedTag, TagSetsByTimes
<1> QED BY <1>1, <1>3, <1>4, LabelsCovered

\* A mapping, once computed, is that of the circuit, which is not built on.
MappingIsComputed == mapping = NoKey \/ mapping = PermutationMapping

LEMMA MappingStep == MappingIsComputed /\ [PermNext]_permVars => MappingIsComputed'
<1> SUFFICES ASSUME MappingIsComputed, [PermNext]_permVars PROVE MappingIsComputed'
  OBVIOUS
<1>1. ASSUME UNCHANGED <<vars, wires>> PROVE PermutationMapping' = PermutationMapping
  <2>1. /\ public_inputs' = public_inputs /\ wires' = wires /\ tau' = tau
        /\ real_variable_index' = real_variable_index /\ real_variable_tags' = real_variable_tags
    BY <1>1 DEF vars, chains, tagVars
  <2> QED
    BY <2>1 DEF PermutationMapping, PublicSigma, CycleSigma, CycleId, CopyCycle, Occupied, OccupiedCells, Place,
         VariableAt, Real, GateRow, NumPublic, NumGates
<1>2. CASE ComputeMapping
  BY <1>1, <1>2 DEF ComputeMapping, MappingIsComputed
<1>3. CASE Construct \/ CreateGate
  BY <1>3 DEF Construct, CreateGate, Building, MappingIsComputed, NoKey
<1>4. CASE UNCHANGED permVars
  BY <1>1, <1>4 DEF permVars, MappingIsComputed, NoKey
<1> QED BY <1>2, <1>3, <1>4 DEF PermNext

LEMMA MappingAlways == PermSpec => []MappingIsComputed
<1>1. PermInit => MappingIsComputed
  BY DEF PermInit, MappingIsComputed
<1> QED BY <1>1, MappingStep, PTL DEF PermSpec

LEMMA ExactByInvariant == PermInv /\ TauSwaps /\ MappingIsComputed => ArgumentIsExact
<1> SUFFICES ASSUME PermInv, TauSwaps, MappingIsComputed, mapping # NoKey,
                    NEW w \in [Cells -> CellValues], NEW x \in [PublicRows -> CellValues]
             PROVE  ProductIsDelta(w, x) <=> CopiesHold(w) /\ PublicHold(w, x) /\ (Generalized => TagSetsHold(w))
  BY DEF ArgumentIsExact
<1>1. Keyed /\ mapping = PermutationMapping
  BY DEF Keyed, PermInv, RowsSuffice, MappingIsComputed
<1>0. TableValues(w) /\ PublicValues(x)
  BY DEF TableValues, PublicValues
<1>2. ProductIsDelta(w, x) <=> \A l \in AllLabels : Balanced(l, w, x)
  BY <1>1, ProductByLabel
<1>3. ASSUME \A l \in AllLabels : Balanced(l, w, x)
      PROVE  CopiesHold(w) /\ PublicHold(w, x) /\ (Generalized => TagSetsHold(w))
  BY <1>0, <1>1, <1>3, AcceptedHolds
<1>4. ASSUME CopiesHold(w), PublicHold(w, x), Generalized => TagSetsHold(w)
      PROVE  \A l \in AllLabels : Balanced(l, w, x)
  BY <1>0, <1>1, <1>4, HoldsAccepted
<1> QED BY <1>2, <1>3, <1>4

\* The permutation argument of every computed key accepts a table and public
\* inputs iff the copy constraints hold in the table, the public inputs stand
\* in their rows and, generalised, the tagged sets match: for every circuit,
\* of any size, with any joins, tags and public inputs.
THEOREM PermutationIsExact == PermSpec => []ArgumentIsExact
<1>1. PermSpec => []TauSwaps
  BY BuildsACircuit, TauIsInvolution, PTL
<1> QED BY <1>1, GatesAreValid, MappingAlways, ExactByInvariant, PTL

\* The witness of compute_witness_base passes the argument of the key that was
\* computed from the same circuit.
THEOREM WitnessPasses == PermSpec => []HonestWitnessPasses
<1>1. PermInv /\ HonestWitnessIsATable /\ ArgumentIsExact => HonestWitnessPasses
  <2> DEFINE x == [i \in PublicRows |-> GetVariable(public_inputs[i + 1])]
  <2> SUFFICES ASSUME PermInv, HonestWitnessIsATable, ArgumentIsExact, mapping # NoKey,
                      Generalized => TagSetsHold(Witness)
               PROVE  ProductIsDelta(Witness, x)
    BY DEF HonestWitnessPasses
  <2>1. /\ public_inputs \in Seq(Indices) /\ wires \in Seq([Columns -> Indices])
        /\ \A i \in Indices : GetVariable(i) \in CellValues
        /\ 0 \in CellValues
    BY PermutationAssumption DEF PermInv, IInv, TypeOK, GatesNameVariables, GetVariable, Real
  <2>2. x \in [PublicRows -> CellValues]
    <3> SUFFICES ASSUME NEW i \in PublicRows PROVE GetVariable(public_inputs[i + 1]) \in CellValues
      OBVIOUS
    <3>1. i + 1 \in 1 .. Len(public_inputs)
      BY <2>1 DEF PublicRows, NumPublic
    <3> QED BY <2>1, <3>1
  <2>3. Witness \in [Cells -> CellValues]
    <3> SUFFICES ASSUME NEW c \in Cells PROVE Witness[c] \in CellValues
      BY DEF Witness
    <3>1. c[1] \in Columns /\ c[2] \in Nat /\ NumPublic \in Nat /\ NumGates \in Nat
      BY <2>1, PermutationAssumption DEF Cells, NumPublic, NumGates
    <3>2. CASE c[2] < NumPublic
      <4>1. c[2] + 1 \in 1 .. Len(public_inputs)
        BY <2>1, <3>1, <3>2 DEF NumPublic
      <4>2. public_inputs[c[2] + 1] \in Indices
        BY <2>1, <4>1
      <4>3. GetVariable(public_inputs[c[2] + 1]) \in CellValues
        BY <2>1, <4>2
      <4> QED BY <2>1, <3>2, <4>3 DEF Witness
    <3>3. CASE ~(c[2] < NumPublic) /\ c[2] < NumPublic + NumGates
      <4>1. c[2] - NumPublic + 1 \in 1 .. Len(wires)
        BY <2>1, <3>1, <3>3 DEF NumGates
      <4>2. wires[c[2] - NumPublic + 1][c[1]] \in Indices
        BY <2>1, <3>1, <4>1
      <4>3. GetVariable(wires[c[2] - NumPublic + 1][c[1]]) \in CellValues
        BY <2>1, <4>2
      <4> QED BY <3>3, <4>3 DEF Witness
    <3>4. CASE ~(c[2] < NumPublic) /\ ~(c[2] < NumPublic + NumGates)
      BY <2>1, <3>4 DEF Witness
    <3> QED BY <3>2, <3>3, <3>4
  <2>4. CopiesHold(Witness) /\ PublicHold(Witness, x)
    BY DEF HonestWitnessIsATable
  <2> HIDE DEF x
  <2> QED BY <2>2, <2>3, <2>4 DEF ArgumentIsExact
<1> QED BY <1>1, GatesAreValid, WitnessRespectsCopies, PermutationIsExact, PTL
=============================================================================
