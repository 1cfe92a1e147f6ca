--------------------------- MODULE MemoryArraysProofs ---------------------------
(***************************************************************************)
(* Proofs about MemoryArrays, for every size of the array, every field and *)
(* every program over one array.                                           *)
(*                                                                         *)
(* ArraysInv describes the circuit of every reachable state: a built       *)
(* circuit (Built: a constant is fixed by a gate, a record has a gate      *)
(* of its own and the indices it may name, a set cell has a record that    *)
(* carries it, the values are those of an honest run) until it is          *)
(* finalised, and afterwards a built circuit with every cell set, followed *)
(* by a second list of its records as a sort may leave them.               *)
(*                                                                         *)
(* From that the gates speak: the tags make the rows of the second list    *)
(* the records of the first as bags; the index of a row is that of the row *)
(* before or one more; so rows of one index are neighbours, and what a     *)
(* row holds is carried to the next.                                       *)
(*                                                                         *)
(* The witness of the program itself follows the other way: the sorted     *)
(* list has no gaps, and the rows of a cell are in the order of its        *)
(* accesses, so every gate holds if the indices were those of the cells.   *)
(***************************************************************************)
EXTENDS MemoryArrays, LeastElements, SequenceTheorems

Wires == [1 .. 4 -> Nat]

GateTypes == {"ROM_READ", "RAM_READ", "RAM_WRITE", "ROM_CHECK", "RAM_CHECK", "TIMESTAMP", "FIX", "EMPTY"}

ConstantMaps == UNION {[D -> Nat] : D \in SUBSET Int}

\* A circuit as the program builds it, before the second lists.
Circuits ==
    [variables     : Seq(Int),
     constants     : ConstantMaps,
     gates         : Seq([type : GateTypes, w : Seq(Nat), c : Int]),
     kind          : {"NONE", "ROM", "RAM"},
     state         : [Cells -> Nat \X Nat],
     records       : Seq([w : Seq(Nat), index : Int, timestamp : Int, access : {"READ", "WRITE"},
                          record_witness : Nat, gate : Nat]),
     access_count  : Nat,
     tags          : {{}},
     ranges        : {{}},
     read_records  : {{}},
     write_records : {{}}]

\* The constant zero and the witnesses of the program come first.
NumProgram == 1 + MaxIndices + MaxValues

\* A constant is a variable of its own, fixed by a gate.
ConstantsFixed(c) ==
    /\ 0 \in DOMAIN c.constants /\ c.constants[0] = zero_idx /\ c.variables[zero_idx] = 0
    /\ \A x \in DOMAIN c.constants :
          /\ c.constants[x] \in 1 .. NumVariables(c)
          /\ x # 0 => c.constants[x] > NumProgram
          /\ \E k \in DOMAIN c.gates :
                c.gates[k].type = "FIX" /\ c.gates[k].w[1] = c.constants[x] /\ c.gates[k].c = x

\* An index is a variable of the program or the constant of a cell.
IsIndex(c, v) == v \in IndexVariables \/ \E i \in Cells \cap DOMAIN c.constants : v = c.constants[i]

\* A record is that of its gate.
RecordFits(c, k) ==
    LET r == c.records[k]
        g == c.gates[r.gate]
    IN  /\ r.gate \in DOMAIN c.gates
        /\ g.type = AccessGate(c, r.access)
        /\ g.w[1] = r.w[1] /\ g.w[2] = r.w[2] /\ g.w[3] = r.w[3] /\ g.w[4] = r.record_witness
        /\ r.record_witness \in 2 .. NumVariables(c)
        /\ \A j \in 1 .. 3 : r.w[j] \in 1 .. NumVariables(c)
        /\ IsIndex(c, r.w[1])
        /\ c.kind = "ROM" => r.access = "READ"
        /\ c.kind = "RAM" => /\ r.timestamp = k - 1 /\ r.timestamp \in DOMAIN c.constants
                             /\ r.w[2] = c.constants[r.timestamp]

RecordsFit(c) ==
    /\ \A k \in DOMAIN c.records : RecordFits(c, k)
    /\ \A j, k \in DOMAIN c.records : c.records[j].record_witness = c.records[k].record_witness => j = k

\* All other gates fix a constant.
OthersFix(c) ==
    \A g \in DOMAIN c.gates :
        \/ \E k \in DOMAIN c.records : c.records[k].gate = g
        \/ c.gates[g].type = "FIX" /\ c.gates[g].w[4] = zero_idx

\* A cell that was set has a record of that.
SetBy(c, i, k) ==
    /\ c.records[k].w[1] = c.constants[i]
    /\ c.kind = "ROM" => c.records[k].w[2] = c.state[i][1] /\ c.records[k].w[3] = c.state[i][2]
    /\ c.kind = "RAM" => c.records[k].access = "WRITE"

CellsHeld(c) ==
    \A i \in Cells :
        /\ c.state[i][1] \in 0 .. NumVariables(c)
        /\ ~ Uninitialized(c, i) =>
             i \in DOMAIN c.constants /\ \E k \in DOMAIN c.records : SetBy(c, i, k)

\* A read at an index the circuit fixes is of a cell that was written.
ZeroWritten(c) ==
    \A k \in DOMAIN c.records :
        c.kind = "RAM" /\ c.records[k].access = "READ" =>
            /\ c.records[k].w[1] \in IndexVariables
            /\ c.records[k].w[1] = zero_idx =>
                 \E j \in 1 .. k - 1 : c.records[j].access = "WRITE" /\ c.records[j].w[1] = zero_idx

Counted(c) ==
    /\ c.kind = "RAM" => c.access_count = Len(c.records)
    /\ c.kind # "NONE" => NumVariables(c) >= NumProgram
    /\ c.kind = "NONE" => /\ c.records = << >> /\ DOMAIN c.constants = {0} /\ NumVariables(c) <= NumProgram
                          /\ c.access_count = 0
                          /\ \A i \in Cells : Uninitialized(c, i)

\* A fixed variable has its value.
FixesHold(c) ==
    \A k \in DOMAIN c.gates :
        c.gates[k].type = "FIX" =>
            c.gates[k].w[1] \in 1 .. NumVariables(c) /\ c.variables[c.gates[k].w[1]] = c.gates[k].c

\* The witnesses of the program are elements of the field.
WitnessesInField(c) == \A v \in 1 .. NumVariables(c) : v <= NumProgram => c.variables[v] \in Field

\* A record is numbered by the low bits of the value of its index.
IndicesRead(c) ==
    \A k \in DOMAIN c.records :
        LET r == c.records[k]
        IN  /\ c.variables[r.w[1]] \in Nat /\ r.index \in Cells
            /\ r.index = c.variables[r.w[1]] % IndexModulus

\* The last of the first m records of cell i has the value x.
LastValue(c, i, m, x) ==
    \E j \in 1 .. m :
        /\ c.records[j].index = i /\ c.variables[c.records[j].w[3]] = x
        /\ \A p \in j + 1 .. m : c.records[p].index # i

\* A read has the value of the record of its cell before it, and the state that of the last one.
ReadsHonest(c) ==
    \A k \in DOMAIN c.records :
        c.kind = "RAM" /\ c.records[k].access = "READ" =>
            LastValue(c, c.records[k].index, k - 1, c.variables[c.records[k].w[3]])

StateHonest(c) ==
    \A i \in Cells :
        c.kind = "RAM" /\ ~ Uninitialized(c, i) =>
            LastValue(c, i, Len(c.records), c.variables[c.state[i][1]])

\* The cells that were not set, which will take a record each.
Vacant(state) == {i \in Cells : state[i][1] = UNINITIALIZED_MEMORY_RECORD}

Roomy(c) == Len(c.records) + Cardinality(Vacant(c.state)) < Modulus

\* The values of the circuit are those of an honest run.
Faithful(c) ==
    /\ FixesHold(c)
    /\ WitnessesInField(c)
    /\ IndicesRead(c)
    /\ ReadsHonest(c)
    /\ StateHonest(c)
    /\ Roomy(c)

Built(c) ==
    /\ c \in Circuits
    /\ NumVariables(c) >= 1
    /\ ConstantsFixed(c)
    /\ RecordsFit(c)
    /\ OthersFix(c)
    /\ CellsHeld(c)
    /\ ZeroWritten(c)
    /\ Counted(c)
    /\ Faithful(c)

AllSet(c) == c.kind # "NONE" /\ \A i \in Cells : ~ Uninitialized(c, i)

ArraysInv ==
    /\ ~ circuit_finalised => Built(circuit)
    /\ circuit_finalised =>
          \E c : Built(c) /\ AllSet(c) /\ \E sorted \in Sortings(c) : circuit = Processed(c, sorted)

-----------------------------------------------------------------------------
(***************************************************************************)
(* Building keeps a circuit built.                                         *)
(***************************************************************************)
LEMMA SizeOfArray ==
    /\ Modulus \in Nat /\ IndexModulus \in Nat /\ ArraySize \in Nat
    /\ 1 <= ArraySize /\ ArraySize <= IndexModulus /\ IndexModulus < Modulus
    /\ MaxIndices \in Nat /\ MaxValues \in Nat /\ NumPublic \in Nat
    /\ NumProgram \in Nat /\ NumProgram >= 1
    /\ Cells \subseteq Nat /\ 0 \in Cells
BY MemoryAssumption, FieldAssumption DEF Cells, NumProgram

LEMMA AppendIs ==
    ASSUME NEW S, NEW s \in Seq(S), NEW e \in S, NEW t, t = Append(s, e)
    PROVE  /\ t \in Seq(S) /\ Len(s) \in Nat /\ Len(t) = Len(s) + 1
           /\ DOMAIN s = 1 .. Len(s) /\ DOMAIN t = 1 .. Len(s) + 1
           /\ \A k \in 1 .. Len(s) : t[k] = s[k]
           /\ t[Len(s) + 1] = e
OBVIOUS

LEMMA FourNumbers ==
    ASSUME NEW a \in Nat, NEW b \in Nat, NEW x \in Nat, NEW y \in Nat
    PROVE  <<a, b, x, y>> \in Seq(Nat)
OBVIOUS

LEMMA FieldsOfCircuit ==
    ASSUME NEW c \in Circuits
    PROVE  /\ c.variables \in Seq(Int) /\ NumVariables(c) \in Nat
           /\ \A v \in 1 .. NumVariables(c) : c.variables[v] \in Int
           /\ c.gates \in Seq([type : GateTypes, w : Seq(Nat), c : Int])
           /\ Len(c.gates) \in Nat /\ Len(c.records) \in Nat
           /\ DOMAIN c.constants \subseteq Int
           /\ \A x \in DOMAIN c.constants : c.constants[x] \in Nat
<1>1. c.variables \in Seq(Int) /\ c.gates \in Seq([type : GateTypes, w : Seq(Nat), c : Int])
  BY DEF Circuits
<1>2. c.constants \in ConstantMaps /\ Len(c.records) \in Nat
  BY DEF Circuits
<1>3. PICK D \in SUBSET Int : c.constants \in [D -> Nat]
  BY <1>2 DEF ConstantMaps
<1>4. NumVariables(c) \in Nat /\ \A v \in 1 .. NumVariables(c) : c.variables[v] \in Int
  BY <1>1 DEF NumVariables
<1>5. Len(c.gates) \in Nat
  BY <1>1
<1> QED BY <1>1, <1>2, <1>3, <1>4, <1>5

\* Values and records that stay as they are.
LEMMA StillLast ==
    ASSUME NEW c, NEW d, NEW m \in Nat, NEW i, NEW x, LastValue(c, i, m, x),
           \A j \in 1 .. m : d.records[j] = c.records[j] /\ d.variables[c.records[j].w[3]] = c.variables[c.records[j].w[3]]
    PROVE  LastValue(d, i, m, x)
<1>1. PICK j \in 1 .. m :
          /\ c.records[j].index = i /\ c.variables[c.records[j].w[3]] = x
          /\ \A p \in j + 1 .. m : c.records[p].index # i
  BY DEF LastValue
<1>2. \A p \in j + 1 .. m : p \in 1 .. m
  OBVIOUS
<1>3. d.records[j].index = i /\ d.variables[d.records[j].w[3]] = x
  BY <1>1
<1>4. \A p \in j + 1 .. m : d.records[p].index # i
  BY <1>1, <1>2
<1> QED BY <1>3, <1>4 DEF LastValue

LEMMA FaithfulGrows ==
    ASSUME NEW c, c \in Circuits, RecordsFit(c), CellsHeld(c), Faithful(c),
           NEW d, d.records = c.records, d.state = c.state, d.kind = c.kind,
           \A v \in 1 .. NumVariables(c) : d.variables[v] = c.variables[v],
           FixesHold(d), WitnessesInField(d)
    PROVE  Faithful(d)
<1>1. NumVariables(c) \in Nat /\ Len(c.records) \in Nat /\ DOMAIN c.records = 1 .. Len(c.records)
  <2>1. DOMAIN c.records = 1 .. Len(c.records)
    BY DEF Circuits
  <2> QED BY <2>1, FieldsOfCircuit
<1>2. \A k \in 1 .. Len(c.records) : \A j \in 1 .. 3 : c.records[k].w[j] \in 1 .. NumVariables(c)
  BY <1>1 DEF RecordsFit, RecordFits
<1>3. \A k \in 1 .. Len(c.records) : \A j \in 1 .. 3 : d.variables[c.records[k].w[j]] = c.variables[c.records[k].w[j]]
  BY <1>2
<1>4. \A m \in 0 .. Len(c.records) : \A i, x : LastValue(c, i, m, x) => LastValue(d, i, m, x)
  <2> SUFFICES ASSUME NEW m \in 0 .. Len(c.records), NEW i, NEW x, LastValue(c, i, m, x) PROVE LastValue(d, i, m, x)
    OBVIOUS
  <2>1. m \in Nat /\ \A j \in 1 .. m : j \in 1 .. Len(c.records)
    BY <1>1
  <2>2. \A j \in 1 .. m : d.records[j] = c.records[j] /\ d.variables[c.records[j].w[3]] = c.variables[c.records[j].w[3]]
    BY <1>3, <2>1
  <2> QED BY <2>1, <2>2, StillLast
<1>5. IndicesRead(d)
  <2>1. \A k \in 1 .. Len(c.records) : d.variables[c.records[k].w[1]] = c.variables[c.records[k].w[1]]
    BY <1>3
  <2>2. IndicesRead(c)
    BY DEF Faithful
  <2> SUFFICES ASSUME NEW k \in 1 .. Len(c.records)
               PROVE  /\ d.variables[c.records[k].w[1]] \in Nat /\ c.records[k].index \in Cells
                      /\ c.records[k].index = d.variables[c.records[k].w[1]] % IndexModulus
    BY <1>1 DEF IndicesRead
  <2>3. PICK r, x : r = c.records[k] /\ x = c.variables[r.w[1]]
    OBVIOUS
  <2>4. x \in Nat /\ r.index \in Cells /\ r.index = x % IndexModulus
    BY <1>1, <2>2, <2>3 DEF IndicesRead
  <2>5. d.variables[r.w[1]] = x
    BY <2>1, <2>3
  <2> QED BY <2>3, <2>4, <2>5
<1>6. ReadsHonest(d)
  <2> SUFFICES ASSUME NEW k \in 1 .. Len(c.records), c.kind = "RAM", c.records[k].access = "READ"
               PROVE  LastValue(d, c.records[k].index, k - 1, d.variables[c.records[k].w[3]])
    BY <1>1 DEF ReadsHonest
  <2>1. LastValue(c, c.records[k].index, k - 1, c.variables[c.records[k].w[3]])
    BY <1>1 DEF Faithful, ReadsHonest
  <2>2. k - 1 \in 0 .. Len(c.records) /\ d.variables[c.records[k].w[3]] = c.variables[c.records[k].w[3]]
    BY <1>1, <1>3
  <2> QED BY <1>4, <2>1, <2>2
<1>7. StateHonest(d)
  <2> SUFFICES ASSUME NEW i \in Cells, c.kind = "RAM", ~ Uninitialized(c, i)
               PROVE  LastValue(d, i, Len(c.records), d.variables[c.state[i][1]])
    BY DEF StateHonest, Uninitialized
  <2>1. LastValue(c, i, Len(c.records), c.variables[c.state[i][1]])
    BY DEF Faithful, StateHonest
  <2>2. c.state[i][1] \in 1 .. NumVariables(c)
    BY <1>1 DEF CellsHeld, Uninitialized, UNINITIALIZED_MEMORY_RECORD
  <2>3. Len(c.records) \in 0 .. Len(c.records) /\ d.variables[c.state[i][1]] = c.variables[c.state[i][1]]
    BY <1>1, <2>2
  <2> QED BY <1>4, <2>1, <2>3
<1>8. Roomy(d)
  BY DEF Faithful, Roomy
<1> QED BY <1>5, <1>6, <1>7, <1>8 DEF Faithful

LEMMA VariableAdded ==
    ASSUME NEW c, Built(c), NEW x \in Int, c.kind # "NONE" \/ (NumVariables(c) < NumProgram /\ x \in Field),
           NEW d, d = AddVariable(c, x)
    PROVE  Built(d) /\ NumVariables(d) = NumVariables(c) + 1 /\ d.variables[NumVariables(d)] = x
<1>1. /\ d \in Circuits /\ NumVariables(d) = NumVariables(c) + 1 /\ d.variables[NumVariables(d)] = x
      /\ \A v \in 1 .. NumVariables(c) : d.variables[v] = c.variables[v]
      /\ NumVariables(c) >= 1
  <2>1. c \in Circuits /\ c.variables \in Seq(Int) /\ NumVariables(c) >= 1
    BY DEF Built, Circuits
  <2>2. d = [c EXCEPT !.variables = Append(c.variables, x)]
    BY DEF AddVariable
  <2>3. Append(c.variables, x) \in Seq(Int)
    BY <2>1
  <2>4. d \in Circuits /\ d.variables = Append(c.variables, x)
    BY <2>1, <2>2, <2>3 DEF Circuits
  <2> QED BY <2>1, <2>4 DEF NumVariables
<1>2. /\ d.gates = c.gates /\ d.records = c.records /\ d.constants = c.constants /\ d.state = c.state
      /\ d.kind = c.kind /\ d.access_count = c.access_count
  BY DEF Built, AddVariable, Circuits
<1>a. c \in Circuits
  BY DEF Built
<1>b. NumVariables(c) \in Nat
  BY <1>a, FieldsOfCircuit
<1>3. ConstantsFixed(d)
  BY <1>1, <1>2, <1>b DEF Built, ConstantsFixed, zero_idx
<1>4. RecordsFit(d)
  <2>1. \A u \in 1 .. NumVariables(c) : u \in 1 .. NumVariables(d) /\ (u >= 2 => u \in 2 .. NumVariables(d))
    BY <1>1, <1>b
  <2>2. \A u \in 2 .. NumVariables(c) : u \in 1 .. NumVariables(c) /\ u >= 2
    BY <1>b
  <2>3. ASSUME NEW k \in DOMAIN c.records PROVE RecordFits(d, k)
    <3>1. RecordFits(c, k)
      BY <2>3 DEF Built, RecordsFit
    <3>2. IsIndex(d, c.records[k].w[1])
      BY <1>2, <3>1 DEF RecordFits, IsIndex
    <3>3. AccessGate(d, c.records[k].access) = AccessGate(c, c.records[k].access)
      BY <1>2 DEF AccessGate
    <3> QED BY <1>2, <2>1, <2>2, <3>1, <3>2, <3>3 DEF RecordFits
  <2> QED BY <1>2, <2>3 DEF Built, RecordsFit
<1>5. OthersFix(d) /\ CellsHeld(d)
  BY <1>1, <1>2, <1>b DEF Built, OthersFix, CellsHeld, SetBy, Uninitialized
<1>6. ZeroWritten(d) /\ Counted(d)
  BY <1>1, <1>2, <1>b, SizeOfArray DEF Built, ZeroWritten, Counted, Uninitialized
<1>7. FixesHold(d)
  <2>1. FixesHold(c)
    BY DEF Built, Faithful
  <2>2. \A v \in 1 .. NumVariables(c) : v \in 1 .. NumVariables(d)
    BY <1>1, <1>b
  <2> QED BY <1>1, <1>2, <2>1, <2>2 DEF FixesHold
<1>8. WitnessesInField(d)
  <2>1. WitnessesInField(c)
    BY DEF Built, Faithful
  <2>2. \A v \in 1 .. NumVariables(d) : v \in 1 .. NumVariables(c) \/ v = NumVariables(c) + 1
    BY <1>1, <1>b
  <2>3. NumVariables(c) + 1 <= NumProgram => x \in Field
    <3>1. c.kind # "NONE" => NumVariables(c) >= NumProgram
      BY DEF Built, Counted
    <3> QED BY <1>b, <3>1, SizeOfArray
  <2> QED BY <1>1, <2>1, <2>2, <2>3 DEF WitnessesInField
<1>9. Faithful(d)
  BY <1>1, <1>2, <1>7, <1>8, FaithfulGrows DEF Built
<1> QED BY <1>1, <1>b, <1>3, <1>4, <1>5, <1>6, <1>9 DEF Built

LEMMA ConstantPut ==
    ASSUME NEW c, Built(c), c.kind # "NONE", NEW x \in Int, NEW d, d = PutConstantVariable(c, x)
    PROVE  /\ Built(d) /\ x \in DOMAIN d.constants
           /\ DOMAIN c.constants \subseteq DOMAIN d.constants
           /\ \A y \in DOMAIN c.constants : d.constants[y] = c.constants[y]
           /\ d.kind = c.kind /\ d.records = c.records /\ d.state = c.state /\ d.access_count = c.access_count
           /\ NumVariables(d) >= NumVariables(c)
           /\ \A v \in 1 .. NumVariables(c) : d.variables[v] = c.variables[v]
<1> DEFINE v == NumVariables(c) + 1
<1>1. CASE x \in DOMAIN c.constants
  <2>1. d = c
    BY <1>1 DEF PutConstantVariable
  <2>2. c \in Circuits
    BY DEF Built
  <2>3. NumVariables(c) \in Nat
    BY <2>2, FieldsOfCircuit
  <2> QED BY <1>1, <2>1, <2>3
<1>2. CASE x \notin DOMAIN c.constants
  <2>1. /\ c \in Circuits /\ NumVariables(c) \in Nat /\ NumVariables(c) >= 1 /\ v \in Nat
        /\ c.variables \in Seq(Int) /\ c.gates \in Seq([type : GateTypes, w : Seq(Nat), c : Int])
        /\ Len(c.gates) \in Nat
    <3>1. c \in Circuits /\ NumVariables(c) >= 1
      BY DEF Built
    <3>2. NumVariables(c) \in Nat /\ Len(c.gates) \in Nat
      BY <3>1, FieldsOfCircuit
    <3> QED BY <3>1, <3>2 DEF Circuits
  <2> DEFINE g == [type |-> "FIX", w |-> <<v, zero_idx, zero_idx, zero_idx>>, c |-> x]
             m == [y \in DOMAIN c.constants \cup {x} |-> IF y = x THEN v ELSE c.constants[y]]
  <2>2. d = [c EXCEPT !.variables = Append(c.variables, x), !.gates = Append(c.gates, g), !.constants = m]
    BY <1>2, <2>1 DEF PutConstantVariable, AddGate, AddVariable, Circuits
  <2>3. g \in [type : GateTypes, w : Seq(Nat), c : Int]
    BY <2>1 DEF GateTypes, zero_idx
  <2>4. m \in ConstantMaps
    <3>1. DOMAIN c.constants \subseteq Int /\ \A y \in DOMAIN c.constants : c.constants[y] \in Nat
      BY <2>1, FieldsOfCircuit
    <3>2. m \in [DOMAIN c.constants \cup {x} -> Nat] /\ DOMAIN c.constants \cup {x} \in SUBSET Int
      BY <2>1, <3>1
    <3> HIDE DEF m
    <3> QED BY <3>2 DEF ConstantMaps
  <2> HIDE DEF g, m
  <2>5. Append(c.variables, x) \in Seq(Int) /\ Append(c.gates, g) \in Seq([type : GateTypes, w : Seq(Nat), c : Int])
    BY <2>1, <2>3
  <2>6. d \in Circuits
    BY <2>1, <2>2, <2>4, <2>5 DEF Circuits
  <2>7. /\ d.variables = Append(c.variables, x) /\ d.gates = Append(c.gates, g) /\ d.constants = m
        /\ d.kind = c.kind /\ d.records = c.records /\ d.state = c.state /\ d.access_count = c.access_count
    BY <2>1, <2>2 DEF Circuits
  <2>8. /\ NumVariables(d) = v /\ d.variables[v] = x
        /\ \A u \in 1 .. NumVariables(c) : d.variables[u] = c.variables[u]
        /\ Len(d.gates) = Len(c.gates) + 1
        /\ \A k \in DOMAIN c.gates : k \in DOMAIN d.gates /\ d.gates[k] = c.gates[k]
        /\ \A k \in DOMAIN d.gates : k \in DOMAIN c.gates \/ k = Len(c.gates) + 1
        /\ Len(c.gates) + 1 \in DOMAIN d.gates /\ d.gates[Len(c.gates) + 1] = g
    <3>1. /\ NumVariables(d) = v /\ d.variables[v] = x
          /\ \A u \in 1 .. NumVariables(c) : d.variables[u] = c.variables[u]
      BY <2>1, <2>7 DEF NumVariables
    <3>2. /\ Len(d.gates) = Len(c.gates) + 1
          /\ \A k \in 1 .. Len(c.gates) : d.gates[k] = c.gates[k]
          /\ d.gates[Len(c.gates) + 1] = g
          /\ DOMAIN d.gates = 1 .. Len(d.gates) /\ DOMAIN c.gates = 1 .. Len(c.gates)
      BY <2>1, <2>7
    <3>3. DOMAIN c.gates = 1 .. Len(c.gates) /\ DOMAIN d.gates = 1 .. Len(c.gates) + 1
      BY <3>2
    <3>4. \A k \in DOMAIN c.gates : k \in DOMAIN d.gates /\ d.gates[k] = c.gates[k]
      <4>1. Len(c.gates) \in Nat
        BY <2>1
      <4>2. \A k \in 1 .. Len(c.gates) : k \in 1 .. Len(c.gates) + 1
        BY <4>1
      <4> QED BY <3>2, <3>3, <4>2
    <3>5. \A k \in DOMAIN d.gates : k \in DOMAIN c.gates \/ k = Len(c.gates) + 1
      BY <2>1, <3>3
    <3>6. Len(c.gates) + 1 \in DOMAIN d.gates
      BY <2>1, <3>3
    <3> QED BY <3>1, <3>2, <3>4, <3>5, <3>6
  <2>9. /\ g.type = "FIX" /\ g.w[1] = v /\ g.w[4] = zero_idx /\ g.c = x
        /\ DOMAIN m = DOMAIN c.constants \cup {x} /\ m[x] = v
        /\ \A y \in DOMAIN c.constants : m[y] = c.constants[y]
    BY <1>2 DEF g, m
  <2>10. ConstantsFixed(c) /\ RecordsFit(c) /\ OthersFix(c) /\ CellsHeld(c) /\ ZeroWritten(c) /\ Counted(c)
    BY DEF Built
  <2>11. ConstantsFixed(d)
    <3>1. v > NumProgram
      BY <2>1, <2>10, SizeOfArray DEF Counted
    <3>2. 0 \in DOMAIN d.constants /\ d.constants[0] = zero_idx /\ d.variables[zero_idx] = 0
      BY <2>1, <2>7, <2>8, <2>9, <2>10 DEF ConstantsFixed, zero_idx
    <3>3. ASSUME NEW y \in DOMAIN d.constants
          PROVE  /\ d.constants[y] \in 1 .. NumVariables(d)
                 /\ y # 0 => d.constants[y] > NumProgram
                 /\ \E k \in DOMAIN d.gates :
                       d.gates[k].type = "FIX" /\ d.gates[k].w[1] = d.constants[y] /\ d.gates[k].c = y
      <4>1. CASE y = x
        <5>1. d.constants[y] = v /\ NumVariables(d) = v /\ v \in 1 .. v
          BY <2>1, <2>7, <2>8, <2>9, <4>1
        <5>2. d.gates[Len(c.gates) + 1].type = "FIX" /\ d.gates[Len(c.gates) + 1].w[1] = v /\ d.gates[Len(c.gates) + 1].c = y
          BY <2>8, <2>9, <4>1
        <5> QED BY <2>8, <3>1, <5>1, <5>2
      <4>2. CASE y \in DOMAIN c.constants
        <5>1. d.constants[y] = c.constants[y]
          BY <2>7, <2>9, <4>2
        <5>2. /\ c.constants[y] \in 1 .. NumVariables(c)
              /\ y # 0 => c.constants[y] > NumProgram
              /\ \E k \in DOMAIN c.gates :
                    c.gates[k].type = "FIX" /\ c.gates[k].w[1] = c.constants[y] /\ c.gates[k].c = y
          BY <2>10, <4>2 DEF ConstantsFixed
        <5>3. d.constants[y] \in 1 .. NumVariables(d)
          BY <2>1, <2>8, <5>1, <5>2, SMTT(30)
        <5> QED BY <2>8, <5>1, <5>2, <5>3
      <4> QED BY <2>7, <2>9, <4>1, <4>2
    <3> QED BY <3>2, <3>3 DEF ConstantsFixed
  <2>12. RecordsFit(d)
    <3>1. ASSUME NEW k \in DOMAIN d.records PROVE RecordFits(d, k)
      <4>1. RecordFits(c, k)
        BY <2>7, <2>10, <3>1 DEF RecordsFit
      <4>2. d.gates[c.records[k].gate] = c.gates[c.records[k].gate] /\ c.records[k].gate \in DOMAIN d.gates
        BY <2>8, <4>1 DEF RecordFits
      <4>3. IsIndex(d, c.records[k].w[1])
        BY <2>7, <2>9, <4>1 DEF RecordFits, IsIndex
      <4>4. \A y \in DOMAIN c.constants : y \in DOMAIN d.constants /\ d.constants[y] = c.constants[y]
        BY <2>7, <2>9
      <4>5. \A u \in 1 .. NumVariables(c) : u \in 1 .. NumVariables(d)
        BY <2>1, <2>8
      <4>6. \A u \in 2 .. NumVariables(c) : u \in 2 .. NumVariables(d)
        BY <2>1, <2>8
      <4>7. d.records = c.records /\ AccessGate(d, c.records[k].access) = AccessGate(c, c.records[k].access) /\ d.kind = c.kind
        BY <2>7 DEF AccessGate
      <4> QED BY <4>1, <4>2, <4>3, <4>4, <4>5, <4>6, <4>7 DEF RecordFits
    <3> QED BY <2>7, <2>10, <3>1 DEF RecordsFit
  <2>13. OthersFix(d)
    <3>1. d.records = c.records
      BY <2>7
    <3>2. ASSUME NEW k \in DOMAIN d.gates
          PROVE  \/ \E j \in DOMAIN c.records : c.records[j].gate = k
                 \/ d.gates[k].type = "FIX" /\ d.gates[k].w[4] = zero_idx
      <4>1. CASE k \in DOMAIN c.gates
        <5>1. d.gates[k] = c.gates[k]
          BY <2>8, <4>1
        <5> QED BY <2>10, <4>1, <5>1 DEF OthersFix
      <4>2. CASE k = Len(c.gates) + 1
        BY <2>8, <2>9, <4>2
      <4> QED BY <2>8, <4>1, <4>2
    <3> QED BY <3>1, <3>2 DEF OthersFix
  <2>14. CellsHeld(d) /\ ZeroWritten(d) /\ Counted(d)
    <3>1. CellsHeld(d)
      BY <2>1, <2>7, <2>8, <2>9, <2>10, SizeOfArray DEF CellsHeld, SetBy, Uninitialized
    <3>2. ZeroWritten(d)
      BY <2>1, <2>7, <2>8, <2>9, <2>10, SizeOfArray DEF ZeroWritten, Uninitialized
    <3>3. Counted(d)
      BY <2>1, <2>7, <2>8, <2>9, <2>10, SizeOfArray DEF Counted
    <3> QED BY <3>1, <3>2, <3>3
  <2>a. FixesHold(d)
    <3>1. FixesHold(c)
      BY DEF Built, Faithful
    <3>2. \A u \in 1 .. NumVariables(c) : u \in 1 .. NumVariables(d)
      BY <2>1, <2>8
    <3>3. ASSUME NEW k \in DOMAIN d.gates, d.gates[k].type = "FIX"
          PROVE  d.gates[k].w[1] \in 1 .. NumVariables(d) /\ d.variables[d.gates[k].w[1]] = d.gates[k].c
      <4>1. CASE k \in DOMAIN c.gates
        <5>1. d.gates[k] = c.gates[k]
          BY <2>8, <4>1
        <5>2. c.gates[k].w[1] \in 1 .. NumVariables(c) /\ c.variables[c.gates[k].w[1]] = c.gates[k].c
          BY <3>1, <3>3, <4>1, <5>1 DEF FixesHold
        <5> QED BY <2>8, <3>2, <5>1, <5>2
      <4>2. CASE k = Len(c.gates) + 1
        <5>1. v \in 1 .. NumVariables(d)
          BY <2>1, <2>8
        <5> QED BY <2>8, <2>9, <4>2, <5>1
      <4> QED BY <2>8, <3>3, <4>1, <4>2
    <3> QED BY <3>3 DEF FixesHold
  <2>b. WitnessesInField(d)
    <3>1. WitnessesInField(c)
      BY DEF Built, Faithful
    <3>2. NumVariables(c) >= NumProgram
      BY DEF Built, Counted
    <3>3. \A u \in 1 .. NumVariables(d) : u <= NumProgram => u \in 1 .. NumVariables(c)
      BY <2>1, <2>8, <3>2, SizeOfArray
    <3> QED BY <2>8, <3>1, <3>3 DEF WitnessesInField
  <2>c. Faithful(d)
    BY <2>1, <2>7, <2>8, <2>a, <2>b, FaithfulGrows DEF Built
  <2>15. Built(d)
    BY <2>1, <2>6, <2>8, <2>11, <2>12, <2>13, <2>14, <2>c DEF Built
  <2>16. /\ x \in DOMAIN d.constants /\ DOMAIN c.constants \subseteq DOMAIN d.constants
         /\ \A y \in DOMAIN c.constants : d.constants[y] = c.constants[y]
    BY <2>7, <2>9
  <2>17. NumVariables(d) >= NumVariables(c)
    BY <2>1, <2>8
  <2> QED BY <2>7, <2>8, <2>15, <2>16, <2>17
<1> QED BY <1>1, <1>2

\* A circuit with one more record, and with this state of the array.
Extended(c, w, index, timestamp, access, state, count) ==
    [c EXCEPT !.variables = Append(c.variables, 0),
              !.gates = Append(c.gates, [type |-> AccessGate(c, access),
                                         w |-> <<w[1], w[2], w[3], NumVariables(c) + 1>>, c |-> 0]),
              !.records = Append(c.records, [w |-> w, index |-> index, timestamp |-> timestamp, access |-> access,
                                             record_witness |-> NumVariables(c) + 1, gate |-> Len(c.gates) + 1]),
              !.state = state, !.access_count = count]

\* A record that may be added to c.
MayRecord(c, w, index, timestamp, access, count) ==
    /\ c.kind # "NONE"
    /\ w \in Seq(Nat) /\ \A j \in 1 .. 3 : w[j] \in 1 .. NumVariables(c)
    /\ index \in Int /\ timestamp \in Int /\ access \in {"READ", "WRITE"} /\ count \in Nat
    /\ IsIndex(c, w[1])
    /\ c.kind = "ROM" => access = "READ"
    /\ c.kind = "RAM" => /\ timestamp = Len(c.records) /\ timestamp \in DOMAIN c.constants
                         /\ w[2] = c.constants[timestamp] /\ count = Len(c.records) + 1
    /\ c.kind = "RAM" /\ access = "READ" =>
          w[1] \in IndexVariables /\ (w[1] = zero_idx => ~ Uninitialized(c, 0))

\* A state of the array that such a record goes with.
MayHold(c, w, access, state) ==
    /\ state \in [Cells -> Nat \X Nat]
    /\ \A i \in Cells :
          /\ state[i][1] \in 0 .. NumVariables(c)
          /\ state[i][1] # UNINITIALIZED_MEMORY_RECORD =>
                \/ ~ Uninitialized(c, i) /\ (c.kind = "RAM" \/ state[i] = c.state[i])
                \/ /\ i \in DOMAIN c.constants /\ w[1] = c.constants[i]
                   /\ c.kind = "ROM" => w[2] = state[i][1] /\ w[3] = state[i][2]
                   /\ c.kind = "RAM" => access = "WRITE"

\* The state of the array with a variable written to a cell.
Stored(state, i, value) == [state EXCEPT ![i] = <<value, state[i][2]>>]

\* What an honest run records: a read has the value of its cell, and a write changes only its cell.
MayFollow(c, w, index, access, state) ==
    /\ c.variables[w[1]] \in Nat /\ index \in Cells /\ index = c.variables[w[1]] % IndexModulus
    /\ c.kind = "RAM" /\ access = "READ" =>
          /\ state = c.state /\ ~ Uninitialized(c, index)
          /\ c.variables[w[3]] = c.variables[c.state[index][1]]
    /\ c.kind = "RAM" /\ access = "WRITE" => state = Stored(c.state, index, w[3])
    /\ Len(c.records) + 1 + Cardinality(Vacant(state)) < Modulus

RecordParts(c, w, index, timestamp, access, state, count) ==
    /\ c \in Circuits
    /\ w \in Seq(Nat) /\ (\A j \in 1 .. 3 : w[j] \in Nat)
    /\ index \in Int /\ timestamp \in Int /\ access \in {"READ", "WRITE"} /\ count \in Nat
    /\ state \in [Cells -> Nat \X Nat]

IsExtension(d, c, w, index, timestamp, access, state, count) ==
    /\ d \in Circuits
    /\ d.constants = c.constants /\ d.kind = c.kind /\ d.state = state /\ d.access_count = count
    /\ NumVariables(d) = NumVariables(c) + 1 /\ d.variables[NumVariables(d)] = 0
    /\ \A v \in 1 .. NumVariables(c) : d.variables[v] = c.variables[v]
    /\ Len(d.gates) = Len(c.gates) + 1 /\ Len(d.records) = Len(c.records) + 1
    /\ \A k \in 1 .. Len(c.gates) : d.gates[k] = c.gates[k]
    /\ \A k \in 1 .. Len(c.records) : d.records[k] = c.records[k]
    /\ d.gates[Len(c.gates) + 1] = [type |-> AccessGate(c, access),
                                   w |-> <<w[1], w[2], w[3], NumVariables(c) + 1>>, c |-> 0]
    /\ d.records[Len(c.records) + 1] =
         [w |-> w, index |-> index, timestamp |-> timestamp, access |-> access,
          record_witness |-> NumVariables(c) + 1, gate |-> Len(c.gates) + 1]

LEMMA ExtendedIs ==
    ASSUME NEW c, NEW w, NEW index, NEW timestamp, NEW access, NEW state, NEW count,
           RecordParts(c, w, index, timestamp, access, state, count)
    PROVE  IsExtension(Extended(c, w, index, timestamp, access, state, count),
                       c, w, index, timestamp, access, state, count)
<1> DEFINE d == Extended(c, w, index, timestamp, access, state, count)
<1> USE DEF RecordParts
<1> DEFINE g == [type |-> AccessGate(c, access), w |-> <<w[1], w[2], w[3], NumVariables(c) + 1>>, c |-> 0]
           r == [w |-> w, index |-> index, timestamp |-> timestamp, access |-> access,
                 record_witness |-> NumVariables(c) + 1, gate |-> Len(c.gates) + 1]
           Gate == [type : GateTypes, w : Seq(Nat), c : Int]
           Rec == [w : Seq(Nat), index : Int, timestamp : Int, access : {"READ", "WRITE"},
                   record_witness : Nat, gate : Nat]
<1>1. NumVariables(c) \in Nat /\ Len(c.gates) \in Nat /\ Len(c.records) \in Nat
  BY FieldsOfCircuit
<1>2. g \in Gate
  <2>1. AccessGate(c, access) \in GateTypes
    BY DEF AccessGate, GateTypes
  <2>2. w[1] \in Nat /\ w[2] \in Nat /\ w[3] \in Nat
    OBVIOUS
  <2>3. <<w[1], w[2], w[3], NumVariables(c) + 1>> \in Seq(Nat)
    BY <1>1, <2>2, FourNumbers
  <2> QED BY <2>1, <2>3
<1>3. r \in Rec
  BY <1>1, SMTT(30)
<1>4. d = [c EXCEPT !.variables = Append(c.variables, 0), !.gates = Append(c.gates, g),
                    !.records = Append(c.records, r), !.state = state, !.access_count = count]
  BY DEF Extended
<1> HIDE DEF g, r, d
<1>5. c.variables \in Seq(Int) /\ c.gates \in Seq(Gate) /\ c.records \in Seq(Rec)
  BY DEF Circuits
<1> HIDE DEF Gate, Rec
<1>6. Append(c.variables, 0) \in Seq(Int) /\ Append(c.gates, g) \in Seq(Gate) /\ Append(c.records, r) \in Seq(Rec)
  BY <1>2, <1>3, <1>5
<1>7. d \in Circuits
  BY <1>4, <1>6 DEF Circuits, Gate, Rec
<1>8. /\ d.constants = c.constants /\ d.kind = c.kind /\ d.state = state /\ d.access_count = count
      /\ d.variables = Append(c.variables, 0) /\ d.gates = Append(c.gates, g) /\ d.records = Append(c.records, r)
  BY <1>4 DEF Circuits
<1>9. /\ NumVariables(d) = NumVariables(c) + 1 /\ d.variables[NumVariables(d)] = 0
      /\ \A v \in 1 .. NumVariables(c) : d.variables[v] = c.variables[v]
  <2>1. PICK s, z : s = c.variables /\ z = 0 /\ z \in Int
    OBVIOUS
  <2>2. s \in Seq(Int) /\ d.variables = Append(s, z)
    BY <1>5, <1>8, <2>1
  <2>3. /\ Len(d.variables) = Len(s) + 1 /\ d.variables[Len(s) + 1] = z
        /\ \A q \in 1 .. Len(s) : d.variables[q] = s[q]
    BY <2>2, AppendIs
  <2> QED BY <2>1, <2>3 DEF NumVariables
<1>10. /\ Len(d.gates) = Len(c.gates) + 1
       /\ \A k \in 1 .. Len(c.gates) : d.gates[k] = c.gates[k]
       /\ d.gates[Len(c.gates) + 1] = g
  BY <1>2, <1>5, <1>8, AppendIs, SMTT(60)
<1>11. /\ Len(d.records) = Len(c.records) + 1
       /\ \A k \in 1 .. Len(c.records) : d.records[k] = c.records[k]
       /\ d.records[Len(c.records) + 1] = r
  BY <1>3, <1>5, <1>8, AppendIs, SMTT(30)
<1>12. IsExtension(d, c, w, index, timestamp, access, state, count)
  BY <1>7, <1>8, <1>9, <1>10, <1>11 DEF g, r, IsExtension
<1> QED BY <1>12 DEF d

LEMMA StoredIs ==
    ASSUME NEW state \in [Cells -> Nat \X Nat], NEW i \in Cells, NEW value \in Nat
    PROVE  /\ [state EXCEPT ![i][1] = value] = Stored(state, i, value)
           /\ Stored(state, i, value) \in [Cells -> Nat \X Nat]
           /\ Stored(state, i, value)[i] = <<value, state[i][2]>>
           /\ \A j \in Cells : j # i => Stored(state, i, value)[j] = state[j]
<1>1. state[i] \in Nat \X Nat
  OBVIOUS
<1>2. [state[i] EXCEPT ![1] = value] = <<value, state[i][2]>>
  BY <1>1
<1>3. [state EXCEPT ![i][1] = value] = [state EXCEPT ![i] = [state[i] EXCEPT ![1] = value]]
  OBVIOUS
<1>4. <<value, state[i][2]>> \in Nat \X Nat
  BY <1>1
<1> QED BY <1>2, <1>3, <1>4 DEF Stored

LEMMA RecordFollows ==
    ASSUME NEW c, c \in Circuits, RecordsFit(c), CellsHeld(c), Faithful(c),
           NEW w, NEW index, NEW timestamp, NEW access \in {"READ", "WRITE"}, NEW state, NEW count,
           \A j \in 1 .. 3 : w[j] \in 1 .. NumVariables(c), state \in [Cells -> Nat \X Nat],
           NumVariables(c) >= NumProgram,
           MayFollow(c, w, index, access, state),
           NEW d, IsExtension(d, c, w, index, timestamp, access, state, count)
    PROVE  Faithful(d)
<1> DEFINE n == Len(c.records)
           v == NumVariables(c)
           l == Len(c.gates)
<1>1. n \in Nat /\ v \in Nat /\ l \in Nat /\ DOMAIN c.records = 1 .. n /\ DOMAIN c.gates = 1 .. l
  <2>1. DOMAIN c.records = 1 .. n /\ DOMAIN c.gates = 1 .. l
    BY DEF Circuits
  <2> QED BY <2>1, FieldsOfCircuit
<1>2. /\ d \in Circuits /\ d.kind = c.kind /\ d.state = state
      /\ NumVariables(d) = v + 1
      /\ \A u \in 1 .. v : d.variables[u] = c.variables[u]
      /\ Len(d.gates) = l + 1 /\ Len(d.records) = n + 1
      /\ \A k \in 1 .. l : d.gates[k] = c.gates[k]
      /\ \A k \in 1 .. n : d.records[k] = c.records[k]
      /\ d.gates[l + 1].type = AccessGate(c, access)
      /\ d.records[n + 1].w = w /\ d.records[n + 1].index = index /\ d.records[n + 1].access = access
  BY DEF IsExtension
<1>3. DOMAIN d.records = 1 .. n + 1 /\ DOMAIN d.gates = 1 .. l + 1
  BY <1>2 DEF Circuits
<1>4. \A k \in 1 .. n : \A j \in 1 .. 3 : c.records[k].w[j] \in 1 .. v
  BY <1>1 DEF RecordsFit, RecordFits
<1> HIDE DEF n, v, l
<1>5. \A k \in 1 .. n : \A j \in 1 .. 3 : d.variables[c.records[k].w[j]] = c.variables[c.records[k].w[j]]
  BY <1>2, <1>4
<1>6. \A j \in 1 .. 3 : w[j] \in 1 .. v /\ d.variables[w[j]] = c.variables[w[j]]
  BY <1>2 DEF v
<1>7. /\ \A k \in 1 .. n + 1 : k \in 1 .. n \/ k = n + 1
      /\ \A k \in 1 .. l + 1 : k \in 1 .. l \/ k = l + 1
      /\ \A k \in 1 .. v + 1 : k \in 1 .. v \/ k = v + 1
      /\ \A k \in 1 .. v : k \in 1 .. v + 1
      /\ n + 1 \in 1 .. n + 1 /\ (n + 1) - 1 = n
  BY <1>1
<1>8. \A m \in 0 .. n : \A i, x : LastValue(c, i, m, x) => LastValue(d, i, m, x)
  <2> SUFFICES ASSUME NEW m \in 0 .. n, NEW i, NEW x, LastValue(c, i, m, x) PROVE LastValue(d, i, m, x)
    OBVIOUS
  <2>1. m \in Nat /\ \A j \in 1 .. m : j \in 1 .. n
    BY <1>1
  <2>2. \A j \in 1 .. m : d.records[j] = c.records[j] /\ d.variables[c.records[j].w[3]] = c.variables[c.records[j].w[3]]
    BY <1>2, <1>5, <2>1, SMTT(60)
  <2> QED BY <2>1, <2>2, StillLast
<1>9. FixesHold(d)
  <2>1. FixesHold(c)
    BY DEF Faithful
  <2>2. AccessGate(c, access) # "FIX"
    BY DEF AccessGate
  <2>3. ASSUME NEW k \in 1 .. l, c.gates[k].type = "FIX"
        PROVE  c.gates[k].w[1] \in 1 .. v /\ c.variables[c.gates[k].w[1]] = c.gates[k].c
    BY <1>1, <2>1, <2>3 DEF FixesHold, v
  <2> SUFFICES ASSUME NEW k \in 1 .. l + 1, d.gates[k].type = "FIX"
               PROVE  d.gates[k].w[1] \in 1 .. v + 1 /\ d.variables[d.gates[k].w[1]] = d.gates[k].c
    BY <1>2, <1>3 DEF FixesHold
  <2>4. k \in 1 .. l
    BY <1>2, <1>7, <2>2
  <2>5. PICK g : g = c.gates[k] /\ g = d.gates[k]
    BY <1>2, <2>4
  <2>6. g.w[1] \in 1 .. v /\ c.variables[g.w[1]] = g.c
    BY <2>3, <2>4, <2>5
  <2>7. d.variables[g.w[1]] = c.variables[g.w[1]] /\ g.w[1] \in 1 .. v + 1
    BY <1>2, <1>7, <2>6
  <2> QED BY <2>5, <2>6, <2>7
<1>10. WitnessesInField(d)
  <2>1. WitnessesInField(c)
    BY DEF Faithful
  <2>2. \A u \in 1 .. v + 1 : u <= NumProgram => u \in 1 .. v
    BY <1>1, <1>7, SizeOfArray DEF v
  <2> QED BY <1>2, <2>1, <2>2 DEF WitnessesInField, v
<1>11. IndicesRead(d)
  <2>1. \A k \in 1 .. n : d.variables[c.records[k].w[1]] = c.variables[c.records[k].w[1]]
    BY <1>5, SMTT(60)
  <2>2. IndicesRead(c)
    BY DEF Faithful
  <2>3. \A k \in 1 .. n : /\ d.variables[d.records[k].w[1]] \in Nat /\ d.records[k].index \in Cells
                          /\ d.records[k].index = d.variables[d.records[k].w[1]] % IndexModulus
    <3> SUFFICES ASSUME NEW k \in 1 .. n
                 PROVE  /\ d.variables[d.records[k].w[1]] \in Nat /\ d.records[k].index \in Cells
                        /\ d.records[k].index = d.variables[d.records[k].w[1]] % IndexModulus
      OBVIOUS
    <3>1. PICK r, x : r = c.records[k] /\ x = c.variables[r.w[1]]
      OBVIOUS
    <3>2. x \in Nat /\ r.index \in Cells /\ r.index = x % IndexModulus
      BY <1>1, <2>2, <3>1 DEF IndicesRead
    <3>3. d.records[k] = r /\ d.variables[r.w[1]] = x
      BY <1>2, <2>1, <3>1
    <3> QED BY <3>2, <3>3
  <2>4. d.variables[w[1]] \in Nat /\ index \in Cells /\ index = d.variables[w[1]] % IndexModulus
    BY <1>6, SMTT(60) DEF MayFollow
  <2> QED BY <1>2, <1>3, <1>7, <2>3, <2>4 DEF IndicesRead
<1>12. ReadsHonest(d)
  <2>1. ReadsHonest(c) /\ StateHonest(c)
    BY DEF Faithful
  <2> SUFFICES ASSUME NEW k \in 1 .. n + 1, c.kind = "RAM", d.records[k].access = "READ"
               PROVE  LastValue(d, d.records[k].index, k - 1, d.variables[d.records[k].w[3]])
    BY <1>2, <1>3 DEF ReadsHonest
  <2>2. CASE k \in 1 .. n
    <3>1. LastValue(c, c.records[k].index, k - 1, c.variables[c.records[k].w[3]])
      BY <1>1, <1>2, <2>1, <2>2 DEF ReadsHonest
    <3>2. k - 1 \in 0 .. n
      BY <1>1, <2>2
    <3>3. LastValue(d, c.records[k].index, k - 1, c.variables[c.records[k].w[3]])
      BY <1>8, <3>1, <3>2
    <3>4. d.records[k] = c.records[k]
      BY <1>2, <2>2
    <3>5. d.variables[c.records[k].w[3]] = c.variables[c.records[k].w[3]]
      BY <1>5, <2>2
    <3> QED BY <3>3, <3>4, <3>5
  <2>3. CASE k = n + 1
    <3>1. /\ access = "READ" /\ ~ Uninitialized(c, index) /\ index \in Cells
          /\ c.variables[w[3]] = c.variables[c.state[index][1]]
      BY <1>2, <2>3 DEF MayFollow
    <3>2. LastValue(c, index, n, c.variables[w[3]])
      BY <2>1, <3>1 DEF StateHonest, n
    <3>3. n \in 0 .. n
      BY <1>1
    <3>4. LastValue(d, index, n, d.variables[w[3]])
      BY <1>6, <1>8, <3>2, <3>3
    <3> QED BY <1>2, <1>7, <2>3, <3>4
  <2> QED BY <1>7, <2>2, <2>3
<1>13. ASSUME NEW i \in Cells, c.kind = "RAM", ~ Uninitialized(d, i)
       PROVE  LastValue(d, i, n + 1, d.variables[d.state[i][1]])
  <2>1. index \in Cells
    BY DEF MayFollow
  <2>2. CASE i = index
    <3>1. d.variables[d.state[i][1]] = d.variables[w[3]]
      <4>1. CASE access = "READ"
        <5>1. /\ state = c.state /\ ~ Uninitialized(c, index) /\ c.variables[w[3]] = c.variables[c.state[index][1]]
          BY <1>13, <4>1 DEF MayFollow
        <5>2. c.state[index][1] \in 1 .. v
          BY <1>1, <2>1, <5>1 DEF CellsHeld, Uninitialized, UNINITIALIZED_MEMORY_RECORD, v
        <5> QED BY <1>2, <1>6, <2>2, <5>1, <5>2
      <4>2. CASE access = "WRITE"
        <5>1. state = Stored(c.state, index, w[3])
          BY <1>13, <4>2 DEF MayFollow
        <5>2. c.state \in [Cells -> Nat \X Nat]
          BY DEF Circuits
        <5>3. state[i][1] = w[3]
          BY <2>1, <2>2, <5>1, <5>2 DEF Stored
        <5> QED BY <1>2, <5>3
      <4> QED BY <4>1, <4>2
    <3>2. n + 1 \in 1 .. n + 1 /\ \A p \in (n + 1) + 1 .. n + 1 : FALSE
      BY <1>1
    <3>3. d.records[n + 1].index = i /\ d.variables[d.records[n + 1].w[3]] = d.variables[d.state[i][1]]
      BY <1>2, <2>2, <3>1
    <3> QED BY <3>2, <3>3 DEF LastValue
  <2>3. CASE i # index
    <3>1. d.state[i] = c.state[i]
      <4>1. CASE access = "READ"
        BY <1>2, <1>13, <4>1 DEF MayFollow
      <4>2. CASE access = "WRITE"
        <5>1. state = Stored(c.state, index, w[3])
          BY <1>13, <4>2 DEF MayFollow
        <5>2. c.state \in [Cells -> Nat \X Nat]
          BY DEF Circuits
        <5> QED BY <1>2, <2>3, <5>1, <5>2 DEF Stored
      <4> QED BY <4>1, <4>2
    <3>2. ~ Uninitialized(c, i)
      BY <1>13, <3>1 DEF Uninitialized
    <3>3. c.state[i][1] \in 1 .. v
      BY <1>1, <3>2 DEF CellsHeld, Uninitialized, UNINITIALIZED_MEMORY_RECORD, v
    <3>4. LastValue(c, i, n, c.variables[c.state[i][1]])
      BY <1>13, <3>2 DEF Faithful, StateHonest, n
    <3>5. LastValue(d, i, n, d.variables[d.state[i][1]])
      <4>1. n \in 0 .. n
        BY <1>1
      <4>2. d.variables[d.state[i][1]] = c.variables[c.state[i][1]]
        BY <1>2, <3>1, <3>3
      <4> QED BY <1>8, <3>4, <4>1, <4>2
    <3>6. PICK x : x = d.variables[d.state[i][1]]
      OBVIOUS
    <3>7. PICK j \in 1 .. n : /\ d.records[j].index = i /\ d.variables[d.records[j].w[3]] = x
                             /\ \A p \in j + 1 .. n : d.records[p].index # i
      BY <3>5, <3>6 DEF LastValue
    <3>8. j \in 1 .. n + 1 /\ \A p \in j + 1 .. n + 1 : p \in j + 1 .. n \/ p = n + 1
      <4>1. j \in Nat /\ 1 <= j /\ j <= n
        BY <1>1, <3>7
      <4>2. j \in 1 .. n + 1
        BY <1>1, <4>1
      <4>3. \A p \in j + 1 .. n + 1 : p \in j + 1 .. n \/ p = n + 1
        BY <1>1, <4>1
      <4> QED BY <4>2, <4>3
    <3>9. \A p \in j + 1 .. n + 1 : d.records[p].index # i
      BY <1>2, <2>3, <3>7, <3>8
    <3> QED BY <3>6, <3>7, <3>8, <3>9 DEF LastValue
  <2> QED BY <2>2, <2>3
<1>14. StateHonest(d)
  BY <1>2, <1>13 DEF StateHonest
<1>15. Roomy(d)
  BY <1>2 DEF Roomy, MayFollow, n
<1> QED BY <1>9, <1>10, <1>11, <1>12, <1>14, <1>15 DEF Faithful

LEMMA RecordAdded ==
    ASSUME NEW c, Built(c), NEW w, NEW index, NEW timestamp, NEW access, NEW state, NEW count,
           MayRecord(c, w, index, timestamp, access, count), MayHold(c, w, access, state),
           MayFollow(c, w, index, access, state),
           NEW d, d = Extended(c, w, index, timestamp, access, state, count)
    PROVE  Built(d) /\ d.kind = c.kind /\ d.state = state /\ d.access_count = count
           /\ NumVariables(d) = NumVariables(c) + 1 /\ Len(d.records) = Len(c.records) + 1
<1> DEFINE n == Len(c.records)
           v == NumVariables(c)
           l == Len(c.gates)
<1>1. /\ c \in Circuits /\ NumVariables(c) >= 1 /\ ConstantsFixed(c) /\ RecordsFit(c) /\ OthersFix(c)
      /\ CellsHeld(c) /\ ZeroWritten(c) /\ Counted(c)
  BY DEF Built
<1>2. n \in Nat /\ v \in Nat /\ l \in Nat
  BY <1>1, FieldsOfCircuit
<1>3. DOMAIN c.records = 1 .. n /\ DOMAIN c.gates = 1 .. l
  BY <1>1 DEF Circuits
<1>4. /\ w \in Seq(Nat) /\ index \in Int /\ timestamp \in Int /\ access \in {"READ", "WRITE"} /\ count \in Nat
      /\ state \in [Cells -> Nat \X Nat] /\ \A j \in 1 .. 3 : w[j] \in Nat
  BY <1>2, SMTT(60) DEF MayRecord, MayHold
<1>5. /\ d \in Circuits
      /\ d.constants = c.constants /\ d.kind = c.kind /\ d.state = state /\ d.access_count = count
      /\ NumVariables(d) = v + 1
      /\ \A u \in 1 .. v : d.variables[u] = c.variables[u]
      /\ Len(d.gates) = l + 1 /\ Len(d.records) = n + 1
      /\ \A k \in 1 .. l : d.gates[k] = c.gates[k]
      /\ \A k \in 1 .. n : d.records[k] = c.records[k]
      /\ d.gates[l + 1] = [type |-> AccessGate(c, access), w |-> <<w[1], w[2], w[3], v + 1>>, c |-> 0]
      /\ d.records[n + 1] =
           [w |-> w, index |-> index, timestamp |-> timestamp, access |-> access,
            record_witness |-> v + 1, gate |-> l + 1]
  <2>1. RecordParts(c, w, index, timestamp, access, state, count)
    BY <1>1, <1>4 DEF RecordParts
  <2>2. IsExtension(d, c, w, index, timestamp, access, state, count)
    BY <2>1, ExtendedIs
  <2> QED BY <2>2 DEF IsExtension
<1>6. DOMAIN d.records = 1 .. n + 1 /\ DOMAIN d.gates = 1 .. l + 1
  <2>1. d.records \in Seq([w : Seq(Nat), index : Int, timestamp : Int, access : {"READ", "WRITE"},
                           record_witness : Nat, gate : Nat])
        /\ d.gates \in Seq([type : GateTypes, w : Seq(Nat), c : Int])
    BY <1>5 DEF Circuits
  <2>2. DOMAIN d.records = 1 .. Len(d.records) /\ DOMAIN d.gates = 1 .. Len(d.gates)
    BY <2>1
  <2> QED BY <1>5, <2>2
<1> HIDE DEF n, v, l
<1>7. /\ \A k \in 1 .. n : k \in 1 .. n + 1
      /\ \A k \in 1 .. l : k \in 1 .. l + 1
      /\ \A k \in 1 .. v : k \in 1 .. v + 1
      /\ \A k \in 1 .. n + 1 : k \in 1 .. n \/ k = n + 1
      /\ \A k \in 1 .. l + 1 : k \in 1 .. l \/ k = l + 1
      /\ n + 1 \in 1 .. n + 1 /\ l + 1 \in 1 .. l + 1 /\ v + 1 \in 1 .. v + 1
  BY <1>2
<1>8. ConstantsFixed(d)
  <2>1. ASSUME NEW x \in DOMAIN d.constants
        PROVE  /\ d.constants[x] \in 1 .. NumVariables(d)
               /\ x # 0 => d.constants[x] > NumProgram
               /\ \E k \in DOMAIN d.gates :
                     d.gates[k].type = "FIX" /\ d.gates[k].w[1] = d.constants[x] /\ d.gates[k].c = x
    <3>1. /\ c.constants[x] \in 1 .. v
          /\ x # 0 => c.constants[x] > NumProgram
          /\ \E k \in DOMAIN c.gates :
                c.gates[k].type = "FIX" /\ c.gates[k].w[1] = c.constants[x] /\ c.gates[k].c = x
      BY <1>1, <1>5, <2>1 DEF ConstantsFixed, v
    <3> QED BY <1>3, <1>5, <1>6, <1>7, <3>1
  <2>2. 0 \in DOMAIN d.constants /\ d.constants[0] = zero_idx /\ d.variables[zero_idx] = 0
    BY <1>1, <1>2, <1>5 DEF ConstantsFixed, zero_idx, v
  <2> QED BY <2>1, <2>2 DEF ConstantsFixed
<1>9. \A x : IsIndex(c, x) => IsIndex(d, x)
  BY <1>5 DEF IsIndex
<1>10. \A k \in 1 .. n : RecordFits(c, k) /\ c.records[k].gate \in 1 .. l
                        /\ c.records[k].record_witness \in 2 .. v
  BY <1>1, <1>3 DEF RecordsFit, RecordFits, v
<1>11. RecordsFit(d)
  <2>1. ASSUME NEW k \in 1 .. n PROVE RecordFits(d, k)
    <3>1. RecordFits(c, k) /\ c.records[k].gate \in 1 .. l
      BY <1>10
    <3>2. d.records[k] = c.records[k] /\ d.gates[c.records[k].gate] = c.gates[c.records[k].gate]
      BY <1>5, <3>1
    <3>3. c.records[k].gate \in DOMAIN d.gates
      BY <1>6, <1>7, <3>1
    <3>4. \A u \in 1 .. v : u \in 1 .. NumVariables(d)
      BY <1>5, <1>7
    <3>5. \A u \in 2 .. v : u \in 2 .. NumVariables(d)
      BY <1>2, <1>5
    <3>6. AccessGate(d, c.records[k].access) = AccessGate(c, c.records[k].access) /\ d.kind = c.kind
          /\ d.constants = c.constants
      BY <1>5 DEF AccessGate
    <3> QED BY <1>9, <3>1, <3>2, <3>3, <3>4, <3>5, <3>6 DEF RecordFits, v
  <2>2. RecordFits(d, n + 1)
    <3> DEFINE r == d.records[n + 1]
               g == d.gates[l + 1]
    <3>1. /\ r.w = w /\ r.timestamp = timestamp /\ r.access = access /\ r.record_witness = v + 1 /\ r.gate = l + 1
          /\ g.type = AccessGate(c, access) /\ g.w[1] = w[1] /\ g.w[2] = w[2] /\ g.w[3] = w[3] /\ g.w[4] = v + 1
      BY <1>5
    <3>2. v + 1 \in 2 .. v + 1
      BY <1>1, <1>2 DEF v
    <3>3. \A j \in 1 .. 3 : w[j] \in 1 .. v + 1
      BY <1>7 DEF MayRecord, v
    <3>4. IsIndex(d, w[1])
      BY <1>9 DEF MayRecord
    <3>5. AccessGate(d, access) = AccessGate(c, access)
      BY <1>5 DEF AccessGate
    <3>6. /\ d.kind = "ROM" => access = "READ"
          /\ d.kind = "RAM" => /\ timestamp = (n + 1) - 1 /\ timestamp \in DOMAIN d.constants
                               /\ w[2] = d.constants[timestamp]
      BY <1>2, <1>5 DEF MayRecord, n
    <3> QED BY <1>5, <1>6, <1>7, <3>1, <3>2, <3>3, <3>4, <3>5, <3>6 DEF RecordFits
  <2>3. ASSUME NEW j \in 1 .. n + 1, NEW k \in 1 .. n + 1, d.records[j].record_witness = d.records[k].record_witness
        PROVE  j = k
    <3>1. CASE j \in 1 .. n /\ k \in 1 .. n
      <4>1. \A p, q \in 1 .. n : c.records[p].record_witness = c.records[q].record_witness => p = q
        BY <1>1, <1>3 DEF RecordsFit
      <4>2. d.records[j] = c.records[j] /\ d.records[k] = c.records[k]
        BY <1>5, <3>1
      <4> QED BY <2>3, <3>1, <4>1, <4>2
    <3>2. d.records[n + 1].record_witness = v + 1
      BY <1>5
    <3>3. \A m \in 1 .. n : d.records[m].record_witness # v + 1
      <4>1. \A u \in 2 .. v : u # v + 1
        BY <1>2
      <4> QED BY <1>5, <1>10, <4>1
    <3> QED BY <1>7, <2>3, <3>1, <3>2, <3>3
  <2> QED BY <1>6, <1>7, <2>1, <2>2, <2>3 DEF RecordsFit
<1>12. OthersFix(d)
  <2>1. ASSUME NEW g \in 1 .. l
        PROVE  \/ \E k \in DOMAIN d.records : d.records[k].gate = g
               \/ d.gates[g].type = "FIX" /\ d.gates[g].w[4] = zero_idx
    <3>1. \/ \E k \in 1 .. n : c.records[k].gate = g
          \/ c.gates[g].type = "FIX" /\ c.gates[g].w[4] = zero_idx
      BY <1>1, <1>3 DEF OthersFix
    <3> QED BY <1>5, <1>6, <1>7, <3>1
  <2>2. d.records[n + 1].gate = l + 1 /\ n + 1 \in DOMAIN d.records
    BY <1>5, <1>6, <1>7
  <2> QED BY <1>6, <1>7, <2>1, <2>2 DEF OthersFix
<1>13. CellsHeld(d)
  <2> SUFFICES ASSUME NEW i \in Cells
               PROVE  /\ d.state[i][1] \in 0 .. NumVariables(d)
                      /\ ~ Uninitialized(d, i) =>
                            i \in DOMAIN d.constants /\ \E k \in DOMAIN d.records : SetBy(d, i, k)
    BY DEF CellsHeld
  <2>1. d.state[i][1] \in 0 .. NumVariables(d)
    BY <1>2, <1>5 DEF MayHold, v
  <2>2. CASE ~ Uninitialized(c, i) /\ (c.kind = "RAM" \/ state[i] = c.state[i])
    <3>1. i \in DOMAIN c.constants
      BY <1>1, <2>2 DEF CellsHeld
    <3>2. PICK k \in 1 .. n : SetBy(c, i, k)
      BY <1>1, <1>3, <2>2 DEF CellsHeld
    <3>3. SetBy(d, i, k)
      BY <1>5, <2>2, <3>2 DEF SetBy
    <3> QED BY <1>5, <1>6, <1>7, <2>1, <3>1, <3>2, <3>3
  <2>3. CASE /\ i \in DOMAIN c.constants /\ w[1] = c.constants[i]
             /\ c.kind = "ROM" => w[2] = state[i][1] /\ w[3] = state[i][2]
             /\ c.kind = "RAM" => access = "WRITE"
    <3>1. SetBy(d, i, n + 1)
      BY <1>5, <2>3 DEF SetBy
    <3> QED BY <1>5, <1>6, <1>7, <2>1, <2>3, <3>1
  <2>4. CASE Uninitialized(d, i)
    BY <2>1, <2>4
  <2>5. ~ Uninitialized(d, i) => state[i][1] # UNINITIALIZED_MEMORY_RECORD
    BY <1>5 DEF Uninitialized
  <2> QED BY <2>2, <2>3, <2>4, <2>5 DEF MayHold
<1>14. ZeroWritten(d)
  <2>1. ASSUME NEW k \in 1 .. n, c.kind = "RAM", c.records[k].access = "READ"
        PROVE  /\ d.records[k].w[1] \in IndexVariables
               /\ d.records[k].w[1] = zero_idx =>
                    \E j \in 1 .. k - 1 : d.records[j].access = "WRITE" /\ d.records[j].w[1] = zero_idx
    <3>1. \A j \in 1 .. k - 1 : j \in 1 .. n
      BY <1>2
    <3>2. /\ c.records[k].w[1] \in IndexVariables
          /\ c.records[k].w[1] = zero_idx =>
               \E j \in 1 .. k - 1 : c.records[j].access = "WRITE" /\ c.records[j].w[1] = zero_idx
      BY <1>1, <1>3, <2>1 DEF ZeroWritten
    <3> QED BY <1>5, <3>1, <3>2
  <2>2. ASSUME c.kind = "RAM", access = "READ"
        PROVE  /\ w[1] \in IndexVariables
               /\ w[1] = zero_idx =>
                    \E j \in 1 .. n : d.records[j].access = "WRITE" /\ d.records[j].w[1] = zero_idx
    <3>1. w[1] \in IndexVariables /\ (w[1] = zero_idx => ~ Uninitialized(c, 0))
      BY <2>2 DEF MayRecord
    <3>2. ASSUME ~ Uninitialized(c, 0)
          PROVE  \E j \in 1 .. n : d.records[j].access = "WRITE" /\ d.records[j].w[1] = zero_idx
      <4>1. PICK j \in 1 .. n : SetBy(c, 0, j)
        BY <1>1, <1>3, <3>2, SizeOfArray DEF CellsHeld
      <4>2. c.records[j].access = "WRITE" /\ c.records[j].w[1] = zero_idx
        BY <1>1, <2>2, <4>1 DEF SetBy, ConstantsFixed
      <4> QED BY <1>5, <4>1, <4>2
    <3> QED BY <3>1, <3>2
  <2>3. d.records[n + 1].w = w /\ d.records[n + 1].access = access /\ (n + 1) - 1 = n
    BY <1>2, <1>5
  <2> SUFFICES ASSUME NEW k \in 1 .. n + 1, d.kind = "RAM", d.records[k].access = "READ"
               PROVE  /\ d.records[k].w[1] \in IndexVariables
                      /\ d.records[k].w[1] = zero_idx =>
                           \E j \in 1 .. k - 1 : d.records[j].access = "WRITE" /\ d.records[j].w[1] = zero_idx
    BY <1>6 DEF ZeroWritten
  <2>4. CASE k \in 1 .. n
    BY <1>5, <2>1, <2>4
  <2>5. CASE k = n + 1
    BY <1>5, <2>2, <2>3, <2>5
  <2> QED BY <1>7, <2>4, <2>5
<1>15. Counted(d)
  BY <1>1, <1>2, <1>5, SizeOfArray, SMTT(60) DEF Counted, MayRecord, n, v
<1>16. NumVariables(d) >= 1
  BY <1>2, <1>5
<1>17. Faithful(d)
  <2>1. \A j \in 1 .. 3 : w[j] \in 1 .. NumVariables(c)
    BY DEF MayRecord
  <2>2. NumVariables(c) >= NumProgram
    BY <1>1 DEF Counted, MayRecord
  <2>3. IsExtension(d, c, w, index, timestamp, access, state, count)
    BY <1>1, <1>4, ExtendedIs DEF RecordParts
  <2> QED BY <1>1, <1>4, <2>1, <2>2, <2>3, RecordFollows DEF Built
<1> QED BY <1>5, <1>8, <1>11, <1>12, <1>13, <1>14, <1>15, <1>16, <1>17 DEF Built, n, v

\* What an operation of the program leaves.
Leaves(c, d) == Built(d) /\ d.kind = c.kind /\ NumVariables(d) >= NumVariables(c)

LEMMA BuiltIs ==
    ASSUME NEW c, Built(c)
    PROVE  /\ c \in Circuits /\ NumVariables(c) \in Nat /\ NumVariables(c) >= 1 /\ Len(c.records) \in Nat
           /\ c.state \in [Cells -> Nat \X Nat] /\ c.access_count \in Nat
           /\ \A i \in Cells : c.state[i][1] \in 0 .. NumVariables(c)
           /\ zero_idx \in 1 .. NumVariables(c)
<1>1. c \in Circuits /\ NumVariables(c) >= 1 /\ CellsHeld(c)
  BY DEF Built
<1>2. NumVariables(c) \in Nat /\ Len(c.records) \in Nat
  BY <1>1, FieldsOfCircuit
<1>3. c.state \in [Cells -> Nat \X Nat] /\ c.access_count \in Nat
  BY <1>1 DEF Circuits
<1>4. \A i \in Cells : c.state[i][1] \in 0 .. NumVariables(c)
  BY <1>1 DEF CellsHeld
<1> QED BY <1>1, <1>2, <1>3, <1>4 DEF zero_idx

Updated(c, state, count) == [c EXCEPT !.state = state, !.access_count = count]

LEMMA AddRecordIs ==
    ASSUME NEW c \in Circuits, NEW w, NEW index, NEW timestamp, NEW access, NEW state, NEW count
    PROVE  AddRecord(Updated(c, state, count), w, index, timestamp, access)
                 = Extended(c, w, index, timestamp, access, state, count)
<1> DEFINE v == NumVariables(c) + 1
           g == [type |-> AccessGate(c, access), w |-> <<w[1], w[2], w[3], v>>, c |-> 0]
           e == [c EXCEPT !.state = state, !.access_count = count]
           f == [c EXCEPT !.state = state, !.access_count = count, !.variables = Append(c.variables, 0)]
           h == [c EXCEPT !.state = state, !.access_count = count, !.variables = Append(c.variables, 0),
                          !.gates = Append(c.gates, g)]
           r == [w |-> w, index |-> index, timestamp |-> timestamp, access |-> access,
                 record_witness |-> v, gate |-> Len(c.gates) + 1]
<1>1. NumVariables(e) + 1 = v /\ AccessGate(e, access) = AccessGate(c, access)
  BY DEF Circuits, NumVariables, AccessGate
<1>2. AddVariable(e, 0) = f
  BY DEF AddVariable, Circuits
<1> HIDE DEF g
<1>3. AddGate(f, AccessGate(c, access), <<w[1], w[2], w[3], v>>, 0) = h
  BY DEF AddGate, Circuits, g
<1>4. Len(h.gates) = Len(c.gates) + 1 /\ h.records = c.records
  BY DEF Circuits
<1>5. AddRecord(e, w, index, timestamp, access) = [h EXCEPT !.records = Append(@, r)]
  <2> HIDE DEF e, f, h, v
  <2> QED BY <1>1, <1>2, <1>3, <1>4 DEF AddRecord, r
<1> HIDE DEF r
<1>6. [h EXCEPT !.records = Append(@, r)] =
        [c EXCEPT !.variables = Append(c.variables, 0), !.gates = Append(c.gates, g),
                  !.records = Append(c.records, r), !.state = state, !.access_count = count]
  BY DEF Circuits
<1>7. Extended(c, w, index, timestamp, access, state, count) =
        [c EXCEPT !.variables = Append(c.variables, 0), !.gates = Append(c.gates, g),
                  !.records = Append(c.records, r), !.state = state, !.access_count = count]
  BY DEF Extended, g, r
<1> QED BY <1>5, <1>6, <1>7 DEF Updated

LEMMA AddRecordPlain ==
    ASSUME NEW c \in Circuits, NEW w, NEW index, NEW timestamp, NEW access
    PROVE  AddRecord(c, w, index, timestamp, access)
                 = Extended(c, w, index, timestamp, access, c.state, c.access_count)
<1>1. c = Updated(c, c.state, c.access_count)
  BY DEF Circuits, Updated
<1> QED BY <1>1, AddRecordIs

\* There is room for the record of cell i.
HasRoom(c, i) == Len(c.records) + 1 + Cardinality(Vacant(c.state) \ {i}) < Modulus

LEMMA VacantAre ==
    ASSUME NEW c
    PROVE  /\ IsFiniteSet(Vacant(c.state)) /\ Cardinality(Vacant(c.state)) \in Nat
           /\ Vacant(c.state) = {i \in Cells : Uninitialized(c, i)} /\ Vacant(c.state) \subseteq Cells
           /\ \A i : IsFiniteSet(Vacant(c.state) \ {i}) /\ Cardinality(Vacant(c.state) \ {i}) \in Nat
<1>1. IsFiniteSet(Cells)
  <2>1. 0 \in Int /\ ArraySize - 1 \in Int
    BY SizeOfArray
  <2> QED BY <2>1, FS_Interval DEF Cells
<1>2. Vacant(c.state) = {i \in Cells : Uninitialized(c, i)} /\ Vacant(c.state) \subseteq Cells
  BY DEF Vacant, Uninitialized
<1>3. IsFiniteSet(Vacant(c.state))
  BY <1>1, <1>2, FS_Subset
<1>4. Cardinality(Vacant(c.state)) \in Nat
  BY <1>3, FS_CardinalityType
<1>5. ASSUME NEW i PROVE IsFiniteSet(Vacant(c.state) \ {i}) /\ Cardinality(Vacant(c.state) \ {i}) \in Nat
  <2>1. IsFiniteSet(Vacant(c.state) \ {i})
    <3>1. Vacant(c.state) \ {i} \subseteq Vacant(c.state)
      OBVIOUS
    <3> QED BY <1>3, <3>1, FS_Subset
  <2> QED BY <2>1, FS_CardinalityType
<1> QED BY <1>2, <1>3, <1>4, <1>5

LEMMA RoomFor ==
    ASSUME NEW c, Built(c), c.kind # "NONE", NEW i, HasRecordRoom(c, i)
    PROVE  HasRoom(c, i)
<1>1. c \in Circuits /\ Len(c.records) \in Nat
  BY FieldsOfCircuit DEF Built
<1>2. c.kind \in {"ROM", "RAM"}
  BY <1>1 DEF Circuits
<1>3. PICK m \in Nat : m = MaxRecords[c.kind] /\ 2 * m <= Modulus
  BY <1>2, MemoryAssumption
<1>4. PICK a \in Nat : a = Cardinality(Vacant(c.state) \ {i})
  BY VacantAre
<1>5. Len(c.records) + a < m
  BY <1>3, <1>4, VacantAre DEF HasRecordRoom
<1>6. PICK n \in Nat, q \in Nat : n = Len(c.records) /\ q = Modulus
  BY <1>1, SizeOfArray
<1>7. n + a < m /\ 2 * m <= q
  BY <1>3, <1>5, <1>6
<1>8. n + 1 + a < q
  BY <1>7
<1> QED BY <1>4, <1>6, <1>8 DEF HasRoom

LEMMA RoomForMissing ==
    ASSUME NEW c, Built(c), NEW i \in Cells, Uninitialized(c, i)
    PROVE  HasRoom(c, i)
<1>1. PICK a \in Nat, b \in Nat : a = Cardinality(Vacant(c.state)) /\ b = Cardinality(Vacant(c.state) \ {i})
  BY VacantAre
<1>2. i \in Vacant(c.state)
  BY VacantAre
<1>3. b = a - 1
  BY <1>1, <1>2, VacantAre, FS_RemoveElement
<1>4. Len(c.records) \in Nat
  BY FieldsOfCircuit DEF Built
<1>5. Len(c.records) + a < Modulus
  BY <1>1 DEF Built, Faithful, Roomy
<1>6. Len(c.records) + 1 + b < Modulus
  BY <1>1, <1>3, <1>4, <1>5, SizeOfArray
<1> QED BY <1>1, <1>6 DEF HasRoom

\* A cell that is set is no longer vacant.
LEMMA VacantAfter ==
    ASSUME NEW a, NEW b, NEW i \in Cells, b[i][1] # UNINITIALIZED_MEMORY_RECORD,
           \A j \in Cells : j # i => b[j] = a[j]
    PROVE  Vacant(b) = Vacant(a) \ {i}
BY DEF Vacant

LEMMA ConstantIs ==
    ASSUME NEW c, Built(c), NEW x \in DOMAIN c.constants
    PROVE  c.variables[c.constants[x]] = x
<1>1. PICK k \in DOMAIN c.gates :
          c.gates[k].type = "FIX" /\ c.gates[k].w[1] = c.constants[x] /\ c.gates[k].c = x
  BY DEF Built, ConstantsFixed
<1> QED BY <1>1 DEF Built, Faithful, FixesHold

LEMMA CellIsIndex ==
    ASSUME NEW i \in Cells
    PROVE  i \in Nat /\ i % IndexModulus = i
<1>1. i \in Nat /\ i < IndexModulus /\ IndexModulus \in Nat
  BY SizeOfArray DEF Cells
<1>2. PICK m \in Nat : m = IndexModulus
  BY <1>1
<1>3. i \in 0 .. m - 1
  BY <1>1, <1>2
<1>4. i % m = i
  BY <1>3
<1> QED BY <1>1, <1>2, <1>4

LEMMA SetROMBuilds ==
    ASSUME NEW c, Built(c), c.kind = "ROM", NEW i \in Cells, HasRoom(c, i),
           NEW a \in 1 .. NumVariables(c), NEW b \in 1 .. NumVariables(c)
    PROVE  /\ Leaves(c, SetROM(c, i, <<a, b>>))
           /\ \A j \in Cells : SetROM(c, i, <<a, b>>).state[j] = IF j = i THEN <<a, b>> ELSE c.state[j]
<1> DEFINE d == PutConstantVariable(c, i)
           w == <<d.constants[i], a, b>>
           state == [d.state EXCEPT ![i] = <<a, b>>]
           e == Extended(d, w, i, 0, "READ", state, d.access_count)
<1>1. i \in Int /\ i \in Nat
  BY SizeOfArray
<1>2. /\ Built(d) /\ i \in DOMAIN d.constants
      /\ d.kind = c.kind /\ d.records = c.records /\ d.state = c.state /\ d.access_count = c.access_count
      /\ NumVariables(d) >= NumVariables(c)
  BY <1>1, ConstantPut
<1> HIDE DEF d
<1>3. /\ d \in Circuits /\ NumVariables(d) \in Nat /\ d.state \in [Cells -> Nat \X Nat] /\ d.access_count \in Nat
      /\ \A j \in Cells : d.state[j][1] \in 0 .. NumVariables(d)
  BY <1>2, BuiltIs
<1>4. a \in 1 .. NumVariables(d) /\ b \in 1 .. NumVariables(d) /\ d.constants[i] \in 1 .. NumVariables(d)
  <2>1. NumVariables(c) \in Nat
    BY BuiltIs
  <2>2. ConstantsFixed(d)
    BY <1>2 DEF Built
  <2> QED BY <1>2, <1>3, <2>1, <2>2 DEF ConstantsFixed
<1>5. SetROM(c, i, <<a, b>>) = e
  <2>1. [d EXCEPT !.state[i] = <<a, b>>] = [d EXCEPT !.state = state]
    BY <1>3 DEF Circuits
  <2>2. SetROM(c, i, <<a, b>>) = AddRecord([d EXCEPT !.state[i] = <<a, b>>], w, i, 0, "READ")
    BY DEF SetROM, d
  <2>3. AddRecord([d EXCEPT !.state = state], w, i, 0, "READ") = e
    <3>1. [d EXCEPT !.state = state] = Updated(d, state, d.access_count)
      BY <1>3 DEF Circuits, Updated
    <3> QED BY <1>3, <3>1, AddRecordIs
  <2> QED BY <2>1, <2>2, <2>3
<1>6. MayRecord(d, w, i, 0, "READ", d.access_count)
  <2>1. w \in Seq(Nat) /\ \A j \in 1 .. 3 : w[j] \in 1 .. NumVariables(d)
    BY <1>3, <1>4
  <2>2. IsIndex(d, w[1])
    BY <1>2 DEF IsIndex
  <2> QED BY <1>1, <1>2, <1>3, <2>1, <2>2 DEF MayRecord
<1>7. MayHold(d, w, "READ", state)
  BY <1>2, <1>3, <1>4 DEF MayHold, Uninitialized
<1>a. MayFollow(d, w, i, "READ", state)
  <2>1. d.variables[w[1]] = i /\ i \in Nat /\ i % IndexModulus = i
    BY <1>2, ConstantIs, CellIsIndex
  <2>2. Vacant(state) = Vacant(c.state) \ {i}
    <3>1. NumVariables(c) \in Nat
      BY BuiltIs
    <3>2. a # UNINITIALIZED_MEMORY_RECORD
      BY <3>1 DEF UNINITIALIZED_MEMORY_RECORD
    <3>3. state[i][1] = a /\ \A j \in Cells : j # i => state[j] = c.state[j]
      BY <1>2, <1>3
    <3>4. PICK s : s = state
      OBVIOUS
    <3>5. s[i][1] # UNINITIALIZED_MEMORY_RECORD /\ \A j \in Cells : j # i => s[j] = c.state[j]
      BY <3>2, <3>3, <3>4
    <3> HIDE DEF state
    <3>6. Vacant(s) = Vacant(c.state) \ {i}
      BY <3>5 DEF Vacant
    <3> QED BY <3>4, <3>6
  <2>3. Len(d.records) + 1 + Cardinality(Vacant(state)) < Modulus
    BY <1>2, <2>2 DEF HasRoom
  <2> HIDE DEF state, w
  <2> QED BY <1>2, <2>1, <2>3 DEF MayFollow
<1>8. Built(e) /\ e.kind = d.kind /\ e.state = state /\ NumVariables(e) = NumVariables(d) + 1
  BY <1>2, <1>6, <1>7, <1>a, RecordAdded
<1> HIDE DEF e
<1>9. NumVariables(e) >= NumVariables(c)
  <2>1. NumVariables(c) \in Nat
    BY BuiltIs
  <2> QED BY <1>2, <1>3, <1>8, <2>1
<1>10. \A j \in Cells : state[j] = IF j = i THEN <<a, b>> ELSE c.state[j]
  BY <1>2, <1>3
<1> QED BY <1>2, <1>5, <1>8, <1>9, <1>10 DEF Leaves

LEMMA InitRAMBuilds ==
    ASSUME NEW c, Built(c), c.kind = "RAM", NEW i \in Cells, HasRoom(c, i),
           NEW value \in 1 .. NumVariables(c)
    PROVE  /\ Leaves(c, InitRAM(c, i, value))
           /\ InitRAM(c, i, value).state = Stored(c.state, i, value)
<1> DEFINE b == PutConstantVariable(c, i)
           t == c.access_count
           d == PutConstantVariable(b, t)
           w == <<d.constants[i], d.constants[t], value>>
           state == Stored(d.state, i, value)
           e == Extended(d, w, i, t, "WRITE", state, t + 1)
<1>1. i \in Int /\ i \in Nat /\ t \in Nat /\ t \in Int /\ NumVariables(c) \in Nat /\ Len(c.records) \in Nat
  BY SizeOfArray, BuiltIs
<1>2. /\ Built(b) /\ i \in DOMAIN b.constants
      /\ b.kind = c.kind /\ b.records = c.records /\ b.state = c.state /\ b.access_count = t
      /\ NumVariables(b) >= NumVariables(c)
  BY <1>1, ConstantPut
<1> HIDE DEF b
<1>3. /\ Built(d) /\ t \in DOMAIN d.constants /\ i \in DOMAIN d.constants
      /\ d.kind = c.kind /\ d.records = c.records /\ d.state = c.state /\ d.access_count = t
      /\ NumVariables(d) >= NumVariables(b)
  BY <1>1, <1>2, ConstantPut
<1> HIDE DEF d
<1>4. /\ d \in Circuits /\ NumVariables(d) \in Nat /\ d.state \in [Cells -> Nat \X Nat]
      /\ \A j \in Cells : d.state[j][1] \in 0 .. NumVariables(d)
      /\ NumVariables(b) \in Nat
  BY <1>2, <1>3, BuiltIs
<1>5. NumVariables(d) >= NumVariables(c) /\ value \in 1 .. NumVariables(d) /\ value \in Nat
  BY <1>1, <1>2, <1>3, <1>4
<1>6. d.constants[i] \in 1 .. NumVariables(d) /\ d.constants[t] \in 1 .. NumVariables(d)
  BY <1>3 DEF Built, ConstantsFixed
<1>7. /\ state \in [Cells -> Nat \X Nat] /\ state[i] = <<value, d.state[i][2]>>
      /\ \A j \in Cells : j # i => state[j] = d.state[j]
  BY <1>4, <1>5, StoredIs
<1>8. InitRAM(c, i, value) = e
  <2>1. [d EXCEPT !.state[i][1] = value, !.access_count = @ + 1] = Updated(d, state, t + 1)
    <3>1. [d.state EXCEPT ![i][1] = value] = state
      BY <1>4, <1>5, StoredIs, ZenonT(60)
    <3>2. [d EXCEPT !.state[i][1] = value, !.access_count = @ + 1] =
          [d EXCEPT !.state = [d.state EXCEPT ![i][1] = value], !.access_count = d.access_count + 1]
      BY <1>4 DEF Circuits
    <3> QED BY <1>3, <3>1, <3>2 DEF Updated
  <2>2. InitRAM(c, i, value) =
          AddRecord([d EXCEPT !.state[i][1] = value, !.access_count = @ + 1], w, i, t, "WRITE")
    BY DEF InitRAM, d, b
  <2>3. AddRecord(Updated(d, state, t + 1), w, i, t, "WRITE") = e
    BY <1>4, AddRecordIs
  <2> QED BY <2>1, <2>2, <2>3
<1> HIDE DEF state
<1>9. MayRecord(d, w, i, t, "WRITE", t + 1)
  <2>1. w \in Seq(Nat) /\ \A j \in 1 .. 3 : w[j] \in 1 .. NumVariables(d)
    BY <1>4, <1>5, <1>6
  <2>2. IsIndex(d, w[1])
    BY <1>3 DEF IsIndex
  <2>3. t = Len(d.records)
    BY <1>3 DEF Built, Counted
  <2> QED BY <1>1, <1>3, <2>1, <2>2, <2>3 DEF MayRecord
<1>10. MayHold(d, w, "WRITE", state)
  <2>1. ASSUME NEW j \in Cells, j # i
        PROVE  /\ state[j][1] \in 0 .. NumVariables(d)
               /\ state[j][1] # UNINITIALIZED_MEMORY_RECORD => ~ Uninitialized(d, j)
    BY <1>4, <1>7, <2>1 DEF Uninitialized
  <2>2. state[i][1] \in 0 .. NumVariables(d)
    BY <1>4, <1>5, <1>7
  <2> QED BY <1>3, <1>7, <2>1, <2>2 DEF MayHold
<1>a. MayFollow(d, w, i, "WRITE", state)
  <2>1. d.variables[w[1]] = i /\ i \in Nat /\ i % IndexModulus = i
    BY <1>3, ConstantIs, CellIsIndex
  <2>2. Vacant(state) = Vacant(c.state) \ {i}
    <3>1. state[i][1] # UNINITIALIZED_MEMORY_RECORD /\ \A j \in Cells : j # i => state[j] = c.state[j]
      BY <1>1, <1>3, <1>7 DEF UNINITIALIZED_MEMORY_RECORD
    <3>2. PICK s : s = state
      OBVIOUS
    <3>3. s[i][1] # UNINITIALIZED_MEMORY_RECORD /\ \A j \in Cells : j # i => s[j] = c.state[j]
      BY <3>1, <3>2
    <3>4. Vacant(s) = Vacant(c.state) \ {i}
      BY <3>3, VacantAfter
    <3> QED BY <3>2, <3>4
  <2>3. Len(d.records) + 1 + Cardinality(Vacant(state)) < Modulus
    BY <1>3, <2>2 DEF HasRoom
  <2>4. state = Stored(d.state, i, w[3])
    BY DEF state
  <2> QED BY <2>1, <2>3, <2>4 DEF MayFollow
<1>11. Built(e) /\ e.kind = d.kind /\ e.state = state /\ NumVariables(e) = NumVariables(d) + 1
  BY <1>3, <1>9, <1>10, <1>a, RecordAdded
<1> HIDE DEF e
<1>12. NumVariables(e) >= NumVariables(c)
  BY <1>1, <1>4, <1>5, <1>11
<1> QED BY <1>3, <1>8, <1>11, <1>12 DEF Leaves, state

\* An index the program may use, and the cell it names.
LEMMA CellAccessed ==
    ASSUME NEW c, Built(c), NEW v \in IndexVariables, CanAccess(c, v), NEW i, i = IndexOf(c, v)
    PROVE  /\ c.kind # "NONE" /\ i \in Cells /\ ~ Uninitialized(c, i)
           /\ v \in 1 .. NumVariables(c) /\ v \in Nat /\ i \in Int
           /\ c.state[i][1] \in 1 .. NumVariables(c) /\ c.variables[c.state[i][1]] \in Int
           /\ c.kind = "ROM" => c.state[i][2] \in 1 .. NumVariables(c) /\ c.variables[c.state[i][2]] \in Int
           /\ v = zero_idx => i = 0
           /\ c.variables[v] \in Nat
           /\ Len(c.records) + 1 + Cardinality(Vacant(c.state)) < Modulus
<1>1. /\ c \in Circuits /\ NumVariables(c) \in Nat /\ NumVariables(c) >= 1
      /\ \A j \in Cells : c.state[j][1] \in 0 .. NumVariables(c)
  BY BuiltIs
<1>2. \A x \in 1 .. NumVariables(c) : c.variables[x] \in Int
  BY <1>1, FieldsOfCircuit
<1>3. c.kind # "NONE" /\ i \in Cells /\ ~ Uninitialized(c, i)
  BY DEF CanAccess
<1>4. NumVariables(c) >= NumProgram
  BY <1>3 DEF Built, Counted
<1>5. v \in 1 .. NumVariables(c) /\ v \in Nat
  BY <1>1, <1>4, SizeOfArray DEF IndexVariables, zero_idx, NumProgram
<1>6. c.state[i][1] \in 1 .. NumVariables(c)
  BY <1>1, <1>3 DEF Uninitialized, UNINITIALIZED_MEMORY_RECORD
<1>7. ASSUME c.kind = "ROM" PROVE c.state[i][2] \in 1 .. NumVariables(c)
  <2>1. PICK k \in DOMAIN c.records : SetBy(c, i, k)
    BY <1>3 DEF Built, CellsHeld
  <2>2. RecordFits(c, k)
    BY <2>1 DEF Built, RecordsFit
  <2>3. c.records[k].w[3] \in 1 .. NumVariables(c)
    <3>1. \A j \in 1 .. 3 : c.records[k].w[j] \in 1 .. NumVariables(c)
      BY <2>2 DEF RecordFits
    <3> QED BY <3>1
  <2> QED BY <1>7, <2>1, <2>3 DEF SetBy
<1>8. v = zero_idx => i = 0
  <2>1. c.variables[zero_idx] = 0
    BY DEF Built, ConstantsFixed
  <2>2. 0 % IndexModulus = 0
    BY SizeOfArray
  <2> QED BY <2>1, <2>2 DEF IndexOf
<1>9. i \in Int
  BY <1>3, SizeOfArray
<1>10. c.variables[v] \in Nat
  <2>1. v <= NumProgram
    BY SizeOfArray DEF IndexVariables, zero_idx, NumProgram
  <2>2. c.variables[v] \in Field
    BY <1>5, <2>1 DEF Built, Faithful, WitnessesInField
  <2> QED BY <2>2, SizeOfArray DEF Field
<1>11. Len(c.records) + 1 + Cardinality(Vacant(c.state)) < Modulus
  <2>1. HasRecordRoom(c, -1)
    BY DEF CanAccess
  <2>2. HasRoom(c, -1)
    BY <1>3, <2>1, RoomFor
  <2>3. Vacant(c.state) \ {-1} = Vacant(c.state)
    <3>1. Vacant(c.state) \subseteq Nat
      BY VacantAre, SizeOfArray
    <3> QED BY <3>1
  <2> QED BY <2>2, <2>3 DEF HasRoom
<1> QED BY <1>2, <1>3, <1>5, <1>6, <1>7, <1>8, <1>9, <1>10, <1>11

\* A variable more leaves the others as they are.
LEMMA VariableKept ==
    ASSUME NEW c, Built(c), NEW x \in Int, NEW d, d = AddVariable(c, x)
    PROVE  /\ d.kind = c.kind /\ d.state = c.state /\ d.records = c.records
           /\ \A u \in 1 .. NumVariables(c) : d.variables[u] = c.variables[u]
<1>1. c \in Circuits /\ c.variables \in Seq(Int)
  BY FieldsOfCircuit DEF Built
<1>2. /\ d.kind = c.kind /\ d.state = c.state /\ d.records = c.records
      /\ d.variables = Append(c.variables, x)
  BY <1>1 DEF AddVariable, Circuits
<1> QED BY <1>1, <1>2, AppendIs DEF NumVariables

LEMMA ReadROMBuilds ==
    ASSUME NEW c, Built(c), c.kind = "ROM", NEW v \in IndexVariables, CanAccess(c, v)
    PROVE  Leaves(c, ReadROM(c, v)) /\ ReadROM(c, v).state = c.state
<1> DEFINE i == IndexOf(c, v)
           x == c.variables[c.state[i][1]]
           d == AddVariable(c, x)
           w == <<v, NumVariables(d), zero_idx>>
           e == Extended(d, w, i, 0, "READ", d.state, d.access_count)
<1>1. /\ c.kind # "NONE" /\ i \in Cells /\ v \in 1 .. NumVariables(c) /\ v \in Nat /\ i \in Int /\ x \in Int
      /\ c.variables[v] \in Nat /\ i = c.variables[v] % IndexModulus
      /\ Len(c.records) + 1 + Cardinality(Vacant(c.state)) < Modulus
  BY CellAccessed DEF IndexOf
<1> HIDE DEF x, i
<1>2. Built(d) /\ NumVariables(d) = NumVariables(c) + 1
  BY <1>1, VariableAdded
<1>3. d.kind = c.kind /\ d.state = c.state /\ d.records = c.records /\ d.variables[v] = c.variables[v]
  BY <1>1, VariableKept
<1>4. /\ d \in Circuits /\ NumVariables(d) \in Nat /\ d.state \in [Cells -> Nat \X Nat] /\ d.access_count \in Nat
      /\ \A j \in Cells : d.state[j][1] \in 0 .. NumVariables(d)
      /\ NumVariables(c) \in Nat
  BY <1>2, BuiltIs
<1>5. ReadROM(c, v) = e
  <2>1. ReadROM(c, v) = AddRecord(d, w, i, 0, "READ")
    BY DEF ReadROM, i, x
  <2> HIDE DEF d
  <2>2. AddRecord(d, w, i, 0, "READ") = e
    BY <1>4, AddRecordPlain
  <2> QED BY <2>1, <2>2
<1> HIDE DEF d
<1>6. MayRecord(d, w, i, 0, "READ", d.access_count)
  <2>1. w \in Seq(Nat) /\ \A j \in 1 .. 3 : w[j] \in 1 .. NumVariables(d)
    BY <1>1, <1>2, <1>4 DEF zero_idx
  <2>2. IsIndex(d, w[1])
    BY DEF IsIndex
  <2> QED BY <1>1, <1>3, <1>4, <2>1, <2>2 DEF MayRecord
<1>7. MayHold(d, w, "READ", d.state)
  BY <1>3, <1>4 DEF MayHold, Uninitialized
<1>a. MayFollow(d, w, i, "READ", d.state)
  BY <1>1, <1>3 DEF MayFollow
<1>8. Built(e) /\ e.kind = d.kind /\ e.state = d.state /\ NumVariables(e) = NumVariables(d) + 1
  BY <1>2, <1>6, <1>7, <1>a, RecordAdded
<1> HIDE DEF e
<1> QED BY <1>2, <1>3, <1>4, <1>5, <1>8 DEF Leaves

LEMMA ReadROMPairBuilds ==
    ASSUME NEW c, Built(c), c.kind = "ROM", NEW v \in IndexVariables, CanAccess(c, v)
    PROVE  Leaves(c, ReadROMPair(c, v)) /\ ReadROMPair(c, v).state = c.state
<1> DEFINE i == IndexOf(c, v)
           x == c.variables[c.state[i][1]]
           y == c.variables[c.state[i][2]]
           b == AddVariable(c, x)
           d == AddVariable(b, y)
           w == <<v, NumVariables(c) + 1, NumVariables(c) + 2>>
           e == Extended(d, w, i, 0, "READ", d.state, d.access_count)
<1>1. /\ c.kind # "NONE" /\ i \in Cells /\ v \in 1 .. NumVariables(c) /\ v \in Nat /\ i \in Int
      /\ x \in Int /\ y \in Int
      /\ c.variables[v] \in Nat /\ i = c.variables[v] % IndexModulus
      /\ Len(c.records) + 1 + Cardinality(Vacant(c.state)) < Modulus
  BY CellAccessed DEF IndexOf
<1>2. ReadROMPair(c, v) = AddRecord(d, w, i, 0, "READ")
  BY DEF ReadROMPair
<1> HIDE DEF x, y, i
<1>3. Built(b) /\ NumVariables(b) = NumVariables(c) + 1
  BY <1>1, VariableAdded
<1>4. b.kind = c.kind /\ b.state = c.state /\ b.records = c.records /\ b.variables[v] = c.variables[v]
  BY <1>1, VariableKept
<1> HIDE DEF b
<1>5. Built(d) /\ NumVariables(d) = NumVariables(b) + 1
  BY <1>1, <1>3, <1>4, VariableAdded
<1>6. d.kind = b.kind /\ d.state = b.state /\ d.records = b.records /\ d.variables[v] = b.variables[v]
  <2>1. v \in 1 .. NumVariables(b)
    BY <1>1, <1>3, BuiltIs
  <2> QED BY <1>1, <1>3, <2>1, VariableKept
<1> HIDE DEF d
<1>7. /\ d \in Circuits /\ NumVariables(d) \in Nat /\ d.state \in [Cells -> Nat \X Nat] /\ d.access_count \in Nat
      /\ \A j \in Cells : d.state[j][1] \in 0 .. NumVariables(d)
      /\ NumVariables(c) \in Nat
  BY <1>5, BuiltIs
<1>8. AddRecord(d, w, i, 0, "READ") = e
  BY <1>7, AddRecordPlain
<1>9. NumVariables(d) = NumVariables(c) + 2
  BY <1>3, <1>5, <1>7
<1>10. MayRecord(d, w, i, 0, "READ", d.access_count)
  <2>0. /\ NumVariables(c) + 1 \in 1 .. NumVariables(d) /\ NumVariables(c) + 2 \in 1 .. NumVariables(d)
        /\ NumVariables(c) + 1 \in Nat /\ NumVariables(c) + 2 \in Nat /\ v \in 1 .. NumVariables(d)
    <3>1. PICK m \in Nat : m = NumVariables(c) /\ NumVariables(d) = m + 2
      BY <1>7, <1>9
    <3>2. v \in 1 .. m
      BY <1>1, <3>1
    <3> QED BY <3>1, <3>2
  <2>1. w \in Seq(Nat) /\ \A j \in 1 .. 3 : w[j] \in 1 .. NumVariables(d)
    BY <1>1, <2>0
  <2>2. IsIndex(d, w[1])
    BY DEF IsIndex
  <2> QED BY <1>1, <1>4, <1>6, <1>7, <2>1, <2>2 DEF MayRecord
<1>11. MayHold(d, w, "READ", d.state)
  BY <1>7 DEF MayHold, Uninitialized
<1>a. MayFollow(d, w, i, "READ", d.state)
  BY <1>1, <1>4, <1>6 DEF MayFollow
<1>12. Built(e) /\ e.kind = d.kind /\ e.state = d.state /\ NumVariables(e) = NumVariables(d) + 1
  BY <1>5, <1>10, <1>11, <1>a, RecordAdded
<1> HIDE DEF e
<1> QED BY <1>2, <1>4, <1>6, <1>7, <1>8, <1>9, <1>12 DEF Leaves

LEMMA ReadRAMBuilds ==
    ASSUME NEW c, Built(c), c.kind = "RAM", NEW v \in IndexVariables, CanAccess(c, v)
    PROVE  Leaves(c, ReadRAM(c, v)) /\ ReadRAM(c, v).state = c.state
<1> DEFINE i == IndexOf(c, v)
           t == c.access_count
           x == c.variables[c.state[i][1]]
           b == AddVariable(c, x)
           d == PutConstantVariable(b, t)
           w == <<v, d.constants[t], NumVariables(c) + 1>>
           e == Extended(d, w, i, t, "READ", d.state, t + 1)
<1>1. /\ c.kind # "NONE" /\ i \in Cells /\ v \in 1 .. NumVariables(c) /\ v \in Nat /\ i \in Int /\ x \in Int
      /\ ~ Uninitialized(c, i) /\ (v = zero_idx => i = 0)
      /\ c.variables[v] \in Nat /\ i = c.variables[v] % IndexModulus
      /\ c.state[i][1] \in 1 .. NumVariables(c) /\ x = c.variables[c.state[i][1]]
      /\ Len(c.records) + 1 + Cardinality(Vacant(c.state)) < Modulus
  BY CellAccessed DEF IndexOf
<1>2. ReadRAM(c, v) = [AddRecord(d, w, i, t, "READ") EXCEPT !.access_count = @ + 1]
  BY DEF ReadRAM
<1> HIDE DEF x, i
<1>3. Built(b) /\ NumVariables(b) = NumVariables(c) + 1 /\ b.variables[NumVariables(c) + 1] = x
  <2>1. Built(b) /\ NumVariables(b) = NumVariables(c) + 1 /\ b.variables[NumVariables(b)] = x
    <3>1. c.kind # "NONE" /\ x \in Int /\ b = AddVariable(c, x)
      BY <1>1
    <3> HIDE DEF b
    <3> QED BY <3>1, VariableAdded
  <2> QED BY <2>1
<1>4. b.kind = c.kind /\ b.state = c.state /\ b.access_count = t /\ t \in Nat /\ NumVariables(c) \in Nat
  BY <1>1, BuiltIs, SMTT(60) DEF AddVariable, Circuits
<1>a. b.records = c.records /\ \A u \in 1 .. NumVariables(c) : b.variables[u] = c.variables[u]
  <2>1. x \in Int /\ b = AddVariable(c, x)
    BY <1>1
  <2> HIDE DEF b
  <2> QED BY <2>1, VariableKept
<1> HIDE DEF b
<1>5. /\ Built(d) /\ t \in DOMAIN d.constants
      /\ d.kind = b.kind /\ d.state = b.state /\ d.access_count = t /\ NumVariables(d) >= NumVariables(b)
      /\ d.records = b.records /\ \A u \in 1 .. NumVariables(b) : d.variables[u] = b.variables[u]
  <2>1. PICK q \in Int : q = t
    BY <1>4
  <2>2. Built(b) /\ b.kind # "NONE" /\ d = PutConstantVariable(b, q)
    BY <1>1, <1>3, <1>4, <2>1
  <2> HIDE DEF d
  <2> QED BY <1>4, <2>1, <2>2, ConstantPut
<1> HIDE DEF d
<1>6. /\ d \in Circuits /\ NumVariables(d) \in Nat /\ d.state \in [Cells -> Nat \X Nat]
      /\ \A j \in Cells : d.state[j][1] \in 0 .. NumVariables(d)
      /\ NumVariables(b) \in Nat
  BY <1>3, <1>5, BuiltIs
<1>7. [AddRecord(d, w, i, t, "READ") EXCEPT !.access_count = @ + 1] = e
  <2>1. AddRecord(d, w, i, t, "READ") = Extended(d, w, i, t, "READ", d.state, d.access_count)
    BY <1>6, AddRecordPlain
  <2>2. [Extended(d, w, i, t, "READ", d.state, d.access_count) EXCEPT !.access_count = @ + 1] = e
    BY <1>5, <1>6 DEF Extended, Circuits
  <2> QED BY <2>1, <2>2
<1>8. MayRecord(d, w, i, t, "READ", t + 1)
  <2>1. d.constants[t] \in 1 .. NumVariables(d)
    BY <1>5 DEF Built, ConstantsFixed
  <2>2. w \in Seq(Nat) /\ \A j \in 1 .. 3 : w[j] \in 1 .. NumVariables(d)
    <3> HIDE DEF w
    <3>1. v \in 1 .. NumVariables(d) /\ NumVariables(c) + 1 \in 1 .. NumVariables(d)
      <4>1. PICK p \in Nat, r \in Nat : p = NumVariables(c) /\ r = NumVariables(d) /\ r >= p + 1
        BY <1>3, <1>4, <1>5, <1>6
      <4>2. v \in 1 .. p
        BY <1>1, <4>1
      <4> QED BY <4>1, <4>2
    <3>2. PICK q \in Nat : q = NumVariables(c) + 1 /\ q \in 1 .. NumVariables(d)
      BY <1>4, <3>1
    <3>3. PICK u \in Nat : u = d.constants[t] /\ u \in 1 .. NumVariables(d)
      BY <1>6, <2>1
    <3>4. v \in Nat /\ w = <<v, u, q>>
      BY <1>1, <3>2, <3>3 DEF w
    <3>5. w \in Seq(Nat) /\ w[1] = v /\ w[2] = u /\ w[3] = q
      BY <3>4
    <3> QED BY <3>1, <3>2, <3>3, <3>5
  <2>3. IsIndex(d, w[1])
    BY DEF IsIndex
  <2>4. t = Len(d.records)
    BY <1>4, <1>5 DEF Built, Counted
  <2>5. v = zero_idx => ~ Uninitialized(d, 0)
    BY <1>1, <1>4, <1>5 DEF Uninitialized
  <2> QED BY <1>1, <1>4, <1>5, <2>2, <2>3, <2>4, <2>5, SMTT(60) DEF MayRecord
<1>9. MayHold(d, w, "READ", d.state)
  BY <1>6 DEF MayHold, Uninitialized
<1>b. MayFollow(d, w, i, "READ", d.state)
  <2>1. \A u \in 1 .. NumVariables(c) : d.variables[u] = c.variables[u]
    <3>1. \A u \in 1 .. NumVariables(c) : u \in 1 .. NumVariables(b)
      BY <1>3, <1>4
    <3> QED BY <1>5, <1>a, <3>1
  <2>2. d.variables[NumVariables(c) + 1] = x
    <3>1. NumVariables(c) + 1 \in 1 .. NumVariables(b)
      BY <1>3, <1>4
    <3> QED BY <1>3, <1>5, <3>1
  <2>3. w[1] = v /\ w[3] = NumVariables(c) + 1
    OBVIOUS
  <2>4. d.variables[w[1]] = c.variables[v] /\ d.variables[w[3]] = x
    BY <1>1, <2>1, <2>2, <2>3
  <2>5. d.state = c.state /\ d.records = c.records /\ ~ Uninitialized(d, i)
    BY <1>1, <1>4, <1>5, <1>a DEF Uninitialized
  <2>6. d.variables[d.state[i][1]] = x
    BY <1>1, <2>1, <2>5
  <2> HIDE DEF w
  <2> QED BY <1>1, <2>4, <2>5, <2>6 DEF MayFollow
<1>10. Built(e) /\ e.kind = d.kind /\ e.state = d.state /\ NumVariables(e) = NumVariables(d) + 1
  BY <1>5, <1>8, <1>9, <1>b, RecordAdded
<1> HIDE DEF e
<1>11. NumVariables(e) >= NumVariables(c)
  BY <1>3, <1>4, <1>5, <1>6, <1>10
<1> QED BY <1>2, <1>4, <1>5, <1>7, <1>10, <1>11 DEF Leaves

LEMMA WriteRAMBuilds ==
    ASSUME NEW c, Built(c), c.kind = "RAM", NEW v \in IndexVariables, CanAccess(c, v),
           NEW value \in 1 .. NumVariables(c)
    PROVE  Leaves(c, WriteRAM(c, v, value)) /\ WriteRAM(c, v, value).state = Stored(c.state, IndexOf(c, v), value)
<1> DEFINE i == IndexOf(c, v)
           t == c.access_count
           d == PutConstantVariable(c, t)
           w == <<v, d.constants[t], value>>
           state == Stored(d.state, i, value)
           e == Extended(d, w, i, t, "WRITE", state, t + 1)
<1>1. /\ c.kind # "NONE" /\ i \in Cells /\ v \in 1 .. NumVariables(c) /\ v \in Nat /\ i \in Int
      /\ ~ Uninitialized(c, i)
      /\ c.variables[v] \in Nat /\ i = c.variables[v] % IndexModulus
      /\ Len(c.records) + 1 + Cardinality(Vacant(c.state)) < Modulus
  BY CellAccessed DEF IndexOf
<1>2. WriteRAM(c, v, value) =
        [AddRecord(d, w, i, t, "WRITE") EXCEPT !.access_count = @ + 1, !.state[i][1] = value]
  BY DEF WriteRAM
<1> HIDE DEF i
<1>3. t \in Nat /\ t \in Int /\ NumVariables(c) \in Nat
  BY BuiltIs
<1>4. /\ Built(d) /\ t \in DOMAIN d.constants
      /\ d.kind = c.kind /\ d.state = c.state /\ d.access_count = t /\ NumVariables(d) >= NumVariables(c)
      /\ d.records = c.records /\ \A u \in 1 .. NumVariables(c) : d.variables[u] = c.variables[u]
  BY <1>1, <1>3, ConstantPut
<1> HIDE DEF d
<1>5. /\ d \in Circuits /\ NumVariables(d) \in Nat /\ d.state \in [Cells -> Nat \X Nat]
      /\ \A j \in Cells : d.state[j][1] \in 0 .. NumVariables(d)
  BY <1>4, BuiltIs
<1>6. value \in 1 .. NumVariables(d) /\ value \in Nat
  BY <1>3, <1>4, <1>5
<1>7. /\ state \in [Cells -> Nat \X Nat] /\ state[i] = <<value, d.state[i][2]>>
      /\ \A j \in Cells : j # i => state[j] = d.state[j]
      /\ [d.state EXCEPT ![i][1] = value] = state
  <2>1. [d.state EXCEPT ![i][1] = value] = state
    BY <1>1, <1>5, <1>6, StoredIs
  <2>2. /\ state \in [Cells -> Nat \X Nat] /\ state[i] = <<value, d.state[i][2]>>
        /\ \A j \in Cells : j # i => state[j] = d.state[j]
    BY <1>1, <1>5, <1>6, StoredIs, SMTT(60)
  <2> QED BY <2>1, <2>2
<1> HIDE DEF state
<1>8. [AddRecord(d, w, i, t, "WRITE") EXCEPT !.access_count = @ + 1, !.state[i][1] = value] = e
  <2> DEFINE h == Extended(d, w, i, t, "WRITE", d.state, d.access_count)
  <2>1. AddRecord(d, w, i, t, "WRITE") = h
    BY <1>5, AddRecordPlain
  <2>2. h.access_count = t /\ h.state = d.state
    BY <1>4, <1>5 DEF Extended, Circuits
  <2>3. [h EXCEPT !.access_count = t + 1, !.state = state] = e
    BY <1>5, ZenonT(60) DEF Extended, Circuits
  <2> HIDE DEF h
  <2>4. [h EXCEPT !.access_count = @ + 1, !.state[i][1] = value] =
        [h EXCEPT !.access_count = t + 1, !.state = [d.state EXCEPT ![i][1] = value]]
    BY <2>2
  <2> QED BY <1>7, <2>1, <2>3, <2>4
<1>9. MayRecord(d, w, i, t, "WRITE", t + 1)
  <2>1. d.constants[t] \in 1 .. NumVariables(d)
    BY <1>4 DEF Built, ConstantsFixed
  <2>2. w \in Seq(Nat) /\ \A j \in 1 .. 3 : w[j] \in 1 .. NumVariables(d)
    BY <1>1, <1>3, <1>4, <1>5, <1>6, <2>1
  <2>3. IsIndex(d, w[1])
    BY DEF IsIndex
  <2>4. t = Len(d.records)
    BY <1>4 DEF Built, Counted
  <2> QED BY <1>1, <1>3, <1>4, <2>2, <2>3, <2>4 DEF MayRecord
<1>10. MayHold(d, w, "WRITE", state)
  <2>1. ASSUME NEW j \in Cells, j # i
        PROVE  /\ state[j][1] \in 0 .. NumVariables(d)
               /\ state[j][1] # UNINITIALIZED_MEMORY_RECORD => ~ Uninitialized(d, j)
    BY <1>5, <1>7, <2>1 DEF Uninitialized
  <2>2. state[i][1] \in 0 .. NumVariables(d) /\ ~ Uninitialized(d, i)
    <3>1. state[i][1] \in 0 .. NumVariables(d)
      BY <1>1, <1>4, <1>6, <1>7
    <3>2. ~ Uninitialized(d, i)
      BY <1>1, <1>4, <1>5, <1>6, <1>7 DEF Uninitialized
    <3> QED BY <3>1, <3>2
  <2> QED BY <1>4, <1>7, <2>1, <2>2 DEF MayHold
<1>a. MayFollow(d, w, i, "WRITE", state)
  <2>1. w[1] = v /\ w[3] = value
    OBVIOUS
  <2>2. Vacant(state) = Vacant(c.state)
    <3>1. state[i][1] # UNINITIALIZED_MEMORY_RECORD /\ \A j \in Cells : j # i => state[j] = c.state[j]
      BY <1>3, <1>4, <1>7 DEF UNINITIALIZED_MEMORY_RECORD
    <3>2. Vacant(state) = Vacant(c.state) \ {i}
      BY <1>1, <3>1, VacantAfter
    <3>3. i \notin Vacant(c.state)
      BY <1>1 DEF Vacant, Uninitialized
    <3> QED BY <3>2, <3>3
  <2>3. state = Stored(d.state, i, w[3])
    BY <2>1 DEF state
  <2>4. d.variables[w[1]] = c.variables[v]
    BY <1>1, <1>4, <2>1
  <2> HIDE DEF w
  <2> QED BY <1>1, <1>4, <2>2, <2>3, <2>4 DEF MayFollow
<1>11. Built(e) /\ e.kind = d.kind /\ e.state = state /\ NumVariables(e) = NumVariables(d) + 1
  BY <1>4, <1>9, <1>10, <1>a, RecordAdded
<1> HIDE DEF e
<1>12. NumVariables(e) >= NumVariables(c)
  BY <1>3, <1>4, <1>5, <1>11
<1> QED BY <1>2, <1>4, <1>8, <1>11, <1>12 DEF Leaves, state, i

\* The circuits of the loop over the cells.
LEMMA InitializedLoop ==
    ASSUME NEW c
    PROVE  \E g : /\ Initialized(c) = g[ArraySize]
                  /\ g[0] = c
                  /\ \A k \in 0 .. ArraySize - 1 : g[k + 1] = ZeroIfMissing(g[k], k)
<1> DEFINE Loop(g, n) == g = [k \in 0 .. n |-> IF k = 0 THEN c ELSE ZeroIfMissing(g[k - 1], k - 1)]
           S == {n \in Nat : \E g : Loop(g, n)}
<1>1. 0 \in S
  <2>1. PICK g : g = [k \in 0 .. 0 |-> c]
    OBVIOUS
  <2>2. Loop(g, 0)
    BY <2>1
  <2> QED BY <2>2
<1>2. ASSUME NEW n \in Nat, n \in S PROVE n + 1 \in S
  <2>1. PICK g : Loop(g, n)
    BY <1>2
  <2>2. PICK v : v = ZeroIfMissing(g[n], n)
    OBVIOUS
  <2>3. PICK h : h = [k \in 0 .. n + 1 |-> IF k = n + 1 THEN v ELSE g[k]]
    OBVIOUS
  <2>4. ASSUME NEW k \in 0 .. n + 1
        PROVE  h[k] = IF k = 0 THEN c ELSE ZeroIfMissing(h[k - 1], k - 1)
    <3>1. CASE k = n + 1
      <4>1. k - 1 = n /\ k # 0 /\ h[k] = v /\ h[n] = g[n]
        BY <2>3, <3>1
      <4> QED BY <2>2, <4>1
    <3>2. CASE k # n + 1
      <4>1. k \in 0 .. n /\ h[k] = g[k]
        BY <2>3, <3>2
      <4>2. k # 0 => k - 1 \in 0 .. n + 1 /\ k - 1 # n + 1 /\ h[k - 1] = g[k - 1]
        BY <2>3, <4>1
      <4> QED BY <2>1, <4>1, <4>2
    <3> QED BY <3>1, <3>2
  <2>5. h = [k \in 0 .. n + 1 |-> h[k]]
    BY <2>3
  <2>6. Loop(h, n + 1)
    BY <2>4, <2>5
  <2> QED BY <2>6
<1> HIDE DEF S
<1>3. Nat \subseteq S
  BY <1>1, <1>2, InductionOverSet
<1>4. \E g : Loop(g, ArraySize)
  BY <1>3, SizeOfArray DEF S
<1>5. PICK g : Loop(g, ArraySize) /\ Initialized(c) = g[ArraySize]
  <2> DEFINE after == CHOOSE g : Loop(g, ArraySize)
  <2>1. Loop(after, ArraySize)
    BY <1>4
  <2>2. Initialized(c) = after[ArraySize]
    BY DEF Initialized
  <2> QED BY <2>1, <2>2
<1>6. ASSUME NEW k \in 0 .. ArraySize - 1 PROVE g[k + 1] = ZeroIfMissing(g[k], k)
  <2>1. k + 1 \in 0 .. ArraySize /\ k + 1 # 0 /\ (k + 1) - 1 = k
    BY SizeOfArray
  <2> QED BY <1>5, <2>1
<1>7. g[0] = c
  BY <1>5, SizeOfArray
<1> QED BY <1>5, <1>6, <1>7

LEMMA ZeroBuilds ==
    ASSUME NEW c, Built(c), c.kind # "NONE", NEW i \in Cells, NEW d, d = ZeroIfMissing(c, i)
    PROVE  /\ Leaves(c, d) /\ ~ Uninitialized(d, i)
           /\ \A j \in Cells : ~ Uninitialized(c, j) => ~ Uninitialized(d, j)
<1>1. zero_idx \in 1 .. NumVariables(c) /\ NumVariables(c) \in Nat /\ zero_idx # UNINITIALIZED_MEMORY_RECORD
      /\ c.kind \in {"ROM", "RAM"} /\ c.state \in [Cells -> Nat \X Nat] /\ zero_idx \in Nat
  BY BuiltIs DEF Circuits, zero_idx, UNINITIALIZED_MEMORY_RECORD
<1>2. CASE ~ Uninitialized(c, i)
  BY <1>1, <1>2 DEF ZeroIfMissing, Leaves
<1>3. CASE Uninitialized(c, i) /\ c.kind = "ROM"
  <2>1. d = SetROM(c, i, <<zero_idx, zero_idx>>)
    BY <1>3 DEF ZeroIfMissing
  <2>2. /\ Leaves(c, d)
        /\ \A j \in Cells : d.state[j] = IF j = i THEN <<zero_idx, zero_idx>> ELSE c.state[j]
    BY <1>1, <1>3, <2>1, SetROMBuilds, RoomForMissing
  <2> QED BY <1>1, <2>2 DEF Uninitialized
<1>4. CASE Uninitialized(c, i) /\ c.kind = "RAM"
  <2>1. d = InitRAM(c, i, zero_idx)
    BY <1>4 DEF ZeroIfMissing
  <2>2. Leaves(c, d) /\ d.state = Stored(c.state, i, zero_idx)
    BY <1>1, <1>4, <2>1, InitRAMBuilds, RoomForMissing
  <2>3. d.state[i][1] = zero_idx /\ \A j \in Cells : j # i => d.state[j] = c.state[j]
    BY <1>1, <2>2, StoredIs
  <2> QED BY <1>1, <2>2, <2>3 DEF Uninitialized
<1> QED BY <1>1, <1>2, <1>3, <1>4

LEMMA InitializedBuilds ==
    ASSUME NEW c, Built(c), c.kind # "NONE"
    PROVE  Leaves(c, Initialized(c)) /\ AllSet(Initialized(c))
<1>1. PICK g : /\ Initialized(c) = g[ArraySize]
               /\ g[0] = c
               /\ \A k \in 0 .. ArraySize - 1 : g[k + 1] = ZeroIfMissing(g[k], k)
  BY InitializedLoop
<1> DEFINE Reached(k) == Leaves(c, g[k]) /\ \A i \in Cells : i < k => ~ Uninitialized(g[k], i)
           S == {k \in Nat : k <= ArraySize => Reached(k)}
<1>2. 0 \in S
  <2>1. Leaves(c, c)
    BY BuiltIs DEF Leaves
  <2>2. \A i \in Cells : ~ (i < 0)
    BY DEF Cells
  <2> QED BY <1>1, <2>1, <2>2
<1>3. ASSUME NEW k \in Nat, k \in S PROVE k + 1 \in S
  <2> SUFFICES ASSUME k + 1 <= ArraySize PROVE Reached(k + 1)
    OBVIOUS
  <2>1. k \in Cells /\ k \in 0 .. ArraySize - 1 /\ Reached(k)
    BY <1>3, SizeOfArray DEF Cells
  <2>2. PICK a : a = g[k]
    OBVIOUS
  <2>3. PICK b : b = g[k + 1]
    OBVIOUS
  <2>4. b = ZeroIfMissing(a, k)
    BY <1>1, <2>1, <2>2, <2>3
  <2>5. Leaves(c, a) /\ \A i \in Cells : i < k => ~ Uninitialized(a, i)
    BY <2>1, <2>2
  <2>6. Built(a) /\ a.kind = c.kind /\ NumVariables(a) >= NumVariables(c)
    BY <2>5 DEF Leaves
  <2>7. /\ Leaves(a, b) /\ ~ Uninitialized(b, k)
        /\ \A j \in Cells : ~ Uninitialized(a, j) => ~ Uninitialized(b, j)
    BY <2>1, <2>4, <2>6, ZeroBuilds
  <2>8. NumVariables(a) \in Nat /\ NumVariables(b) \in Nat /\ NumVariables(c) \in Nat
    BY <2>6, <2>7, BuiltIs DEF Leaves
  <2>9. Leaves(c, b)
    BY <2>6, <2>7, <2>8 DEF Leaves
  <2>10. ASSUME NEW i \in Cells, i < k + 1 PROVE ~ Uninitialized(b, i)
    <3>1. i < k \/ i = k
      BY <2>10, SizeOfArray
    <3> QED BY <2>5, <2>7, <3>1
  <2> QED BY <2>3, <2>9, <2>10
<1> HIDE DEF S
<1>4. Nat \subseteq S
  BY <1>2, <1>3, InductionOverSet
<1>5. Reached(ArraySize)
  BY <1>4, SizeOfArray DEF S
<1>6. \A i \in Cells : i < ArraySize
  BY SizeOfArray DEF Cells
<1>7. (g[ArraySize]).kind # "NONE"
  BY <1>5 DEF Leaves
<1> QED BY <1>1, <1>5, <1>6, <1>7 DEF AllSet

-----------------------------------------------------------------------------
(***************************************************************************)
(* The invariant: a circuit is built until it is finalised, and then it is *)
(* a built one with all cells set and a second list of its records.        *)
(***************************************************************************)
LEMMA EmptyIsBuilt == Built(EmptyCircuit)
<1> DEFINE e == EmptyCircuit
           g == [type |-> "FIX", w |-> <<1, 1, 1, 1>>, c |-> 0]
           Rec == [w : Seq(Nat), index : Int, timestamp : Int, access : {"READ", "WRITE"},
                   record_witness : Nat, gate : Nat]
<1>1. /\ e.variables = <<0>> /\ e.constants = [x \in {0} |-> 1] /\ e.gates = <<g>> /\ e.kind = "NONE"
      /\ e.state = [i \in Cells |-> <<UNINITIALIZED_MEMORY_RECORD, UNINITIALIZED_MEMORY_RECORD>>]
      /\ e.records = << >> /\ e.access_count = 0
  BY DEF EmptyCircuit
<1>2. g \in [type : GateTypes, w : Seq(Nat), c : Int]
  BY FourNumbers DEF GateTypes
<1>3. [x \in {0} |-> 1] \in ConstantMaps
  <2>1. [x \in {0} |-> 1] \in [{0} -> Nat] /\ {0} \in SUBSET Int
    OBVIOUS
  <2> QED BY <2>1 DEF ConstantMaps
<1>4. g.type = "FIX" /\ g.w[1] = 1 /\ g.w[4] = 1 /\ g.c = 0
  OBVIOUS
<1> HIDE DEF g
<1>5. <<g>> \in Seq([type : GateTypes, w : Seq(Nat), c : Int]) /\ <<0>> \in Seq(Int) /\ << >> \in Seq(Rec)
  BY <1>2
<1>6. [i \in Cells |-> <<UNINITIALIZED_MEMORY_RECORD, UNINITIALIZED_MEMORY_RECORD>>] \in [Cells -> Nat \X Nat]
  BY DEF UNINITIALIZED_MEMORY_RECORD
<1>7. e \in Circuits
  BY <1>3, <1>5, <1>6 DEF EmptyCircuit, Circuits, g
<1>8. NumVariables(e) = 1 /\ e.variables[1] = 0 /\ Len(e.gates) = 1 /\ e.gates[1] = g /\ DOMAIN e.gates = {1}
      /\ DOMAIN e.records = {} /\ DOMAIN e.constants = {0} /\ e.constants[0] = 1
      /\ \A i \in Cells : e.state[i][1] = 0
  BY <1>1 DEF NumVariables, UNINITIALIZED_MEMORY_RECORD
<1> HIDE DEF e
<1>9. ConstantsFixed(e) /\ OthersFix(e)
  BY <1>4, <1>8 DEF ConstantsFixed, OthersFix, zero_idx
<1>10. RecordsFit(e) /\ CellsHeld(e) /\ ZeroWritten(e)
  BY <1>8 DEF RecordsFit, CellsHeld, ZeroWritten, Uninitialized, UNINITIALIZED_MEMORY_RECORD
<1>11. Counted(e)
  BY <1>1, <1>8, SizeOfArray DEF Counted, Uninitialized, UNINITIALIZED_MEMORY_RECORD
<1>12. Faithful(e)
  <2>1. FixesHold(e) /\ IndicesRead(e) /\ ReadsHonest(e)
    BY <1>4, <1>8 DEF FixesHold, IndicesRead, ReadsHonest
  <2>2. WitnessesInField(e)
    BY <1>8, SizeOfArray DEF WitnessesInField, Field
  <2>3. StateHonest(e)
    BY <1>1, <1>8 DEF StateHonest
  <2>4. Roomy(e)
    <3>1. Vacant(e.state) = 0 .. ArraySize - 1
      BY <1>8 DEF Vacant, UNINITIALIZED_MEMORY_RECORD, Cells
    <3>2. 0 \in Int /\ ArraySize - 1 \in Int
      BY SizeOfArray
    <3>3. Cardinality(0 .. ArraySize - 1) = IF 0 > ArraySize - 1 THEN 0 ELSE (ArraySize - 1) - 0 + 1
      BY <3>2, FS_Interval
    <3>4. Cardinality(Vacant(e.state)) = ArraySize
      BY <3>1, <3>3, SizeOfArray
    <3>5. Len(e.records) = 0
      BY <1>1
    <3> QED BY <3>4, <3>5, SizeOfArray DEF Roomy
  <2> QED BY <2>1, <2>2, <2>3, <2>4 DEF Faithful
<1> QED BY <1>7, <1>8, <1>9, <1>10, <1>11, <1>12 DEF Built, e

LEMMA ArrayMade ==
    ASSUME NEW c, Built(c), c.kind = "NONE", NumVariables(c) = NumProgram,
           NEW kind \in {"ROM", "RAM"}, NEW d, d = [c EXCEPT !.kind = kind]
    PROVE  Built(d)
<1>1. /\ c \in Circuits /\ NumVariables(c) >= 1 /\ ConstantsFixed(c) /\ RecordsFit(c) /\ OthersFix(c)
      /\ CellsHeld(c) /\ ZeroWritten(c) /\ Counted(c)
  BY DEF Built
<1>2. d \in Circuits
  BY <1>1 DEF Circuits
<1>3. /\ d.variables = c.variables /\ d.constants = c.constants /\ d.gates = c.gates /\ d.kind = kind
      /\ d.state = c.state /\ d.records = c.records /\ d.access_count = c.access_count
  BY <1>1 DEF Circuits
<1>4. c.records = << >> /\ c.access_count = 0 /\ \A i \in Cells : Uninitialized(c, i)
  BY <1>1 DEF Counted
<1>5. DOMAIN d.records = {} /\ Len(d.records) = 0
  BY <1>3, <1>4
<1>6. NumVariables(d) = NumVariables(c) /\ \A i \in Cells : Uninitialized(d, i)
  BY <1>3, <1>4 DEF NumVariables, Uninitialized
<1>7. ConstantsFixed(d)
  BY <1>1, <1>3, <1>6 DEF ConstantsFixed
<1>8. OthersFix(d)
  BY <1>1, <1>3 DEF OthersFix
<1>9. CellsHeld(d)
  BY <1>1, <1>3, <1>6 DEF CellsHeld
<1>10. RecordsFit(d) /\ ZeroWritten(d)
  BY <1>5 DEF RecordsFit, ZeroWritten
<1>11. Counted(d)
  BY <1>3, <1>4, <1>5, <1>6, SizeOfArray DEF Counted
<1>12. Faithful(d)
  <2>1. Faithful(c)
    BY DEF Built
  <2>2. FixesHold(d) /\ WitnessesInField(d)
    BY <1>3, <1>6, <2>1 DEF Faithful, FixesHold, WitnessesInField
  <2>3. IndicesRead(d) /\ ReadsHonest(d) /\ StateHonest(d)
    BY <1>5, <1>6 DEF IndicesRead, ReadsHonest, StateHonest
  <2>4. Roomy(d)
    BY <1>3, <2>1 DEF Faithful, Roomy
  <2> QED BY <2>2, <2>3, <2>4 DEF Faithful
<1> QED BY <1>1, <1>2, <1>6, <1>7, <1>8, <1>9, <1>10, <1>11, <1>12 DEF Built

LEMMA ValuesAreVariables ==
    ASSUME NEW c, Built(c), c.kind # "NONE", NEW v \in ValueVariables
    PROVE  v \in 1 .. NumVariables(c)
<1>1. NumVariables(c) \in Nat /\ NumVariables(c) >= NumProgram
  BY BuiltIs DEF Built, Counted
<1> QED BY <1>1, SizeOfArray DEF ValueVariables, zero_idx, NumProgram

\* A program calls the constructor only before the circuit is finalised.
LEMMA CallsComeBefore ==
    ASSUME AddWitness \/ CreateArray \/ SetElement \/ SetElementPair \/ Read \/ Write
    PROVE  ~ circuit_finalised /\ ~ circuit_finalised'
<1>1. AddWitness \/ CreateArray => ~ circuit_finalised /\ UNCHANGED circuit_finalised
  BY DEF AddWitness, CreateArray, Build
<1>2. SetElement => ~ circuit_finalised /\ UNCHANGED circuit_finalised
  BY DEF SetElement, Build
<1>3. SetElementPair => ~ circuit_finalised /\ UNCHANGED circuit_finalised
  BY DEF SetElementPair, Build
<1>4. Read => ~ circuit_finalised /\ UNCHANGED circuit_finalised
  BY DEF Read, Build
<1>5. Write => ~ circuit_finalised /\ UNCHANGED circuit_finalised
  BY DEF Write, Build
<1> QED BY <1>1, <1>2, <1>3, <1>4, <1>5

LEMMA StepBuilds ==
    ASSUME ArraysInv, AddWitness \/ CreateArray \/ SetElement \/ SetElementPair \/ Read \/ Write
    PROVE  ArraysInv'
<1> SUFFICES Built(circuit') /\ ~ circuit_finalised'
  BY DEF ArraysInv
<1>1. Built(circuit) /\ ~ circuit_finalised'
  BY CallsComeBefore DEF ArraysInv
<1> DEFINE c == circuit
<1>2. NumVariables(c) \in Nat
  BY <1>1, BuiltIs
<1>3. CASE AddWitness
  <2>1. PICK x \in IndexInputs \cup ValueInputs :
            /\ c.kind = "NONE" /\ NumVariables(c) <= MaxIndices + MaxValues /\ circuit' = AddVariable(c, x)
    BY <1>3 DEF AddWitness, Build
  <2>2. x \in Int /\ NumVariables(c) < NumProgram /\ x \in Field
    BY <1>2, <2>1, SizeOfArray, MemoryAssumption DEF Field, NumProgram
  <2> QED BY <1>1, <2>1, <2>2, VariableAdded
<1>4. CASE CreateArray
  <2>1. PICK kind \in {"ROM", "RAM"} :
            /\ c.kind = "NONE" /\ NumVariables(c) = MaxIndices + MaxValues + 1
            /\ circuit' = [c EXCEPT !.kind = kind]
    BY <1>4 DEF CreateArray, Build
  <2>2. NumVariables(c) = NumProgram
    BY <2>1, SizeOfArray DEF NumProgram
  <2> QED BY <1>1, <2>1, <2>2, ArrayMade
<1>5. CASE SetElement
  <2>1. PICK i \in Cells, v \in ValueVariables :
            /\ c.kind # "NONE" /\ HasRecordRoom(c, i)
            /\ \/ c.kind = "ROM" /\ circuit' = SetROM(c, i, <<v, zero_idx>>)
               \/ c.kind = "RAM" /\ circuit' = InitRAM(c, i, v)
    BY <1>5 DEF SetElement, Build
  <2>2. v \in 1 .. NumVariables(c) /\ zero_idx \in 1 .. NumVariables(c)
    BY <1>1, <2>1, ValuesAreVariables, BuiltIs
  <2>a. HasRoom(c, i)
    BY <1>1, <2>1, RoomFor
  <2>3. CASE c.kind = "ROM" /\ circuit' = SetROM(c, i, <<v, zero_idx>>)
    BY <1>1, <2>2, <2>3, <2>a, SetROMBuilds DEF Leaves
  <2>4. CASE c.kind = "RAM" /\ circuit' = InitRAM(c, i, v)
    BY <1>1, <2>2, <2>4, <2>a, InitRAMBuilds DEF Leaves
  <2> QED BY <2>1, <2>3, <2>4, <1>1
<1>6. CASE SetElementPair
  <2>1. PICK i \in Cells, v \in ValueVariables, w \in ValueVariables :
            c.kind = "ROM" /\ HasRecordRoom(c, i) /\ circuit' = SetROM(c, i, <<v, w>>)
    BY <1>6 DEF SetElementPair, Build
  <2>2. v \in 1 .. NumVariables(c) /\ w \in 1 .. NumVariables(c)
    BY <1>1, <2>1, ValuesAreVariables
  <2>3. HasRoom(c, i)
    BY <1>1, <2>1, RoomFor
  <2> QED BY <1>1, <2>1, <2>2, <2>3, SetROMBuilds DEF Leaves
<1>7. CASE Read
  <2>1. PICK v \in IndexVariables :
            /\ CanAccess(c, v)
            /\ \/ c.kind = "ROM" /\ circuit' = ReadROM(c, v)
               \/ c.kind = "ROM" /\ circuit' = ReadROMPair(c, v)
               \/ c.kind = "RAM" /\ circuit' = ReadRAM(c, v)
    BY <1>7 DEF Read, Build
  <2> QED BY <1>1, <2>1, ReadROMBuilds, ReadROMPairBuilds, ReadRAMBuilds DEF Leaves
<1>8. CASE Write
  <2>1. PICK v \in IndexVariables, value \in ValueVariables :
            c.kind = "RAM" /\ CanAccess(c, v) /\ circuit' = WriteRAM(c, v, value)
    BY <1>8 DEF Write, Build
  <2>2. value \in 1 .. NumVariables(c)
    BY <1>1, <2>1, ValuesAreVariables
  <2> QED BY <1>1, <2>1, <2>2, WriteRAMBuilds DEF Leaves
<1> QED BY <1>1, <1>3, <1>4, <1>5, <1>6, <1>7, <1>8

\* Finalising orders the records of a built circuit with all cells set.
LEMMA FinalizeProcesses ==
    ASSUME ArraysInv, FinalizeCircuit
    PROVE  /\ Built(circuit) /\ circuit.kind # "NONE" /\ circuit_finalised'
           /\ Built(Initialized(circuit)) /\ AllSet(Initialized(circuit)) /\ Initialized(circuit).kind = circuit.kind
           /\ \E sorted \in Sortings(Initialized(circuit)) : circuit' = Processed(Initialized(circuit), sorted)
<1>1. Built(circuit) /\ circuit.kind # "NONE" /\ circuit_finalised'
  BY DEF FinalizeCircuit, ArraysInv
<1>2. Leaves(circuit, Initialized(circuit)) /\ AllSet(Initialized(circuit))
  BY <1>1, InitializedBuilds
<1>3. \E sorted \in Sortings(Initialized(circuit)) : circuit' = Processed(Initialized(circuit), sorted)
  BY DEF FinalizeCircuit
<1> QED BY <1>1, <1>2, <1>3 DEF Leaves

\* The circuit of every reachable state is as described.
THEOREM ArraysInvariant == MemSpec => []ArraysInv
<1>1. MemInit => ArraysInv
  BY EmptyIsBuilt DEF MemInit, ArraysInv
<1>2. ArraysInv /\ [MemNext]_memVars => ArraysInv'
  <2> SUFFICES ASSUME ArraysInv, [MemNext]_memVars PROVE ArraysInv'
    OBVIOUS
  <2>1. CASE FinalizeCircuit
    <3>1. PICK c : /\ Built(c) /\ AllSet(c) /\ circuit_finalised'
                   /\ \E sorted \in Sortings(c) : circuit' = Processed(c, sorted)
      BY <2>1, FinalizeProcesses
    <3> QED BY <3>1 DEF ArraysInv
  <2>2. CASE UNCHANGED memVars
    BY <2>2 DEF ArraysInv, memVars
  <2> QED BY <2>1, <2>2, StepBuilds DEF MemNext
<1> QED BY <1>1, <1>2, PTL DEF MemSpec

-----------------------------------------------------------------------------
(***************************************************************************)
(* The finalised circuit.                                                  *)
(***************************************************************************)
\* u is s followed by the n elements of t.
IsJoined(u, s, t, n) ==
    /\ Len(u) = Len(s) + n
    /\ \A k \in 1 .. Len(s) : u[k] = s[k]
    /\ \A k \in 1 .. n : u[Len(s) + k] = t[k]
    /\ \E S : u \in Seq(S)

LEMMA JoinIs ==
    ASSUME NEW S, NEW s \in Seq(S), NEW t \in Seq(S), NEW u, u = s \o t
    PROVE  IsJoined(u, s, t, Len(t))
<1>1. /\ u \in Seq(S) /\ Len(u) = Len(s) + Len(t)
      /\ \A i \in 1 .. Len(s) + Len(t) : u[i] = IF i <= Len(s) THEN s[i] ELSE t[i - Len(s)]
  BY ConcatProperties, Zenon
<1>2. Len(s) \in Nat /\ Len(t) \in Nat
  OBVIOUS
<1>3. ASSUME NEW k \in 1 .. Len(t) PROVE u[Len(s) + k] = t[k]
  <2>1. Len(s) + k \in 1 .. Len(s) + Len(t) /\ ~ (Len(s) + k <= Len(s)) /\ (Len(s) + k) - Len(s) = k
    BY <1>2
  <2> QED BY <1>1, <2>1
<1>4. ASSUME NEW k \in 1 .. Len(s) PROVE u[k] = s[k]
  <2>1. k \in 1 .. Len(s) + Len(t) /\ k <= Len(s)
    BY <1>2
  <2> QED BY <1>1, <2>1
<1> QED BY <1>1, <1>3, <1>4 DEF IsJoined

LEMMA ConcatIs ==
    ASSUME NEW S, NEW R, NEW s, s \in Seq(S), NEW n \in Nat, NEW t, t \in [1 .. n -> R], NEW u, u = s \o t
    PROVE  IsJoined(u, s, t, n)
<1>1. PICK U : U = S \cup R
  OBVIOUS
<1>2. s \in Seq(U)
  BY <1>1
<1>3. t \in [1 .. n -> U]
  BY <1>1
<1>4. t \in Seq(U) /\ Len(t) = n
  BY <1>3
<1> QED BY <1>2, <1>4, JoinIs

LEMMA OrderedIs ==
    ASSUME NEW c, Built(c), NEW sorted \in Orders(c)
    PROVE  /\ Len(sorted) = Len(c.records) /\ DOMAIN sorted = DOMAIN c.records
           /\ DOMAIN c.records = 1 .. Len(c.records) /\ Len(c.records) \in Nat
           /\ \A k \in DOMAIN c.records : \E j \in DOMAIN c.records : sorted[k] = c.records[j]
           /\ \A j \in DOMAIN c.records : \E k \in DOMAIN c.records : sorted[k] = c.records[j]
<1>1. c \in Circuits
  BY DEF Built
<1>2. Len(c.records) \in Nat /\ DOMAIN c.records = 1 .. Len(c.records)
  BY <1>1 DEF Circuits
<1>3. PICK p \in Permutations(c) : sorted = Ordered(c, p)
  BY DEF Orders
<1>4. /\ \A k \in DOMAIN c.records : p[k] \in DOMAIN c.records
      /\ \A j \in DOMAIN c.records : \E k \in DOMAIN c.records : p[k] = j
  BY <1>3 DEF Permutations, Bijection, Injection, Surjection
<1>5. sorted = [k \in DOMAIN c.records |-> c.records[p[k]]]
  BY <1>3 DEF Ordered
<1>6. Len(sorted) = Len(c.records)
  <2> DEFINE R == {c.records[k] : k \in DOMAIN c.records}
  <2>1. \A k \in 1 .. Len(c.records) : c.records[p[k]] \in R
    BY <1>2, <1>4
  <2> HIDE DEF R
  <2>2. sorted \in [1 .. Len(c.records) -> R]
    BY <1>2, <1>5, <2>1
  <2> QED BY <1>2, <2>2
<1> QED BY <1>2, <1>4, <1>5, <1>6

LEMMA SomeRecord ==
    ASSUME NEW c, Built(c), AllSet(c)
    PROVE  Len(c.records) \in Nat /\ Len(c.records) >= 1 /\ DOMAIN c.records = 1 .. Len(c.records)
<1>1. c \in Circuits /\ CellsHeld(c)
  BY DEF Built
<1>2. Len(c.records) \in Nat /\ DOMAIN c.records = 1 .. Len(c.records)
  BY <1>1 DEF Circuits
<1>3. \E k \in DOMAIN c.records : TRUE
  BY <1>1, SizeOfArray DEF AllSet, CellsHeld
<1> QED BY <1>2, <1>3

\* The gates of a finalised ROM circuit, whatever the order of its second list.
RomGates(c) ==
    Append(c.gates \o [k \in 1 .. Len(c.records) |->
                          [type |-> "ROM_CHECK", w |-> FreshWires(c, k), c |-> ArraySize - 1]],
           [type |-> "FIX", w |-> <<NumVariables(c) + 4 * Len(c.records) + 1, zero_idx, zero_idx, zero_idx>>,
            c |-> ArraySize])

\* The circuit c, finalised.
FinalizedAs(d, c) ==
    LET n == Len(c.records)
        l == Len(c.gates)
    IN  /\ d.records = c.records /\ d.constants = c.constants /\ d.state = c.state /\ d.kind = c.kind
        /\ \A v \in 1 .. NumVariables(c) : v \in DOMAIN d.variables
        /\ DOMAIN d.gates = 1 .. l + n + (IF c.kind = "ROM" THEN 1 ELSE n)
        /\ \A k \in 1 .. l : d.gates[k] = c.gates[k]
        /\ \A k \in 1 .. n :
              /\ d.gates[l + k].type =
                    IF c.kind = "ROM" THEN "ROM_CHECK" ELSE IF k < n THEN "RAM_CHECK" ELSE "FIX"
              /\ \A j \in 1 .. 4 : d.gates[l + k].w[j] = NumVariables(c) + 4 * (k - 1) + j
              /\ d.gates[l + k].c = ArraySize - 1
        /\ \A k \in DOMAIN d.gates : k > l + n => d.gates[k].w[4] = zero_idx
        /\ c.kind = "ROM" => d.gates = RomGates(c) /\ d.ranges = c.ranges
        /\ \A k \in DOMAIN d.gates : d.gates[k].type = "TIMESTAMP" => d.gates[k].w[3] > NumVariables(c)
        /\ d.tags = {<<c.records[k].record_witness, "access">> : k \in 1 .. n}
                       \cup {<<NumVariables(c) + 4 * k, "sorted">> : k \in 1 .. n}

\* What both kinds of arrays have after the second list.
ListAdded(d, c, sorted) ==
    LET n == Len(c.records)
        l == Len(c.gates)
    IN  /\ d.records = c.records /\ d.constants = c.constants /\ d.state = c.state /\ d.kind = c.kind
        /\ Len(d.gates) = l + n
        /\ NumVariables(d) = NumVariables(c) + 4 * n
        /\ \A k \in 1 .. l : d.gates[k] = c.gates[k]
        /\ \A k \in 1 .. n : d.gates[l + k] = SortedGate(c, sorted, k)
        /\ d.gates = c.gates \o [k \in 1 .. n |-> SortedGate(c, sorted, k)]
        /\ d.ranges = c.ranges
        /\ d.tags = {<<c.records[k].record_witness, "access">> : k \in 1 .. n}
                       \cup {<<NumVariables(c) + 4 * k, "sorted">> : k \in 1 .. n}
        /\ \E S : d.gates \in Seq(S)
        /\ \E S : d.variables \in Seq(S)
        /\ d.access_count = c.access_count
        /\ DOMAIN d = DOMAIN c

LEMMA SortedListAdded ==
    ASSUME NEW c, Built(c), NEW sorted \in Orders(c), NEW d, d = AddSortedList(c, sorted)
    PROVE  ListAdded(d, c, sorted)
<1> DEFINE n == Len(c.records)
           V == NumVariables(c)
           vs == [v \in 1 .. 4 * n |-> FreshValues(c, sorted[1 + ((v - 1) \div 4)])[1 + ((v - 1) % 4)]]
           gs == [k \in 1 .. n |-> SortedGate(c, sorted, k)]
           tags == c.tags \cup {<<sorted[k].record_witness, "access">> : k \in 1 .. n}
                     \cup {<<FreshWires(c, k)[4], "sorted">> : k \in 1 .. n}
<1>1. c \in Circuits /\ n \in Nat /\ V \in Nat /\ Len(c.gates) \in Nat
  BY FieldsOfCircuit DEF Built
<1>2. Len(sorted) = n /\ DOMAIN c.records = 1 .. n
  BY OrderedIs
<1>3. d = [c EXCEPT !.variables = c.variables \o vs, !.gates = c.gates \o gs, !.tags = tags,
                    !.read_records = c.read_records \cup Listed(c, sorted, "READ"),
                    !.write_records = c.write_records \cup Listed(c, sorted, "WRITE")]
  BY <1>1, <1>2 DEF AddSortedList, Circuits
<1>4. vs = [v \in 1 .. 4 * n |-> vs[v]] /\ gs = [k \in 1 .. n |-> gs[k]]
  OBVIOUS
<1>5. \A k \in 1 .. n : gs[k] = SortedGate(c, sorted, k)
  OBVIOUS
<1> HIDE DEF vs, gs, tags
<1>6. /\ d.records = c.records /\ d.constants = c.constants /\ d.state = c.state /\ d.kind = c.kind
      /\ d.access_count = c.access_count /\ d.ranges = c.ranges
      /\ d.variables = c.variables \o vs /\ d.gates = c.gates \o gs /\ d.tags = tags
      /\ DOMAIN d = DOMAIN c
  BY <1>1, <1>3 DEF Circuits
<1>7. c.variables \in Seq(Int) /\ c.gates \in Seq([type : GateTypes, w : Seq(Nat), c : Int])
  BY <1>1, FieldsOfCircuit
<1>8. 4 * n \in Nat
  BY <1>1
<1>9. NumVariables(d) = V + 4 * n /\ \E S : d.variables \in Seq(S)
  <2>1. /\ Len(d.variables) = Len(c.variables) + 4 * n
        /\ \E S : d.variables \in Seq(S)
    <3>1. PICK s, t, m, u : s = c.variables /\ t = vs /\ m = 4 * n /\ u = d.variables
      OBVIOUS
    <3>2. s \in Seq(Int) /\ m \in Nat /\ u = s \o t
      BY <1>6, <1>7, <1>8, <3>1
    <3>3. PICK R : R = {t[k] : k \in 1 .. m}
      OBVIOUS
    <3>4. t \in [1 .. m -> R]
      BY <1>4, <3>1, <3>3
    <3>5. IsJoined(u, s, t, m)
      BY <3>2, <3>4, ConcatIs
    <3> QED BY <3>1, <3>5 DEF IsJoined
  <2> QED BY <2>1 DEF NumVariables
<1>10. /\ Len(d.gates) = Len(c.gates) + n
       /\ \A k \in 1 .. Len(c.gates) : d.gates[k] = c.gates[k]
       /\ \A k \in 1 .. n : d.gates[Len(c.gates) + k] = gs[k]
       /\ \E S : d.gates \in Seq(S)
  <2> HIDE DEF n
  <2>1. PICK G : G = [type : GateTypes, w : Seq(Nat), c : Int]
    OBVIOUS
  <2>2. /\ Len(d.gates) = Len(c.gates) + n
        /\ \A k \in 1 .. Len(c.gates) : d.gates[k] = c.gates[k]
        /\ \A k \in 1 .. n : d.gates[Len(c.gates) + k] = gs[k]
        /\ \E S : d.gates \in Seq(S)
    <3>1. PICK s, t, u : s = c.gates /\ t = gs /\ u = d.gates
      OBVIOUS
    <3>2. s \in Seq(G) /\ u = s \o t
      BY <1>6, <1>7, <2>1, <3>1
    <3>3. PICK R : R = {t[k] : k \in 1 .. n}
      OBVIOUS
    <3>4. t \in [1 .. n -> R]
      BY <1>4, <3>1, <3>3
    <3>5. IsJoined(u, s, t, n)
      BY <1>1, <3>2, <3>4, ConcatIs
    <3> QED BY <3>1, <3>5 DEF IsJoined
  <2> QED BY <2>2
<1>11. d.tags = {<<c.records[k].record_witness, "access">> : k \in 1 .. n} \cup {<<V + 4 * k, "sorted">> : k \in 1 .. n}
  <2>1. {<<sorted[k].record_witness, "access">> : k \in 1 .. n} = {<<c.records[k].record_witness, "access">> : k \in 1 .. n}
    <3>1. /\ \A k \in 1 .. n : \E j \in 1 .. n : sorted[k] = c.records[j]
          /\ \A j \in 1 .. n : \E k \in 1 .. n : sorted[k] = c.records[j]
      <4>1. /\ \A k \in DOMAIN c.records : \E j \in DOMAIN c.records : sorted[k] = c.records[j]
            /\ \A j \in DOMAIN c.records : \E k \in DOMAIN c.records : sorted[k] = c.records[j]
        BY OrderedIs
      <4> QED BY <1>2, <4>1
    <3> HIDE DEF n
    <3> QED BY <3>1
  <2>2. \A k \in 1 .. n : FreshWires(c, k)[4] = V + 4 * k
    BY <1>1 DEF FreshWires
  <2>3. {<<FreshWires(c, k)[4], "sorted">> : k \in 1 .. n} = {<<V + 4 * k, "sorted">> : k \in 1 .. n}
    <3> HIDE DEF n, V
    <3> QED BY <2>2
  <2>4. c.tags = {}
    BY <1>1 DEF Circuits
  <2> QED BY <1>6, <2>1, <2>3, <2>4 DEF tags
<1> HIDE DEF n, V
<1>12. \A k \in 1 .. n : d.gates[Len(c.gates) + k] = SortedGate(c, sorted, k)
  BY <1>5, <1>10
<1>13. d.gates = c.gates \o [k \in 1 .. n |-> SortedGate(c, sorted, k)]
  BY <1>6, Zenon DEF gs
<1> QED BY <1>6, <1>9, <1>10, <1>11, <1>12, <1>13 DEF ListAdded, n, V

LEMMA NoTimestamps ==
    ASSUME NEW c, Built(c), NEW k \in 1 .. Len(c.gates)
    PROVE  c.gates[k].type \in {"ROM_READ", "RAM_READ", "RAM_WRITE", "FIX"}
<1>1. DOMAIN c.gates = 1 .. Len(c.gates)
  BY DEF Built, Circuits
<1>2. CASE \E m \in DOMAIN c.records : c.records[m].gate = k
  <2>1. PICK m \in DOMAIN c.records : c.records[m].gate = k /\ RecordFits(c, m)
    BY <1>2 DEF Built, RecordsFit
  <2> QED BY <2>1 DEF RecordFits, AccessGate
<1>3. CASE c.gates[k].type = "FIX"
  BY <1>3
<1> QED BY <1>1, <1>2, <1>3 DEF Built, OthersFix

\* The gate after the list of a ROM array.
LEMMA ROMProcessed ==
    ASSUME NEW c, Built(c), AllSet(c), c.kind = "ROM", NEW sorted \in Orders(c),
           NEW d, d = Processed(c, sorted)
    PROVE  FinalizedAs(d, c)
<1> DEFINE n == Len(c.records)
           l == Len(c.gates)
           V == NumVariables(c)
<1>1. PICK e : e = AddSortedList(c, sorted)
  OBVIOUS
<1>2. ListAdded(e, c, sorted)
  BY <1>1, SortedListAdded
<1>3. c \in Circuits /\ n \in Nat /\ V \in Nat /\ l \in Nat
  BY FieldsOfCircuit DEF Built
<1>a. /\ e.records = c.records /\ e.constants = c.constants /\ e.state = c.state /\ e.kind = c.kind
      /\ Len(e.gates) = l + n
      /\ NumVariables(e) = V + 4 * n
      /\ \A k \in 1 .. l : e.gates[k] = c.gates[k]
      /\ \A k \in 1 .. n : e.gates[l + k] = SortedGate(c, sorted, k)
      /\ e.tags = {<<c.records[k].record_witness, "access">> : k \in 1 .. n}
                    \cup {<<V + 4 * k, "sorted">> : k \in 1 .. n}
  BY <1>2 DEF ListAdded
<1>d. e.gates = c.gates \o [k \in 1 .. n |-> [type |-> "ROM_CHECK", w |-> FreshWires(c, k), c |-> ArraySize - 1]]
      /\ e.ranges = c.ranges
  <2>1. \A k : SortedGate(c, sorted, k) = [type |-> "ROM_CHECK", w |-> FreshWires(c, k), c |-> ArraySize - 1]
    BY DEF SortedGate
  <2>2. [k \in 1 .. n |-> SortedGate(c, sorted, k)]
          = [k \in 1 .. n |-> [type |-> "ROM_CHECK", w |-> FreshWires(c, k), c |-> ArraySize - 1]]
    BY <2>1
  <2>3. e.gates = c.gates \o [k \in 1 .. n |-> SortedGate(c, sorted, k)] /\ e.ranges = c.ranges
    BY <1>2 DEF ListAdded
  <2> QED BY <2>2, <2>3
<1>b. \A k \in 1 .. n : \A j \in 1 .. 4 : FreshWires(c, k)[j] = V + 4 * (k - 1) + j
  BY DEF FreshWires
<1>c. \A k \in 1 .. l : c.gates[k].type # "TIMESTAMP"
  BY NoTimestamps
<1> HIDE DEF n, l, V
<1>4. PICK g : g = [type |-> "FIX", w |-> <<V + 4 * n + 1, zero_idx, zero_idx, zero_idx>>, c |-> ArraySize]
  OBVIOUS
<1>5. {"variables", "gates", "tags", "records", "constants", "state", "kind", "access_count", "ranges"} \subseteq DOMAIN c
  BY <1>3 DEF Circuits
<1>6. PICK f : f = AddVariable(e, ArraySize)
  OBVIOUS
<1>7. /\ f.records = c.records /\ f.constants = c.constants /\ f.state = c.state /\ f.kind = c.kind
      /\ f.tags = e.tags /\ f.gates = e.gates /\ DOMAIN f = DOMAIN c
      /\ f.ranges = c.ranges
      /\ f.variables = Append(e.variables, ArraySize)
  BY <1>d, <1>2, <1>5, <1>6 DEF ListAdded, AddVariable
<1>8. NumVariables(f) = V + 4 * n + 1 /\ DOMAIN f.variables = 1 .. V + 4 * n + 1
  <2>1. PICK S : e.variables \in Seq(S)
    BY <1>2 DEF ListAdded
  <2>2. PICK T : T = S \cup {ArraySize}
    OBVIOUS
  <2>3. e.variables \in Seq(T) /\ ArraySize \in T
    BY <2>1, <2>2
  <2>4. Len(f.variables) = Len(e.variables) + 1 /\ DOMAIN f.variables = 1 .. Len(e.variables) + 1
    BY <1>7, <2>3, AppendIs
  <2> QED BY <1>a, <2>4 DEF NumVariables
<1>9. d = [f EXCEPT !.gates = Append(f.gates, g)]
  BY <1>1, <1>4, <1>6, <1>8 DEF Processed, ProcessROM, AddGate
<1>10. /\ d.records = c.records /\ d.constants = c.constants /\ d.state = c.state /\ d.kind = c.kind
       /\ d.tags = e.tags /\ d.gates = Append(e.gates, g) /\ d.variables = f.variables
       /\ d.ranges = c.ranges
  BY <1>5, <1>7, <1>9
<1>11. /\ DOMAIN d.gates = 1 .. l + n + 1 /\ d.gates[l + n + 1] = g
       /\ \A k \in 1 .. l + n : d.gates[k] = e.gates[k]
  <2>1. PICK S : e.gates \in Seq(S)
    BY <1>2 DEF ListAdded
  <2>2. PICK T : T = S \cup {g}
    OBVIOUS
  <2>3. e.gates \in Seq(T) /\ g \in T
    BY <2>1, <2>2
  <2>4. PICK s, u : s = e.gates /\ u = d.gates
    OBVIOUS
  <2>5. s \in Seq(T) /\ u = Append(s, g) /\ Len(s) = l + n
    BY <1>a, <1>10, <2>3, <2>4
  <2>6. /\ DOMAIN u = 1 .. Len(s) + 1
        /\ \A k \in 1 .. Len(s) : u[k] = s[k]
        /\ u[Len(s) + 1] = g
    BY <2>3, <2>5, AppendIs
  <2> QED BY <2>4, <2>5, <2>6
<1>12. g.type = "FIX" /\ g.c = ArraySize /\ g.w[4] = zero_idx
  BY <1>4
<1>13. \A k \in 1 .. l : d.gates[k] = c.gates[k]
  <2>1. \A k \in 1 .. l : k \in 1 .. l + n
    BY <1>3
  <2> QED BY <1>a, <1>11, <2>1
<1>14. \A k \in 1 .. n : d.gates[l + k] = SortedGate(c, sorted, k)
  <2>1. \A k \in 1 .. n : l + k \in 1 .. l + n
    BY <1>3
  <2> QED BY <1>a, <1>11, <2>1
<1>15. ASSUME NEW k \in 1 .. n
       PROVE  /\ d.gates[l + k].type = "ROM_CHECK"
              /\ \A j \in 1 .. 4 : d.gates[l + k].w[j] = V + 4 * (k - 1) + j
              /\ d.gates[l + k].c = ArraySize - 1
  <2>1. SortedGate(c, sorted, k) = [type |-> "ROM_CHECK", w |-> FreshWires(c, k), c |-> ArraySize - 1]
    BY DEF SortedGate
  <2>2. d.gates[l + k] = [type |-> "ROM_CHECK", w |-> FreshWires(c, k), c |-> ArraySize - 1]
    BY <1>14, <2>1
  <2> QED BY <1>b, <2>2
<1>17. \A k \in DOMAIN d.gates : k \in 1 .. l \/ (\E j \in 1 .. n : k = l + j) \/ k = l + n + 1
  <2> SUFFICES ASSUME NEW k \in 1 .. l + n + 1, k \notin 1 .. l, k # l + n + 1
               PROVE  \E j \in 1 .. n : k = l + j
    BY <1>11
  <2>1. k - l \in 1 .. n /\ k = l + (k - l)
    BY <1>3
  <2> QED BY <2>1
<1>18. ASSUME NEW k \in DOMAIN d.gates PROVE d.gates[k].type # "TIMESTAMP"
  <2>1. CASE k \in 1 .. l
    BY <1>13, <1>c, <2>1
  <2>2. CASE \E j \in 1 .. n : k = l + j
    BY <1>15, <2>2
  <2>3. CASE k = l + n + 1
    <3>1. d.gates[l + n + 1].type = "FIX"
      BY <1>11, <1>12
    <3> QED BY <2>3, <3>1
  <2> QED BY <1>17, <2>1, <2>2, <2>3
<1>19. ASSUME NEW k \in DOMAIN d.gates, k > l + n PROVE d.gates[k].w[4] = zero_idx
  <2>1. k = l + n + 1
    BY <1>3, <1>11, <1>19
  <2> QED BY <1>11, <1>12, <2>1
<1>20. d.tags = {<<c.records[k].record_witness, "access">> : k \in 1 .. n} \cup {<<V + 4 * k, "sorted">> : k \in 1 .. n}
  BY <1>a, <1>10
<1>21. \A v \in 1 .. V : v \in DOMAIN d.variables
  BY <1>3, <1>8, <1>10
<1>22. d.gates = RomGates(c)
  BY <1>4, <1>d, <1>10, Zenon DEF RomGates, n, V
<1> QED BY <1>22, <1>21, <1>10, <1>11, <1>12, <1>13, <1>15, <1>18, <1>19, <1>20 DEF FinalizedAs, n, l, V

\* The gates after the list of a RAM array.
LEMMA RAMProcessed ==
    ASSUME NEW c, Built(c), AllSet(c), c.kind = "RAM", NEW sorted \in Orders(c),
           NEW d, d = Processed(c, sorted)
    PROVE  FinalizedAs(d, c)
<1> DEFINE n == Len(c.records)
           l == Len(c.gates)
           V == NumVariables(c)
<1>1. PICK e : e = AddSortedList(c, sorted)
  OBVIOUS
<1>2. ListAdded(e, c, sorted)
  BY <1>1, SortedListAdded
<1>3. c \in Circuits /\ n \in Nat /\ V \in Nat /\ l \in Nat /\ n >= 1
  <2>1. c \in Circuits
    BY DEF Built
  <2> QED BY <2>1, FieldsOfCircuit, SomeRecord
<1>a. /\ e.records = c.records /\ e.constants = c.constants /\ e.state = c.state /\ e.kind = c.kind
      /\ Len(e.gates) = l + n
      /\ NumVariables(e) = V + 4 * n
      /\ \A k \in 1 .. l : e.gates[k] = c.gates[k]
      /\ \A k \in 1 .. n : e.gates[l + k] = SortedGate(c, sorted, k)
      /\ e.tags = {<<c.records[k].record_witness, "access">> : k \in 1 .. n}
                    \cup {<<V + 4 * k, "sorted">> : k \in 1 .. n}
  BY <1>2 DEF ListAdded
<1>b. \A k \in 1 .. n : \A j \in 1 .. 4 : FreshWires(c, k)[j] = V + 4 * (k - 1) + j
  BY DEF FreshWires
<1>c. \A k \in 1 .. l : c.gates[k].type # "TIMESTAMP"
  BY NoTimestamps
<1>d. Len(sorted) = n
  BY OrderedIs
<1> HIDE DEF n, l, V
<1>4. PICK g : \E a, b : g = [type |-> "EMPTY", w |-> <<a, b, zero_idx, zero_idx>>, c |-> 0]
                /\ d = AddGate(AddTimestamps(e, sorted), "EMPTY", <<a, b, zero_idx, zero_idx>>, 0)
  BY <1>1 DEF Processed, ProcessRAM
<1>5. {"variables", "gates", "tags", "records", "constants", "state", "kind", "access_count", "ranges"} \subseteq DOMAIN c
  BY <1>3 DEF Circuits
<1>6. PICK f : f = AddTimestamps(e, sorted)
  OBVIOUS
<1> DEFINE wires == [k \in 1 .. Len(sorted) - 1 |-> <<sorted[k].w[1], sorted[k].w[2], NumVariables(e) + k, zero_idx>>]
           ts == [k \in 1 .. Len(sorted) - 1 |-> [type |-> "TIMESTAMP", w |-> wires[k], c |-> 0]]
           deltas == [k \in 1 .. Len(sorted) - 1 |-> Delta(sorted[k], sorted[k + 1])]
           ranges == {<<NumVariables(e) + k, e.access_count - 1>> : k \in 1 .. Len(sorted) - 1}
<1>7. /\ f.records = c.records /\ f.constants = c.constants /\ f.state = c.state /\ f.kind = c.kind
      /\ f.tags = e.tags /\ f.gates = e.gates \o ts /\ DOMAIN f = DOMAIN c
      /\ f.variables = e.variables \o deltas
  <2>0. f = [AddVariables(e, deltas) EXCEPT !.gates = @ \o ts, !.ranges = @ \cup ranges]
    BY <1>6, Zenon DEF AddTimestamps
  <2> HIDE DEF ts, wires, deltas, ranges
  <2>1. PICK x : x = AddVariables(e, deltas)
    OBVIOUS
  <2>2. /\ x.records = c.records /\ x.constants = c.constants /\ x.state = c.state /\ x.kind = c.kind
        /\ x.tags = e.tags /\ x.gates = e.gates /\ DOMAIN x = DOMAIN c
        /\ x.variables = e.variables \o deltas
    BY <1>2, <1>5, <2>1 DEF ListAdded, AddVariables
  <2>3. f = [x EXCEPT !.gates = @ \o ts, !.ranges = @ \cup ranges]
    BY <2>0, <2>1
  <2> QED BY <1>5, <2>2, <2>3
<1>8. /\ Len(f.gates) = l + n + (n - 1)
      /\ \A k \in 1 .. l + n : f.gates[k] = e.gates[k]
      /\ \A k \in 1 .. n - 1 : f.gates[l + n + k] = ts[k]
      /\ \E S : f.gates \in Seq(S)
  <2>1. PICK S, s, m, t, u, R : /\ e.gates \in Seq(S) /\ s = e.gates /\ t = ts /\ m = n - 1 /\ u = f.gates
                                /\ R = {ts[k] : k \in 1 .. n - 1}
    BY <1>2 DEF ListAdded
  <2>2. m \in Nat /\ s \in Seq(S) /\ u = s \o t
    BY <1>3, <1>7, <2>1, SMTT(60)
  <2>3. t \in [1 .. m -> R]
    BY <1>d, <2>1
  <2>4. IsJoined(u, s, t, m)
    BY <2>2, <2>3, ConcatIs
  <2> HIDE DEF ts, wires
  <2> QED BY <1>a, <2>1, <2>4 DEF IsJoined
<1>e. \A v \in 1 .. V : v \in DOMAIN f.variables
  <2>1. PICK S, s, m, t, u, R : /\ e.variables \in Seq(S) /\ s = e.variables /\ t = deltas /\ m = n - 1
                                /\ u = f.variables /\ R = {deltas[k] : k \in 1 .. n - 1}
    BY <1>2 DEF ListAdded
  <2>2. m \in Nat /\ s \in Seq(S) /\ u = s \o t
    BY <1>3, <1>7, <2>1
  <2>3. t \in [1 .. m -> R]
    BY <1>d, <2>1
  <2>4. IsJoined(u, s, t, m)
    BY <2>2, <2>3, ConcatIs
  <2>5. PICK U : u \in Seq(U) /\ Len(u) = V + 4 * n + m
    BY <1>a, <2>1, <2>4 DEF IsJoined, NumVariables
  <2>6. DOMAIN u = 1 .. V + 4 * n + m
    BY <2>5
  <2>7. \A v \in 1 .. V : v \in 1 .. V + 4 * n + m
    BY <1>3, <2>2
  <2> QED BY <2>1, <2>6, <2>7
<1>9. \A k \in 1 .. n - 1 : ts[k].type = "TIMESTAMP" /\ ts[k].w[3] = V + 4 * n + k /\ ts[k].w[4] = zero_idx
  BY <1>a, <1>d
<1> HIDE DEF ts, wires, deltas, ranges
<1>10. /\ d.records = c.records /\ d.constants = c.constants /\ d.state = c.state /\ d.kind = c.kind
       /\ d.tags = e.tags /\ d.gates = Append(f.gates, g) /\ d.variables = f.variables
  <2>1. d = [f EXCEPT !.gates = Append(f.gates, g)]
    BY <1>4, <1>6 DEF AddGate
  <2> QED BY <1>5, <1>7, <2>1
<1>11. /\ DOMAIN d.gates = 1 .. l + n + n /\ d.gates[l + n + n] = g
       /\ \A k \in 1 .. l + n : d.gates[k] = e.gates[k]
       /\ \A k \in 1 .. n - 1 : d.gates[l + n + k] = ts[k]
  <2>1. PICK S : f.gates \in Seq(S)
    BY <1>8
  <2>2. PICK T : T = S \cup {g}
    OBVIOUS
  <2>3. f.gates \in Seq(T) /\ g \in T
    BY <2>1, <2>2
  <2>4. PICK s, u : s = f.gates /\ u = d.gates
    OBVIOUS
  <2>5. s \in Seq(T) /\ u = Append(s, g) /\ Len(s) = l + n + (n - 1)
    BY <1>8, <1>10, <2>3, <2>4
  <2>6. /\ DOMAIN u = 1 .. Len(s) + 1
        /\ \A k \in 1 .. Len(s) : u[k] = s[k]
        /\ u[Len(s) + 1] = g
    BY <2>3, <2>5, AppendIs
  <2>7. Len(s) + 1 = l + n + n
    BY <1>3, <2>5
  <2>8. \A k \in 1 .. l + n : k \in 1 .. Len(s)
    BY <1>3, <2>5
  <2>9. \A k \in 1 .. n - 1 : l + n + k \in 1 .. Len(s)
    BY <1>3, <2>5
  <2> QED BY <1>8, <2>4, <2>6, <2>7, <2>8, <2>9
<1>12. g.type = "EMPTY" /\ g.w[4] = zero_idx
  BY <1>4
<1>13. \A k \in 1 .. l : d.gates[k] = c.gates[k]
  <2>1. \A k \in 1 .. l : k \in 1 .. l + n
    BY <1>3
  <2> QED BY <1>a, <1>11, <2>1
<1>14. \A k \in 1 .. n : d.gates[l + k] = SortedGate(c, sorted, k)
  <2>1. \A k \in 1 .. n : l + k \in 1 .. l + n
    BY <1>3
  <2> QED BY <1>a, <1>11, <2>1
<1>15. ASSUME NEW k \in 1 .. n
       PROVE  /\ d.gates[l + k].type = IF k < n THEN "RAM_CHECK" ELSE "FIX"
              /\ \A j \in 1 .. 4 : d.gates[l + k].w[j] = V + 4 * (k - 1) + j
              /\ d.gates[l + k].c = ArraySize - 1
  <2>1. SortedGate(c, sorted, k) =
            [type |-> IF k < n THEN "RAM_CHECK" ELSE "FIX", w |-> FreshWires(c, k), c |-> ArraySize - 1]
    BY <1>d DEF SortedGate
  <2>2. d.gates[l + k] = [type |-> IF k < n THEN "RAM_CHECK" ELSE "FIX", w |-> FreshWires(c, k), c |-> ArraySize - 1]
    BY <1>14, <2>1
  <2> QED BY <1>b, <2>2
<1>17. \A k \in DOMAIN d.gates :
          \/ k \in 1 .. l
          \/ \E j \in 1 .. n : k = l + j
          \/ \E j \in 1 .. n - 1 : k = l + n + j
          \/ k = l + n + n
  <2>1. ASSUME NEW k \in 1 .. l + n + n, k > l, k <= l + n PROVE k - l \in 1 .. n /\ k = l + (k - l)
    BY <1>3, <2>1
  <2>2. ASSUME NEW k \in 1 .. l + n + n, k > l + n, k # l + n + n
        PROVE  k - (l + n) \in 1 .. n - 1 /\ k = l + n + (k - (l + n))
    BY <1>3, <2>2
  <2> SUFFICES ASSUME NEW k \in 1 .. l + n + n
               PROVE  \/ k \in 1 .. l
                      \/ \E j \in 1 .. n : k = l + j
                      \/ \E j \in 1 .. n - 1 : k = l + n + j
                      \/ k = l + n + n
    BY <1>11
  <2>3. CASE k <= l
    BY <1>3, <2>3
  <2>4. CASE k > l /\ k <= l + n
    BY <2>1, <2>4
  <2>5. CASE k > l + n /\ k # l + n + n
    BY <2>2, <2>5
  <2> QED BY <1>3, <2>3, <2>4, <2>5
<1>18. ASSUME NEW k \in DOMAIN d.gates, d.gates[k].type = "TIMESTAMP" PROVE d.gates[k].w[3] > V
  <2>1. PICK j \in 1 .. n - 1 : k = l + n + j
    BY <1>11, <1>12, <1>13, <1>15, <1>c, <1>17, <1>18
  <2>2. d.gates[k].w[3] = V + 4 * n + j
    BY <1>9, <1>11, <2>1
  <2> QED BY <1>3, <2>1, <2>2
<1>19. ASSUME NEW k \in DOMAIN d.gates, k > l + n PROVE d.gates[k].w[4] = zero_idx
  <2>1. (\E j \in 1 .. n - 1 : k = l + n + j) \/ k = l + n + n
    BY <1>3, <1>17, <1>19
  <2> QED BY <1>9, <1>11, <1>12, <2>1
<1>20. d.tags = {<<c.records[k].record_witness, "access">> : k \in 1 .. n} \cup {<<V + 4 * k, "sorted">> : k \in 1 .. n}
  BY <1>a, <1>10
<1>21. \A v \in 1 .. V : v \in DOMAIN d.variables
  BY <1>e, <1>10
<1> QED BY <1>21, <1>10, <1>11, <1>13, <1>15, <1>18, <1>19, <1>20 DEF FinalizedAs, n, l, V

LEMMA ProcessedIs ==
    ASSUME NEW c, Built(c), AllSet(c), NEW sorted \in Orders(c)
    PROVE  FinalizedAs(Processed(c, sorted), c)
<1>1. c.kind = "ROM" \/ c.kind = "RAM"
  BY DEF Built, AllSet, Circuits
<1> QED BY <1>1, ROMProcessed, RAMProcessed

\* The rows of the accesses and those of the second list carry the tags.
LEMMA TaggedAre ==
    ASSUME NEW c, Built(c), AllSet(c), NEW d, FinalizedAs(d, c)
    PROVE  /\ TaggedRows(d, "access") = {c.records[k].gate : k \in 1 .. Len(c.records)}
           /\ TaggedRows(d, "sorted") = Len(c.gates) + 1 .. Len(c.gates) + Len(c.records)
           /\ IsFiniteSet(DOMAIN d.gates)
           /\ \A k \in 1 .. Len(c.gates) + Len(c.records) + 1 : k \in DOMAIN d.gates
<1> DEFINE n == Len(c.records)
           l == Len(c.gates)
           V == NumVariables(c)
<1>1. n \in Nat /\ n >= 1 /\ l \in Nat /\ V \in Nat /\ V >= 1 /\ DOMAIN c.records = 1 .. n /\ DOMAIN c.gates = 1 .. l
  <2>1. c \in Circuits /\ V >= 1
    BY DEF Built
  <2>2. DOMAIN c.gates = 1 .. l
    BY <2>1 DEF Circuits
  <2> QED BY <2>1, <2>2, FieldsOfCircuit, SomeRecord
<1>2. /\ DOMAIN d.gates = 1 .. l + n + (IF c.kind = "ROM" THEN 1 ELSE n)
      /\ \A k \in 1 .. l : d.gates[k] = c.gates[k]
      /\ \A k \in 1 .. n : \A j \in 1 .. 4 : d.gates[l + k].w[j] = V + 4 * (k - 1) + j
      /\ \A k \in DOMAIN d.gates : k > l + n => d.gates[k].w[4] = zero_idx
      /\ d.tags = {<<c.records[k].record_witness, "access">> : k \in 1 .. n} \cup {<<V + 4 * k, "sorted">> : k \in 1 .. n}
  BY DEF FinalizedAs
<1>3. /\ \A k \in 1 .. n : RecordFits(c, k) /\ c.records[k].record_witness \in 2 .. V
                           /\ c.records[k].gate \in 1 .. l
      /\ \A g \in 1 .. l : (\E k \in 1 .. n : c.records[k].gate = g) \/ c.gates[g].w[4] = zero_idx
  BY <1>1 DEF Built, RecordsFit, RecordFits, OthersFix
<1> HIDE DEF n, l, V
<1>4. PICK size : size \in Nat /\ size >= l + n + 1 /\ DOMAIN d.gates = 1 .. size
  <2>1. DOMAIN d.gates = 1 .. l + n + 1 \/ DOMAIN d.gates = 1 .. l + n + n
    BY <1>2
  <2>2. l + n + 1 \in Nat /\ l + n + n \in Nat /\ l + n + n >= l + n + 1
    BY <1>1
  <2> QED BY <2>1, <2>2
<1>5. \A k \in 1 .. n : d.gates[c.records[k].gate].w[4] = c.records[k].record_witness
  BY <1>2, <1>3 DEF RecordFits
<1>6. \A k \in 1 .. n : d.gates[l + k].w[4] = V + 4 * k
  <2>1. \A k \in 1 .. n : V + 4 * (k - 1) + 4 = V + 4 * k
    BY <1>1
  <2> QED BY <1>2, <2>1
<1>7. ASSUME NEW k \in 1 .. size
      PROVE  (\E j \in 1 .. n : k = c.records[j].gate) \/ (\E j \in 1 .. n : k = l + j) \/ d.gates[k].w[4] = zero_idx
  <2>1. CASE k <= l
    <3>1. k \in 1 .. l
      BY <1>1, <2>1
    <3>2. d.gates[k] = c.gates[k]
      BY <1>2, <3>1
    <3>3. (\E j \in 1 .. n : c.records[j].gate = k) \/ c.gates[k].w[4] = zero_idx
      BY <1>3, <3>1
    <3> QED BY <3>2, <3>3
  <2>2. CASE k > l /\ k <= l + n
    <3>1. k - l \in 1 .. n /\ k = l + (k - l)
      BY <1>1, <2>2
    <3> QED BY <3>1
  <2>3. CASE k > l + n
    BY <1>2, <1>4, <2>3
  <2> QED BY <1>1, <2>1, <2>2, <2>3
<1>8. \A k \in 1 .. n : c.records[k].gate \in 1 .. size /\ l + k \in 1 .. size
  <2>1. \A k \in 1 .. l : k \in 1 .. size
    BY <1>1, <1>4
  <2>2. \A k \in 1 .. n : l + k \in 1 .. size
    BY <1>1, <1>4
  <2> QED BY <1>3, <2>1, <2>2
<1>9. \A x : <<x, "access">> \in d.tags <=> \E k \in 1 .. n : x = c.records[k].record_witness
  BY <1>2
<1>10. \A x : <<x, "sorted">> \in d.tags <=> \E k \in 1 .. n : x = V + 4 * k
  BY <1>2
<1>11. /\ \A j, k \in 1 .. n : V + 4 * j # c.records[k].record_witness
       /\ \A j \in 1 .. n : V + 4 * j # zero_idx /\ c.records[j].record_witness # zero_idx
  <2>1. ASSUME NEW j \in 1 .. n PROVE V + 4 * j # zero_idx /\ \A x \in 2 .. V : V + 4 * j # x
    BY <1>1 DEF zero_idx
  <2>2. \A x \in 2 .. V : x # zero_idx
    BY <1>1 DEF zero_idx
  <2> QED BY <1>3, <2>1, <2>2
<1>12. ASSUME NEW k \in 1 .. size
       PROVE  <<d.gates[k].w[4], "access">> \in d.tags <=> \E j \in 1 .. n : k = c.records[j].gate
  BY <1>5, <1>6, <1>7, <1>9, <1>11
<1>13. ASSUME NEW k \in 1 .. size
       PROVE  <<d.gates[k].w[4], "sorted">> \in d.tags <=> \E j \in 1 .. n : k = l + j
  BY <1>5, <1>6, <1>7, <1>10, <1>11
<1>14. TaggedRows(d, "access") = {c.records[k].gate : k \in 1 .. n}
  BY <1>4, <1>8, <1>12 DEF TaggedRows
<1>15. TaggedRows(d, "sorted") = {l + k : k \in 1 .. n}
  BY <1>4, <1>8, <1>13 DEF TaggedRows
<1>16. {l + k : k \in 1 .. n} = l + 1 .. l + n
  <2>1. ASSUME NEW x \in l + 1 .. l + n PROVE x - l \in 1 .. n /\ x = l + (x - l)
    BY <1>1
  <2>2. \A k \in 1 .. n : l + k \in l + 1 .. l + n
    BY <1>1
  <2> QED BY <2>1, <2>2
<1>17. IsFiniteSet(DOMAIN d.gates) /\ \A k \in 1 .. l + n + 1 : k \in DOMAIN d.gates
  <2>1. IsFiniteSet(1 .. size)
    BY <1>4, FS_Interval
  <2>2. \A k \in 1 .. l + n + 1 : k \in 1 .. size
    BY <1>1, <1>4
  <2> QED BY <1>4, <2>1, <2>2
<1> QED BY <1>14, <1>15, <1>16, <1>17 DEF n, l

\* The tags say that every access is in the second list, and only accesses are.
LEMMA RowsMatch ==
    ASSUME NEW d, IsFiniteSet(DOMAIN d.gates), NEW fourth, SetsAgree(d, fourth)
    PROVE  /\ \A k \in TaggedRows(d, "access") : \E j \in TaggedRows(d, "sorted") : fourth[j] = fourth[k]
           /\ \A k \in TaggedRows(d, "sorted") : \E j \in TaggedRows(d, "access") : fourth[j] = fourth[k]
<1> DEFINE A(r) == {k \in TaggedRows(d, "access") : fourth[k] = r}
           B(r) == {k \in TaggedRows(d, "sorted") : fourth[k] = r}
<1>1. /\ TaggedRows(d, "access") \subseteq DOMAIN d.gates
      /\ TaggedRows(d, "sorted") \subseteq DOMAIN d.gates
  BY DEF TaggedRows
<1>2. ASSUME NEW k \in DOMAIN d.gates PROVE A(fourth[k]) = {} <=> B(fourth[k]) = {}
  <2>1. PICK a, b : a = A(fourth[k]) /\ b = B(fourth[k])
    OBVIOUS
  <2>2. IsFiniteSet(a) /\ IsFiniteSet(b)
    <3>1. a \subseteq DOMAIN d.gates /\ b \subseteq DOMAIN d.gates
      BY <1>1, <2>1
    <3> QED BY <3>1, FS_Subset
  <2>3. Cardinality(a) = Cardinality(b)
    BY <2>1 DEF SetsAgree
  <2> QED BY <2>1, <2>2, <2>3, FS_EmptySet
<1> QED BY <1>1, <1>2

\* The value a record has in an assignment.
AccessValue(r, val) == <<val[r.w[1]], val[r.w[2]], val[r.w[3]], IF r.access = "WRITE" THEN 1 ELSE 0>>

\* What the gates of the accesses and of the constants say.
LEMMA AccessesHold ==
    ASSUME NEW c, Built(c), AllSet(c), NEW d, FinalizedAs(d, c),
           NEW val, NEW fourth, GatesHold(d, val, fourth)
    PROVE  /\ \A k \in DOMAIN c.records : fourth[c.records[k].gate] = AccessValue(c.records[k], val)
           /\ \A x \in DOMAIN c.constants : val[c.constants[x]] = x
<1>1. DOMAIN c.gates = 1 .. Len(c.gates) /\ DOMAIN c.records = 1 .. Len(c.records)
  BY DEF Built, Circuits
<1>2. \A k \in DOMAIN c.gates : d.gates[k] = c.gates[k] /\ k \in DOMAIN d.gates
  <2>1. \A k \in 1 .. Len(c.gates) : d.gates[k] = c.gates[k]
    BY DEF FinalizedAs
  <2>2. \A k \in 1 .. Len(c.gates) + Len(c.records) + 1 : k \in DOMAIN d.gates
    BY TaggedAre
  <2>3. Len(c.gates) \in Nat /\ Len(c.records) \in Nat
    BY SomeRecord, FieldsOfCircuit DEF Built
  <2>4. \A k \in 1 .. Len(c.gates) : k \in 1 .. Len(c.gates) + Len(c.records) + 1
    <3>1. PICK a \in Nat, b \in Nat : a = Len(c.gates) /\ b = Len(c.records)
      BY <2>3
    <3>2. \A k \in 1 .. a : k \in 1 .. a + b + 1
      OBVIOUS
    <3> QED BY <3>1, <3>2
  <2> QED BY <1>1, <2>1, <2>2, <2>4
<1>3. ASSUME NEW k \in DOMAIN c.records
      PROVE  fourth[c.records[k].gate] = AccessValue(c.records[k], val)
  <2>1. PICK r, g : r = c.records[k] /\ g = c.gates[r.gate]
    OBVIOUS
  <2>2. /\ r.gate \in DOMAIN c.gates /\ g.type = AccessGate(c, r.access)
        /\ g.w[1] = r.w[1] /\ g.w[2] = r.w[2] /\ g.w[3] = r.w[3]
        /\ c.kind = "ROM" => r.access = "READ"
    BY <2>1 DEF Built, RecordsFit, RecordFits
  <2>3. r.access \in {"READ", "WRITE"}
    <3>1. PICK R : /\ R = [w : Seq(Nat), index : Int, timestamp : Int, access : {"READ", "WRITE"},
                           record_witness : Nat, gate : Nat]
                   /\ c.records \in Seq(R)
      BY DEF Built, Circuits
    <3>2. \A s : s \in Seq(R) => \A j \in DOMAIN s : s[j] \in R
      OBVIOUS
    <3>3. r \in R
      BY <2>1, <3>1, <3>2
    <3> QED BY <3>1, <3>3
  <2>4. GateHolds(d, r.gate, val, fourth) /\ d.gates[r.gate] = g
    BY <1>2, <2>1, <2>2 DEF GatesHold
  <2>5. CASE r.access = "WRITE"
    <3>1. g.type = "RAM_WRITE"
      BY <2>2, <2>5 DEF AccessGate
    <3>2. fourth[r.gate] = RecordValue(g, val, 1)
      BY <2>4, <3>1 DEF GateHolds
    <3> QED BY <2>1, <2>2, <2>5, <3>2 DEF AccessValue, RecordValue
  <2>6. CASE r.access = "READ"
    <3>1. g.type \in {"ROM_READ", "RAM_READ"}
      BY <2>2, <2>6 DEF AccessGate
    <3>2. fourth[r.gate] = RecordValue(g, val, 0)
      BY <2>4, <3>1 DEF GateHolds
    <3> QED BY <2>1, <2>2, <2>6, <3>2 DEF AccessValue, RecordValue
  <2> QED BY <2>3, <2>5, <2>6
<1>4. ASSUME NEW x \in DOMAIN c.constants PROVE val[c.constants[x]] = x
  <2>1. PICK k \in DOMAIN c.gates : c.gates[k].type = "FIX" /\ c.gates[k].w[1] = c.constants[x] /\ c.gates[k].c = x
    BY DEF Built, ConstantsFixed
  <2>2. GateHolds(d, k, val, fourth) /\ d.gates[k] = c.gates[k]
    BY <1>2, <2>1 DEF GatesHold
  <2> QED BY <2>1, <2>2 DEF GateHolds
<1> QED BY <1>3, <1>4

\* Every access is a row of the second list, and every row is an access.
ListsAgree(c, val, fourth) ==
    /\ \A m \in 1 .. Len(c.records) : \E k \in 1 .. Len(c.records) :
          fourth[Len(c.gates) + k] = AccessValue(c.records[m], val)
    /\ \A k \in 1 .. Len(c.records) : \E m \in 1 .. Len(c.records) :
          fourth[Len(c.gates) + k] = AccessValue(c.records[m], val)

LEMMA ListIsOfAccesses ==
    ASSUME NEW c, Built(c), AllSet(c), NEW d, FinalizedAs(d, c),
           NEW val, NEW fourth, Satisfied(d, val, fourth)
    PROVE  ListsAgree(c, val, fourth)
<1> DEFINE n == Len(c.records)
           l == Len(c.gates)
<1>1. n \in Nat /\ l \in Nat /\ DOMAIN c.records = 1 .. n
  BY SomeRecord, FieldsOfCircuit DEF Built
<1>2. /\ TaggedRows(d, "access") = {c.records[k].gate : k \in 1 .. n}
      /\ TaggedRows(d, "sorted") = l + 1 .. l + n
      /\ IsFiniteSet(DOMAIN d.gates)
  BY TaggedAre
<1>3. /\ \A k \in TaggedRows(d, "access") : \E j \in TaggedRows(d, "sorted") : fourth[j] = fourth[k]
      /\ \A k \in TaggedRows(d, "sorted") : \E j \in TaggedRows(d, "access") : fourth[j] = fourth[k]
  BY <1>2, RowsMatch DEF Satisfied
<1>4. \A k \in 1 .. n : fourth[c.records[k].gate] = AccessValue(c.records[k], val)
  BY <1>1, AccessesHold DEF Satisfied
<1> HIDE DEF n, l
<1>5. /\ \A k \in 1 .. n : l + k \in l + 1 .. l + n
      /\ \A j \in l + 1 .. l + n : j - l \in 1 .. n /\ l + (j - l) = j
  BY <1>1
<1>6. ASSUME NEW m \in 1 .. n PROVE \E k \in 1 .. n : fourth[l + k] = AccessValue(c.records[m], val)
  <2>1. PICK j \in l + 1 .. l + n : fourth[j] = fourth[c.records[m].gate]
    BY <1>2, <1>3
  <2> QED BY <1>4, <1>5, <2>1
<1>7. ASSUME NEW k \in 1 .. n PROVE \E m \in 1 .. n : fourth[l + k] = AccessValue(c.records[m], val)
  <2>1. PICK j \in TaggedRows(d, "access") : fourth[j] = fourth[l + k]
    BY <1>2, <1>3, <1>5
  <2>2. PICK m \in 1 .. n : j = c.records[m].gate
    BY <1>2, <2>1
  <2> QED BY <1>4, <2>1, <2>2
<1> QED BY <1>6, <1>7 DEF n, l, ListsAgree

\* Neighbouring indices, below the modulus, that differ by at most one in the field.
LEMMA NeighbouringIndices ==
    ASSUME NEW a \in Cells, NEW b \in 0 .. ArraySize, (b -- a) \in {0, 1}
    PROVE  /\ b = a \/ b = a + 1
           /\ b = a <=> (b -- a) # 1
<1>1. a \in Nat /\ b \in Nat /\ a < ArraySize /\ b <= ArraySize /\ ArraySize < Modulus /\ Modulus \in Nat /\ Modulus > 1
      /\ ArraySize \in Nat
  BY SizeOfArray DEF Cells
<1>2. PICK x, M : /\ x = b - a /\ M = Modulus
                  /\ x \in Int /\ M \in Nat /\ x < M /\ 1 - M < x /\ M > 1
  <2>1. b - a \in Int /\ b - a < Modulus /\ 1 - Modulus < b - a
    BY <1>1
  <2> QED BY <1>1, <2>1
<1>3. x % M \in {0, 1}
  BY <1>2 DEF --
<1>4. CASE x >= 0
  <2>1. x % M = x
    BY <1>2, <1>4
  <2> QED BY <1>1, <1>2, <1>3, <2>1 DEF --
<1>5. CASE x < 0
  <2>1. x % M = x + M
    <3>1. x = M * (-1) + (x + M) /\ x + M \in 0 .. M - 1
      BY <1>2, <1>5
    <3> QED BY <1>2, <3>1
  <2> QED BY <1>2, <1>3, <1>5, <2>1
<1> QED BY <1>2, <1>4, <1>5

\* Rows whose indices stay or climb by one, and whose records stay with them.
ClimbsByOne(n, x, r) ==
    /\ \A k \in 1 .. n : x[k] \in Int
    /\ \A k \in 1 .. n - 1 : (x[k + 1] = x[k] /\ r[k + 1] = r[k]) \/ x[k + 1] = x[k] + 1

Ascends(n, x, r) ==
    \A j, k \in 1 .. n : j <= k => x[j] <= x[k] /\ (x[j] = x[k] => r[j] = r[k])

LEMMA ClimbingRows ==
    ASSUME NEW n \in Nat, NEW x, NEW r, ClimbsByOne(n, x, r)
    PROVE  Ascends(n, x, r)
<1> USE DEF ClimbsByOne, Ascends
<1> DEFINE Below(k) == \A j \in 1 .. n : j <= k => x[j] <= x[k] /\ (x[j] = x[k] => r[j] = r[k])
           S == {k \in Nat : k \in 1 .. n => Below(k)}
<1>1. 0 \in S
  OBVIOUS
<1>2. ASSUME NEW k \in Nat, k \in S PROVE k + 1 \in S
  <2> SUFFICES ASSUME k + 1 \in 1 .. n, NEW j \in 1 .. n, j <= k + 1
               PROVE  x[j] <= x[k + 1] /\ (x[j] = x[k + 1] => r[j] = r[k + 1])
    OBVIOUS
  <2>1. CASE j = k + 1
    BY <2>1
  <2>2. CASE j # k + 1
    <3>1. k \in 1 .. n - 1 /\ k \in 1 .. n /\ j <= k
      BY <2>2
    <3>2. x[j] <= x[k] /\ (x[j] = x[k] => r[j] = r[k])
      BY <1>2, <3>1
    <3>3. (x[k + 1] = x[k] /\ r[k + 1] = r[k]) \/ x[k + 1] = x[k] + 1
      BY <3>1
    <3>4. x[j] \in Int /\ x[k] \in Int
      BY <3>1
    <3> QED BY <3>2, <3>3, <3>4
  <2> QED BY <2>1, <2>2
<1> HIDE DEF S
<1>3. Nat \subseteq S
  BY <1>1, <1>2, InductionOverSet
<1> QED BY <1>3 DEF S

LEMMA AccessParts ==
    ASSUME NEW r, NEW val
    PROVE  /\ AccessValue(r, val)[1] = val[r.w[1]] /\ AccessValue(r, val)[2] = val[r.w[2]]
           /\ AccessValue(r, val)[3] = val[r.w[3]]
           /\ AccessValue(r, val)[4] = IF r.access = "WRITE" THEN 1 ELSE 0
BY DEF AccessValue

LEMMA CellNumbers ==
    ASSUME NEW i \in Cells PROVE i \in Nat /\ i \in Int /\ i \in 0 .. ArraySize
BY SizeOfArray DEF Cells

\* Rows of the second list whose records carry one index.
LEMMA RowsOfROM ==
    ASSUME NEW c, Built(c), AllSet(c), c.kind = "ROM", NEW d, FinalizedAs(d, c),
           NEW val, NEW fourth, Satisfied(d, val, fourth), IndicesAreCells(d, val),
           NEW j \in 1 .. Len(c.records), NEW k \in 1 .. Len(c.records),
           AccessValue(c.records[j], val)[1] = AccessValue(c.records[k], val)[1]
    PROVE  AccessValue(c.records[j], val) = AccessValue(c.records[k], val)
<1> DEFINE n == Len(c.records)
           l == Len(c.gates)
           x == [m \in 1 .. n |-> val[d.gates[l + m].w[1]]]
           r == [m \in 1 .. n |-> fourth[l + m]]
<1>1. n \in Nat /\ l \in Nat /\ DOMAIN c.records = 1 .. n
  BY SomeRecord, FieldsOfCircuit DEF Built
<1>2. /\ \A m \in 1 .. n : \E p \in 1 .. n : fourth[l + p] = AccessValue(c.records[m], val)
      /\ \A p \in 1 .. n : \E m \in 1 .. n : fourth[l + p] = AccessValue(c.records[m], val)
  <2>1. ListsAgree(c, val, fourth)
    BY ListIsOfAccesses
  <2> QED BY <2>1, Zenon DEF ListsAgree
<1>3. \A m \in 1 .. n : val[c.records[m].w[1]] \in Cells
  BY <1>1 DEF IndicesAreCells, FinalizedAs
<1>4. \A p \in 1 .. n : d.gates[l + p].type = "ROM_CHECK"
  BY DEF FinalizedAs
<1>5. \A p \in 1 .. l + n + 1 : p \in DOMAIN d.gates
  BY TaggedAre
<1> HIDE DEF n, l
<1>6. \A p \in 1 .. n : l + p \in 1 .. l + n + 1 /\ (l + p) + 1 = l + (p + 1)
  BY <1>1
<1>7. ASSUME NEW p \in 1 .. n
      PROVE  RomConsistent(d.gates[l + p], fourth[l + p], d.gates[l + (p + 1)], fourth[l + (p + 1)], val)
  <2>1. GateHolds(d, l + p, val, fourth)
    BY <1>5, <1>6 DEF Satisfied, GatesHold
  <2>2. d.gates[l + p].type = "ROM_CHECK" /\ (l + p) + 1 = l + (p + 1)
    BY <1>4, <1>6
  <2> QED BY <2>1, <2>2 DEF GateHolds
<1>8. ASSUME NEW p \in 1 .. n
      PROVE  x[p] = r[p][1] /\ x[p] \in Cells
  <2>1. r[p] = RecordValue(d.gates[l + p], val, 0)
    BY <1>7 DEF RomConsistent
  <2>2. x[p] = r[p][1]
    BY <2>1 DEF RecordValue
  <2>3. PICK m \in 1 .. n : r[p] = AccessValue(c.records[m], val)
    BY <1>2
  <2>4. r[p][1] = val[c.records[m].w[1]]
    BY <2>3, AccessParts
  <2> QED BY <1>3, <2>2, <2>4
<1>9. ASSUME NEW p \in 1 .. n - 1
      PROVE  (x[p + 1] = x[p] /\ r[p + 1] = r[p]) \/ x[p + 1] = x[p] + 1
  <2>1. p \in 1 .. n /\ p + 1 \in 1 .. n
    BY <1>1
  <2>2. PICK a, b : a = x[p] /\ b = x[p + 1]
    OBVIOUS
  <2>3. a \in Cells /\ b \in Cells /\ b \in 0 .. ArraySize
    BY <1>8, <2>1, <2>2, CellNumbers
  <2>4. (b -- a) \in {0, 1} /\ ((b -- a) # 1 => r[p + 1] = r[p])
    BY <1>7, <2>1, <2>2 DEF RomConsistent
  <2>5. /\ b = a \/ b = a + 1
        /\ b = a => (b -- a) # 1
    BY <2>3, <2>4, NeighbouringIndices
  <2>6. CASE b = a
    BY <2>2, <2>4, <2>5, <2>6
  <2>7. CASE b = a + 1
    BY <2>2, <2>7
  <2> QED BY <2>5, <2>6, <2>7
<1>10. \A p \in 1 .. n : x[p] \in Int
  BY <1>8, CellNumbers
<1> HIDE DEF x, r
<1>11. \A p, q \in 1 .. n : p <= q => x[p] <= x[q] /\ (x[p] = x[q] => r[p] = r[q])
  <2>1. ClimbsByOne(n, x, r)
    BY <1>9, <1>10 DEF ClimbsByOne
  <2>2. Ascends(n, x, r)
    BY <1>1, <2>1, ClimbingRows
  <2> QED BY <2>2 DEF Ascends
<1>12. PICK p \in 1 .. n, q \in 1 .. n :
          r[p] = AccessValue(c.records[j], val) /\ r[q] = AccessValue(c.records[k], val)
  BY <1>2 DEF n, r
<1>13. x[p] = x[q]
  BY <1>8, <1>12
<1>14. p <= q \/ q <= p
  BY <1>1
<1> QED BY <1>11, <1>12, <1>13, <1>14

\* In every witness of a finalised ROM circuit, with indices of cells, an access has the values of its cell.
THEOREM RomIsSound ==
    ASSUME NEW c, Built(c), AllSet(c), c.kind = "ROM", NEW d, FinalizedAs(d, c),
           NEW val, NEW fourth, Satisfied(d, val, fourth), IndicesAreCells(d, val)
    PROVE  ReadsTheCell(d, val)
<1>1. d.records = c.records /\ d.state = c.state /\ DOMAIN c.records = 1 .. Len(c.records)
  BY SomeRecord DEF FinalizedAs
<1> SUFFICES ASSUME NEW m \in 1 .. Len(c.records)
             PROVE  AgreesWithCell(d, val, c.records[m], val[c.records[m].w[1]])
  BY <1>1 DEF ReadsTheCell
<1>2. PICK i \in Cells : i = val[c.records[m].w[1]]
  BY <1>1 DEF IndicesAreCells
<1>3. PICK k \in 1 .. Len(c.records) : i \in DOMAIN c.constants /\ SetBy(c, i, k)
  BY <1>1 DEF AllSet, Built, CellsHeld
<1>4. val[c.constants[i]] = i
  BY <1>3, AccessesHold DEF Satisfied
<1>5. c.records[k].w[1] = c.constants[i] /\ c.records[k].w[2] = c.state[i][1] /\ c.records[k].w[3] = c.state[i][2]
  BY <1>3 DEF SetBy
<1>6. AccessValue(c.records[k], val)[1] = AccessValue(c.records[m], val)[1]
  <2>1. /\ AccessValue(c.records[k], val)[1] = val[c.records[k].w[1]]
        /\ AccessValue(c.records[m], val)[1] = val[c.records[m].w[1]]
    BY AccessParts
  <2>2. val[c.records[k].w[1]] = val[c.records[m].w[1]]
    BY <1>2, <1>4, <1>5, Zenon
  <2> QED BY <2>1, <2>2, Zenon
<1>7. AccessValue(c.records[k], val) = AccessValue(c.records[m], val)
  BY <1>6, RowsOfROM
<1>8. /\ val[c.records[k].w[2]] = val[c.records[m].w[2]]
      /\ val[c.records[k].w[3]] = val[c.records[m].w[3]]
  BY <1>7, AccessParts, SMTT(60)
<1> QED BY <1>1, <1>2, <1>5, <1>8 DEF AgreesWithCell

\* The assignments of the run give a free variable the index they choose for it.
LEMMA FreeIsAssigned ==
    ASSUME NEW c, NEW d, FinalizedAs(d, c), NEW a, NEW p, NEW v \in DOMAIN a, v \in 1 .. NumVariables(c),
           NumVariables(c) \in Nat
    PROVE  AssignedValues(d, Layout(d), a, p)[v] = a[v]
<1>1. v \in DOMAIN d.variables
  BY DEF FinalizedAs
<1>2. PICK at : at = Layout(d)
  OBVIOUS
<1>3. v \notin DOMAIN at.delta
  <2> DEFINE deltas == {k \in DOMAIN d.gates : d.gates[k].type = "TIMESTAMP"}
  <2>1. DOMAIN at.delta = {d.gates[k].w[3] : k \in deltas}
    BY <1>2 DEF Layout
  <2>a. \A k \in DOMAIN d.gates : d.gates[k].type = "TIMESTAMP" => d.gates[k].w[3] > NumVariables(c)
    BY DEF FinalizedAs
  <2>2. \A k \in deltas : d.gates[k].w[3] > NumVariables(c)
    BY <2>a
  <2>3. \A k \in deltas : d.gates[k].w[3] # v
    BY <2>2
  <2> QED BY <2>1, <2>3
<1>4. AssignedValues(d, at, a, p)[v] = a[v]
  <2> DEFINE base == [u \in DOMAIN d.variables |-> IF u \in DOMAIN a THEN a[u] ELSE d.variables[u]]
             val  == [u \in DOMAIN base |->
                         IF u \in DOMAIN a \/ u \notin DOMAIN at.wire THEN base[u]
                         ELSE base[d.records[p[at.place[at.wire[u][1]]]].w[at.wire[u][2]]]]
  <2>1. AssignedValues(d, at, a, p) =
          [u \in DOMAIN base |->
              IF u \in DOMAIN at.delta THEN TimePassed(d.gates[at.delta[u]], d.gates[at.delta[u] + 1], val)
              ELSE val[u]]
    BY DEF AssignedValues
  <2>2. v \in DOMAIN base /\ base[v] = a[v]
    BY <1>1
  <2> HIDE DEF base
  <2>3. val[v] = a[v]
    BY <2>2
  <2> HIDE DEF val
  <2> QED BY <1>3, <2>1, <2>2, <2>3
<1> QED BY <1>2, <1>4

\* A variable of a record that is not free is a constant.
LEMMA NotFreeIsConstant ==
    ASSUME NEW c, NEW k \in DOMAIN c.records, NEW v, v = c.records[k].w[1], v \notin FreeVariables(c)
    PROVE  \E x \in DOMAIN c.constants : v = c.constants[x]
<1> DEFINE recorded == {c.records[q].w[j] : q \in DOMAIN c.records, j \in 1 .. 3}
           constant == {c.constants[x] : x \in DOMAIN c.constants}
<1>1. v \in recorded
  OBVIOUS
<1>2. FreeVariables(c) = recorded \ constant
  BY DEF FreeVariables
<1>3. v \in constant
  <2> HIDE DEF recorded, constant
  <2> QED BY <1>1, <1>2
<1> QED BY <1>3

\* A free index is in a cell by that, and the others are constants.
LEMMA IndicesAssigned ==
    ASSUME NEW c, Built(c), AllSet(c), NEW d, FinalizedAs(d, c), NEW x \in Assignments(d),
           NEW val, val = AssignedValues(d, Layout(d), x[2], x[1]), NEW fourth, GatesHold(d, val, fourth)
    PROVE  IndicesAreCells(d, val)
<1>1. d.records = c.records /\ d.constants = c.constants
  BY DEF FinalizedAs
<1> SUFFICES ASSUME NEW k \in DOMAIN c.records PROVE val[c.records[k].w[1]] \in Cells
  BY <1>1 DEF IndicesAreCells
<1>2. PICK v : v = c.records[k].w[1]
  OBVIOUS
<1>3. v \in 1 .. NumVariables(c) /\ IsIndex(c, v)
  <2>1. RecordFits(c, k)
    BY DEF Built, RecordsFit
  <2>2. (\A j \in 1 .. 3 : c.records[k].w[j] \in 1 .. NumVariables(c)) /\ IsIndex(c, c.records[k].w[1])
    BY <2>1 DEF RecordFits
  <2>3. c.records[k].w[1] \in 1 .. NumVariables(c)
    BY <2>2
  <2> QED BY <1>2, <2>2, <2>3
<1>4. NumVariables(c) \in Nat
  BY FieldsOfCircuit DEF Built
<1>5. CASE v \in FreeVariables(d)
  <2>1. PICK a : a = x[2] /\ a \in [FreeVariables(d) -> Cells]
    BY DEF Assignments
  <2>2. v \in DOMAIN a /\ a[v] \in Cells
    BY <1>5, <2>1
  <2>3. val[v] = a[v]
    BY <1>3, <1>4, <2>1, <2>2, FreeIsAssigned
  <2> QED BY <1>2, <2>2, <2>3
<1>6. CASE v \notin FreeVariables(d)
  <2>1. PICK y \in DOMAIN c.constants : v = c.constants[y]
    BY <1>1, <1>2, <1>6, NotFreeIsConstant
  <2>2. val[v] = y
    BY <2>1, AccessesHold
  <2>3. CASE v \in IndexVariables
    <3>1. v <= NumProgram
      BY <2>3, SizeOfArray DEF IndexVariables, NumProgram, zero_idx
    <3>2. y = 0
      BY <1>3, <1>4, <2>1, <3>1, SizeOfArray DEF Built, ConstantsFixed
    <3> QED BY <1>2, <2>2, <3>2, SizeOfArray
  <2>4. CASE \E i \in Cells \cap DOMAIN c.constants : v = c.constants[i]
    <3>1. PICK i \in Cells : i \in DOMAIN c.constants /\ v = c.constants[i]
      BY <2>4
    <3>2. val[v] = i
      BY <3>1, AccessesHold
    <3> QED BY <1>2, <3>1, <3>2
  <2> QED BY <1>3, <2>3, <2>4 DEF IsIndex
<1> QED BY <1>5, <1>6

LEMMA FinalizedIs ==
    ASSUME ArraysInv, NEW kind, Finalized(kind)
    PROVE  \E c : Built(c) /\ AllSet(c) /\ FinalizedAs(circuit, c) /\ c.kind = kind
<1>1. PICK c : Built(c) /\ AllSet(c) /\ \E sorted \in Orders(c) : circuit = Processed(c, sorted)
  BY DEF ArraysInv, Finalized, Sortings
<1>2. FinalizedAs(circuit, c)
  BY <1>1, ProcessedIs
<1>3. c.kind = kind
  BY <1>2 DEF FinalizedAs, Finalized
<1> QED BY <1>1, <1>2, <1>3

\* In every satisfying assignment a read of a ROM array returns the values of its cell.
THEOREM RomArraysAreSound == MemSpec => []RomReadsTheCell
<1>1. ArraysInv => RomReadsTheCell
  <2> SUFFICES ASSUME ArraysInv, Finalized("ROM"), NEW x \in Assignments(circuit)
               PROVE  LET val    == AssignedValues(circuit, Layout(circuit), x[2], x[1])
                          fourth == AssignedFourth(circuit, Layout(circuit), val, x[1])
                      IN  Satisfied(circuit, val, fourth) => ReadsTheCell(circuit, val)
    BY DEF RomReadsTheCell
  <2>1. PICK val : val = AssignedValues(circuit, Layout(circuit), x[2], x[1])
    OBVIOUS
  <2>2. PICK fourth : fourth = AssignedFourth(circuit, Layout(circuit), val, x[1])
    OBVIOUS
  <2> SUFFICES ASSUME Satisfied(circuit, val, fourth) PROVE ReadsTheCell(circuit, val)
    BY <2>1, <2>2
  <2>3. PICK c : Built(c) /\ AllSet(c) /\ FinalizedAs(circuit, c) /\ c.kind = "ROM"
    BY FinalizedIs
  <2>4. IndicesAreCells(circuit, val)
    BY <2>1, <2>3, IndicesAssigned DEF Satisfied
  <2> QED BY <2>3, <2>4, RomIsSound
<1> QED BY <1>1, ArraysInvariant, PTL

\* The records of a RAM array in the order of the second list.
RowsInOrder(c, val, rec) ==
    LET n    == Len(c.records)
        X(m) == val[c.records[m].w[1]]
        Y(m) == val[c.records[m].w[3]]
    IN  /\ rec \in [1 .. n -> 1 .. n]
        /\ \A m \in 1 .. n : \E k \in 1 .. n : rec[k] = m
        /\ \A k \in 1 .. n - 1 : X(rec[k + 1]) = X(rec[k]) \/ X(rec[k + 1]) = X(rec[k]) + 1
        /\ \A k \in 1 .. n - 1 :
              X(rec[k + 1]) = X(rec[k]) /\ c.records[rec[k + 1]].access = "READ" => Y(rec[k]) = Y(rec[k + 1])
        /\ \A j, k \in 1 .. n : j < k /\ X(rec[j]) = X(rec[k]) => rec[j] < rec[k]

\* The row k of the second list holds record m.
RowHolds(c, d, val, fourth, k, m) ==
    LET g == d.gates[Len(c.gates) + k]
    IN  /\ val[g.w[1]] = val[c.records[m].w[1]]
        /\ val[g.w[2]] = m - 1
        /\ val[g.w[3]] = val[c.records[m].w[3]]
        /\ c.records[m].access = "READ" => fourth[Len(c.gates) + k] = RecordValue(g, val, 0)

\* The identities of the rows of a RAM array.
LEMMA RowsOfRAM ==
    ASSUME NEW c, Built(c), AllSet(c), c.kind = "RAM", NEW d, FinalizedAs(d, c),
           NEW val, NEW fourth, GatesHold(d, val, fourth),
           NEW k \in 1 .. Len(c.records) - 1
    PROVE  RamConsistent(d.gates[Len(c.gates) + k], fourth[Len(c.gates) + k],
                         d.gates[Len(c.gates) + (k + 1)], fourth[Len(c.gates) + (k + 1)], val)
<1>1. PICK n \in Nat, l \in Nat : n = Len(c.records) /\ l = Len(c.gates)
  BY SomeRecord, FieldsOfCircuit DEF Built
<1>2. \A p \in 1 .. l + n + 1 : p \in DOMAIN d.gates
  BY <1>1, TaggedAre
<1>3. k \in 1 .. n /\ k < n /\ l + k \in 1 .. l + n + 1 /\ (l + k) + 1 = l + (k + 1)
  <2>1. k \in 1 .. n - 1
    BY <1>1
  <2> QED BY <2>1
<1>4. d.gates[l + k].type = "RAM_CHECK"
  BY <1>1, <1>3 DEF FinalizedAs
<1>5. GateHolds(d, l + k, val, fourth)
  BY <1>2, <1>3 DEF GatesHold
<1> QED BY <1>1, <1>3, <1>4, <1>5 DEF GateHolds

LEMMA RowsHoldRecords ==
    ASSUME NEW c, Built(c), AllSet(c), c.kind = "RAM", NEW d, FinalizedAs(d, c),
           NEW val, NEW fourth, Satisfied(d, val, fourth),
           Len(c.records) >= 2, NEW k \in 1 .. Len(c.records), NEW m \in 1 .. Len(c.records),
           fourth[Len(c.gates) + k] = AccessValue(c.records[m], val)
    PROVE  RowHolds(c, d, val, fourth, k, m)
<1>1. PICK n \in Nat, l \in Nat : n = Len(c.records) /\ l = Len(c.gates) /\ DOMAIN c.records = 1 .. n
  BY SomeRecord, FieldsOfCircuit DEF Built
<1>2. PICK g, r : g = d.gates[l + k] /\ r = fourth[l + k]
  OBVIOUS
<1>3. r = RecordValue(g, val, 0) \/ r = RecordValue(g, val, 1)
  <2>1. CASE k < n
    <3>1. k \in 1 .. n - 1
      BY <1>1, <2>1
    <3>2. RamConsistent(d.gates[l + k], fourth[l + k], d.gates[l + (k + 1)], fourth[l + (k + 1)], val)
      BY <1>1, <3>1, RowsOfRAM DEF Satisfied
    <3> QED BY <1>2, <3>2 DEF RamConsistent
  <2>2. CASE ~ (k < n)
    <3>1. k = n /\ n - 1 \in 1 .. n - 1 /\ (n - 1) + 1 = k
      BY <1>1, <2>2
    <3>2. RamConsistent(d.gates[l + (n - 1)], fourth[l + (n - 1)], d.gates[l + ((n - 1) + 1)], fourth[l + ((n - 1) + 1)], val)
      BY <1>1, <3>1, RowsOfRAM DEF Satisfied
    <3>3. d.gates[l + ((n - 1) + 1)] = g /\ fourth[l + ((n - 1) + 1)] = r
      BY <1>2, <3>1
    <3> QED BY <3>2, <3>3 DEF RamConsistent
  <2> QED BY <2>1, <2>2
<1>4. /\ r[1] = val[c.records[m].w[1]] /\ r[2] = val[c.records[m].w[2]] /\ r[3] = val[c.records[m].w[3]]
      /\ r[4] = IF c.records[m].access = "WRITE" THEN 1 ELSE 0
  BY <1>1, <1>2, AccessParts
<1>5. r[1] = val[g.w[1]] /\ r[2] = val[g.w[2]] /\ r[3] = val[g.w[3]]
  BY <1>3 DEF RecordValue
<1>6. val[c.records[m].w[2]] = m - 1
  <2>1. /\ c.records[m].timestamp = m - 1 /\ c.records[m].timestamp \in DOMAIN c.constants
        /\ c.records[m].w[2] = c.constants[c.records[m].timestamp]
    BY <1>1 DEF Built, RecordsFit, RecordFits
  <2> QED BY <2>1, AccessesHold DEF Satisfied
<1>7. ASSUME c.records[m].access = "READ" PROVE r = RecordValue(g, val, 0)
  <2>1. r[4] = 0
    BY <1>4, <1>7
  <2>2. RecordValue(g, val, 1)[4] = 1
    BY DEF RecordValue
  <2> QED BY <1>3, <2>1, <2>2
<1> QED BY <1>1, <1>2, <1>4, <1>5, <1>6, <1>7 DEF RowHolds

LEMMA RecordsInOrder ==
    ASSUME NEW c, Built(c), AllSet(c), c.kind = "RAM", NEW d, FinalizedAs(d, c),
           NEW val, NEW fourth, Satisfied(d, val, fourth), IndicesAreCells(d, val), InTimeOrder(d, val),
           Len(c.records) >= 2
    PROVE  \E rec : RowsInOrder(c, val, rec)
<1>1. PICK n \in Nat, l \in Nat : n = Len(c.records) /\ l = Len(c.gates) /\ DOMAIN c.records = 1 .. n
  BY SomeRecord, FieldsOfCircuit DEF Built
<1>2. /\ \A m \in 1 .. n : \E k \in 1 .. n : fourth[l + k] = AccessValue(c.records[m], val)
      /\ \A k \in 1 .. n : \E m \in 1 .. n : fourth[l + k] = AccessValue(c.records[m], val)
  <2>1. ListsAgree(c, val, fourth)
    BY ListIsOfAccesses
  <2> QED BY <1>1, <2>1 DEF ListsAgree
<1>3. \A k, m \in 1 .. n : fourth[l + k] = AccessValue(c.records[m], val) => RowHolds(c, d, val, fourth, k, m)
  BY <1>1, RowsHoldRecords
<1> DEFINE rec == [k \in 1 .. n |-> CHOOSE m \in 1 .. n : fourth[l + k] = AccessValue(c.records[m], val)]
           X(m) == val[c.records[m].w[1]]
           Y(m) == val[c.records[m].w[3]]
           g(k) == d.gates[l + k]
<1>4. ASSUME NEW k \in 1 .. n
      PROVE  rec[k] \in 1 .. n /\ RowHolds(c, d, val, fourth, k, rec[k])
  <2>1. \E m \in 1 .. n : fourth[l + k] = AccessValue(c.records[m], val)
    BY <1>2
  <2>2. rec[k] = CHOOSE m \in 1 .. n : fourth[l + k] = AccessValue(c.records[m], val)
    OBVIOUS
  <2>3. rec[k] \in 1 .. n /\ fourth[l + k] = AccessValue(c.records[rec[k]], val)
    BY <2>1, <2>2, Zenon
  <2> QED BY <1>3, <2>3
<1>5. rec \in [1 .. n -> 1 .. n]
  BY <1>4
<1> HIDE DEF rec
<1>6. ASSUME NEW m \in 1 .. n PROVE \E k \in 1 .. n : rec[k] = m
  <2>1. PICK k \in 1 .. n : fourth[l + k] = AccessValue(c.records[m], val)
    BY <1>2
  <2>2. val[g(k).w[2]] = m - 1
    BY <1>1, <1>3, <2>1 DEF RowHolds
  <2>3. val[g(k).w[2]] = rec[k] - 1 /\ rec[k] \in 1 .. n
    BY <1>1, <1>4 DEF RowHolds
  <2>4. m = rec[k]
    BY <2>2, <2>3
  <2> QED BY <2>4
<1>7. \A m \in 1 .. n : X(m) \in Cells
  BY <1>1 DEF IndicesAreCells, FinalizedAs
<1>8. ASSUME NEW k \in 1 .. n - 1
      PROVE  /\ X(rec[k + 1]) = X(rec[k]) \/ X(rec[k + 1]) = X(rec[k]) + 1
             /\ X(rec[k + 1]) = X(rec[k]) /\ c.records[rec[k + 1]].access = "READ" => Y(rec[k]) = Y(rec[k + 1])
  <2>1. k \in 1 .. n /\ k + 1 \in 1 .. n
    OBVIOUS
  <2>2. RamConsistent(g(k), fourth[l + k], g(k + 1), fourth[l + (k + 1)], val)
    BY <1>1, RowsOfRAM DEF Satisfied
  <2>3. PICK a, b : a = X(rec[k]) /\ b = X(rec[k + 1])
    OBVIOUS
  <2>4. a = val[g(k).w[1]] /\ Y(rec[k]) = val[g(k).w[3]]
    BY <1>1, <1>4, <2>1, <2>3 DEF RowHolds
  <2>5. /\ b = val[g(k + 1).w[1]] /\ Y(rec[k + 1]) = val[g(k + 1).w[3]]
        /\ c.records[rec[k + 1]].access = "READ" => fourth[l + (k + 1)] = RecordValue(g(k + 1), val, 0)
    BY <1>1, <1>4, <2>1, <2>3 DEF RowHolds
  <2>6. a \in Cells /\ b \in Cells /\ b \in 0 .. ArraySize
    BY <1>4, <1>7, <2>1, <2>3, CellNumbers
  <2> HIDE DEF X, Y, g
  <2>7. /\ (b -- a) \in {0, 1}
        /\ (b -- a) # 1 /\ fourth[l + (k + 1)] = RecordValue(g(k + 1), val, 0)
              => val[g(k).w[3]] = val[g(k + 1).w[3]]
    BY <2>2, <2>4, <2>5 DEF RamConsistent
  <2>8. /\ b = a \/ b = a + 1
        /\ b = a => (b -- a) # 1
    BY <2>6, <2>7, NeighbouringIndices
  <2> QED BY <2>3, <2>4, <2>5, <2>7, <2>8
<1>9. ASSUME NEW j \in 1 .. n, NEW k \in 1 .. n, j < k, X(rec[j]) = X(rec[k]) PROVE rec[j] < rec[k]
  <2>1. TaggedRows(d, "sorted") = l + 1 .. l + n
    BY <1>1, TaggedAre
  <2>2. l + j \in l + 1 .. l + n /\ l + k \in l + 1 .. l + n /\ l + j < l + k
    <3>1. \A q \in 1 .. n : l + q \in l + 1 .. l + n
      OBVIOUS
    <3>2. l + j < l + k
      BY <1>9
    <3> QED BY <3>1, <3>2
  <2>3. /\ X(rec[j]) = val[g(j).w[1]] /\ rec[j] - 1 = val[g(j).w[2]]
        /\ X(rec[k]) = val[g(k).w[1]] /\ rec[k] - 1 = val[g(k).w[2]]
    BY <1>1, <1>4 DEF RowHolds
  <2>4. val[g(j).w[2]] < val[g(k).w[2]]
    BY <1>9, <2>1, <2>2, <2>3 DEF InTimeOrder
  <2>5. rec[j] \in 1 .. n /\ rec[k] \in 1 .. n
    BY <1>4
  <2> QED BY <2>3, <2>4, <2>5
<1> QED BY <1>1, <1>5, <1>6, <1>8, <1>9 DEF RowsInOrder

\* The indices are numbers, and a record is of a read or of a write.
RowsTyped(c, val) ==
    \A m \in 1 .. Len(c.records) : val[c.records[m].w[1]] \in Int /\ c.records[m].access \in {"READ", "WRITE"}

\* Record m is of a read, record s is of an access of its cell, and no record between them is of a
\* write to it.
NotWrittenSince(c, val, s, m) ==
    /\ c.records[m].access = "READ" /\ val[c.records[s].w[1]] = val[c.records[m].w[1]]
    /\ \A p \in s + 1 .. m - 1 :
          c.records[p].access = "WRITE" => val[c.records[p].w[1]] # val[c.records[m].w[1]]

\* A read carries the value of the last write to its cell.
LEMMA ValuesAreCarried ==
    ASSUME NEW c, NEW val, NEW rec, RowsInOrder(c, val, rec), Len(c.records) \in Nat, RowsTyped(c, val),
           NEW m \in 1 .. Len(c.records), NEW s \in 1 .. m - 1, NotWrittenSince(c, val, s, m)
    PROVE  val[c.records[s].w[3]] = val[c.records[m].w[3]]
<1>1. PICK n \in Nat : n = Len(c.records)
  OBVIOUS
<1> DEFINE X(q) == val[c.records[q].w[1]]
           Y(q) == val[c.records[q].w[3]]
<1>a. \A k \in 1 .. n : rec[k] \in 1 .. n
  <2>1. rec \in [1 .. n -> 1 .. n]
    BY <1>1 DEF RowsInOrder
  <2> QED BY <2>1
<1>b. \A q \in 1 .. n : \E k \in 1 .. n : rec[k] = q
  BY <1>1 DEF RowsInOrder
<1>c. \A k \in 1 .. n - 1 : X(rec[k + 1]) = X(rec[k]) \/ X(rec[k + 1]) = X(rec[k]) + 1
  <2>1. \A k \in 1 .. Len(c.records) - 1 : X(rec[k + 1]) = X(rec[k]) \/ X(rec[k + 1]) = X(rec[k]) + 1
    BY Zenon DEF RowsInOrder
  <2> QED BY <1>1, <2>1, Zenon
<1>d. \A k \in 1 .. n - 1 :
          X(rec[k + 1]) = X(rec[k]) /\ c.records[rec[k + 1]].access = "READ" => Y(rec[k]) = Y(rec[k + 1])
  <2>1. \A k \in 1 .. Len(c.records) - 1 :
            X(rec[k + 1]) = X(rec[k]) /\ c.records[rec[k + 1]].access = "READ" => Y(rec[k]) = Y(rec[k + 1])
    BY Zenon DEF RowsInOrder
  <2> QED BY <1>1, <2>1, Zenon
<1>e. \A j, k \in 1 .. n : j < k /\ X(rec[j]) = X(rec[k]) => rec[j] < rec[k]
  BY <1>1 DEF RowsInOrder
<1>3. /\ \A q \in 1 .. n : X(q) \in Int /\ c.records[q].access \in {"READ", "WRITE"}
      /\ m \in 1 .. n /\ s \in 1 .. n /\ s < m /\ X(s) = X(m)
  BY <1>1 DEF RowsTyped, NotWrittenSince
<1>4. c.records[m].access = "READ" /\ \A p \in s + 1 .. m - 1 : c.records[p].access = "WRITE" => X(p) # X(m)
  BY DEF NotWrittenSince
<1> HIDE DEF X, Y
<1>5. PICK ks \in 1 .. n, km \in 1 .. n : rec[ks] = s /\ rec[km] = m
  BY <1>b, <1>3
<1>6. ks < km
  <2>1. ~ (km < ks)
    <3>1. X(rec[km]) = X(rec[ks]) /\ ~ (rec[km] < rec[ks])
      BY <1>3, <1>5
    <3> QED BY <1>e, <3>1
  <2>2. km # ks
    BY <1>3, <1>5
  <2> QED BY <2>1, <2>2
<1>7. ASSUME NEW j \in 1 .. n, NEW k \in 1 .. n, j <= k PROVE X(rec[j]) <= X(rec[k])
  <2>1. PICK x, r : x = [q \in 1 .. n |-> X(rec[q])] /\ r = [q \in 1 .. n |-> 0]
    OBVIOUS
  <2>2. ClimbsByOne(n, x, r)
    <3>1. \A q \in 1 .. n : x[q] \in Int
      BY <1>a, <1>3, <2>1
    <3>2. \A q \in 1 .. n - 1 : q \in 1 .. n /\ q + 1 \in 1 .. n
      OBVIOUS
    <3>3. \A q \in 1 .. n - 1 : (x[q + 1] = x[q] /\ r[q + 1] = r[q]) \/ x[q + 1] = x[q] + 1
      BY <1>c, <2>1, <3>2
    <3> QED BY <3>1, <3>3 DEF ClimbsByOne
  <2>3. Ascends(n, x, r)
    BY <2>2, ClimbingRows
  <2> QED BY <1>7, <2>1, <2>3 DEF Ascends
<1> DEFINE S == {k \in Nat : ks <= k /\ k <= km => Y(rec[k]) = Y(s)}
<1>8. 0 \in S
  OBVIOUS
<1>9. ASSUME NEW k \in Nat, k \in S PROVE k + 1 \in S
  <2> SUFFICES ASSUME ks <= k + 1, k + 1 <= km PROVE Y(rec[k + 1]) = Y(s)
    OBVIOUS
  <2>1. CASE ks = k + 1
    BY <1>5, <2>1
  <2>2. CASE ks # k + 1
    <3>1. k \in 1 .. n - 1 /\ k \in 1 .. n /\ k + 1 \in 1 .. n /\ ks <= k /\ k <= km /\ ks < k + 1
      BY <2>2
    <3>2. Y(rec[k]) = Y(s)
      BY <1>9, <3>1
    <3>3. PICK p \in 1 .. n, q \in 1 .. n : p = rec[k] /\ q = rec[k + 1]
      BY <1>a, <3>1
    <3>4. X(s) <= X(p) /\ X(p) <= X(q) /\ X(q) <= X(m)
      <4>1. X(s) <= X(p)
        BY <1>5, <1>7, <3>1, <3>3
      <4>2. X(p) <= X(q)
        BY <1>7, <3>1, <3>3
      <4>3. X(q) <= X(m)
        BY <1>5, <1>7, <3>1, <3>3
      <4> QED BY <4>1, <4>2, <4>3
    <3>5. X(p) = X(m) /\ X(q) = X(m) /\ X(q) = X(s) /\ X(q) = X(p)
      BY <1>3, <3>4
    <3>6. s < q
      <4>1. X(rec[ks]) = X(rec[k + 1])
        BY <1>5, <3>3, <3>5
      <4> QED BY <1>e, <1>5, <3>1, <3>3, <4>1
    <3>7. q <= m
      <4>1. CASE k + 1 = km
        BY <1>5, <3>3, <4>1
      <4>2. CASE k + 1 < km
        <5>1. X(rec[k + 1]) = X(rec[km])
          BY <1>5, <3>3, <3>5
        <5>2. rec[k + 1] < rec[km]
          BY <1>e, <3>1, <4>2, <5>1
        <5> QED BY <1>3, <1>5, <3>3, <5>2
      <4> QED BY <4>1, <4>2
    <3>8. c.records[q].access = "READ"
      <4>1. CASE q = m
        BY <1>4, <4>1
      <4>2. CASE q # m
        <5>1. q \in s + 1 .. m - 1
          BY <3>6, <3>7, <4>2
        <5> QED BY <1>3, <1>4, <3>5, <5>1
      <4> QED BY <4>1, <4>2
    <3>9. Y(p) = Y(q)
      BY <1>d, <3>1, <3>3, <3>5, <3>8
    <3> QED BY <3>2, <3>3, <3>9
  <2> QED BY <2>1, <2>2
<1> HIDE DEF S
<1>10. Nat \subseteq S
  BY <1>8, <1>9, InductionOverSet
<1>11. Y(rec[km]) = Y(s)
  BY <1>6, <1>10 DEF S
<1> QED BY <1>5, <1>11 DEF Y

LEMMA AccessKinds ==
    ASSUME NEW c, Built(c), NEW k \in DOMAIN c.records
    PROVE  c.records[k].access \in {"READ", "WRITE"}
<1>1. PICK R : /\ R = [w : Seq(Nat), index : Int, timestamp : Int, access : {"READ", "WRITE"},
                       record_witness : Nat, gate : Nat]
               /\ c.records \in Seq(R)
  BY DEF Built, Circuits
<1>2. \A s : s \in Seq(R) => \A j \in DOMAIN s : s[j] \in R
  OBVIOUS
<1>3. c.records[k] \in R
  BY <1>1, <1>2
<1> QED BY <1>1, <1>3

\* The cell of every read was written before it.
LEMMA CellsAreWritten ==
    ASSUME NEW c, Built(c), AllSet(c), c.kind = "RAM", NEW d, FinalizedAs(d, c),
           NEW val, NEW fourth, GatesHold(d, val, fourth), IndicesAreCells(d, val), WrittenFirst(d),
           NEW m \in 1 .. Len(c.records), c.records[m].access = "READ"
    PROVE  \E s \in 1 .. m - 1 :
              c.records[s].access = "WRITE" /\ val[c.records[s].w[1]] = val[c.records[m].w[1]]
<1>1. PICK n \in Nat : n = Len(c.records) /\ DOMAIN c.records = 1 .. n
  BY SomeRecord
<1>2. d.records = c.records /\ d.constants = c.constants
  BY DEF FinalizedAs
<1>3. PICK v, i : v = c.records[m].w[1] /\ i = val[v]
  OBVIOUS
<1>4. m \in 1 .. n /\ i \in Cells
  BY <1>1, <1>2, <1>3 DEF IndicesAreCells
<1>5. \A p \in 1 .. n : c.records[p].timestamp = p - 1
  BY <1>1 DEF Built, RecordsFit, RecordFits
<1>6. \A x \in DOMAIN c.constants : val[c.constants[x]] = x
  BY AccessesHold
<1>7. CASE v \in FreeVariables(d)
  <2>1. PICK s \in Range(c.records) :
            s.access = "WRITE" /\ s.timestamp < c.records[m].timestamp /\ s.w[1] = c.constants[i]
    BY <1>1, <1>2, <1>3, <1>4, <1>7, SMTT(60) DEF WrittenFirst, Range
  <2>2. PICK p \in 1 .. n : s = c.records[p]
    BY <1>1, <2>1 DEF Range
  <2>3. p - 1 < m - 1
    BY <1>4, <1>5, <2>1, <2>2
  <2>4. p \in 1 .. m - 1
    BY <1>4, <2>3
  <2>5. i \in DOMAIN c.constants
    BY <1>4 DEF AllSet, Built, CellsHeld
  <2>6. val[c.records[p].w[1]] = i
    BY <1>6, <2>1, <2>2, <2>5
  <2> QED BY <1>3, <2>1, <2>2, <2>4, <2>6
<1>8. CASE v \notin FreeVariables(d)
  <2>1. PICK x \in DOMAIN c.constants : v = c.constants[x]
    <3>1. m \in DOMAIN d.records /\ v = d.records[m].w[1] /\ d.constants = c.constants
      BY <1>1, <1>2, <1>3, <1>4
    <3> QED BY <1>8, <3>1, NotFreeIsConstant
  <2>2. /\ v \in IndexVariables
        /\ v = zero_idx => \E j \in 1 .. m - 1 : c.records[j].access = "WRITE" /\ c.records[j].w[1] = zero_idx
    BY <1>1, <1>3, <1>4 DEF Built, ZeroWritten
  <2>3. v = zero_idx
    <3>1. v <= NumProgram
      BY <2>2, SizeOfArray DEF IndexVariables, NumProgram, zero_idx
    <3>2. c.constants[x] \in Nat /\ (x # 0 => c.constants[x] > NumProgram) /\ c.constants[0] = zero_idx
      BY <2>1, FieldsOfCircuit DEF Built, ConstantsFixed
    <3> QED BY <2>1, <3>1, <3>2, SizeOfArray
  <2> QED BY <1>3, <2>2, <2>3
<1> QED BY <1>7, <1>8

\* In every witness of a finalised RAM circuit whose cells were written first, with indices of cells
\* and the records of a cell in the order of their times, a read returns what was last written.
THEOREM RamIsSound ==
    ASSUME NEW c, Built(c), AllSet(c), c.kind = "RAM", NEW d, FinalizedAs(d, c),
           NEW val, NEW fourth, Satisfied(d, val, fourth), IndicesAreCells(d, val),
           InTimeOrder(d, val), WrittenFirst(d)
    PROVE  ReadsLastWrite(d, val)
<1>1. PICK n \in Nat : n = Len(c.records) /\ DOMAIN c.records = 1 .. n /\ d.records = c.records
  BY SomeRecord DEF FinalizedAs
<1> SUFFICES ASSUME NEW m \in 1 .. n, c.records[m].access = "READ"
             PROVE  \E s \in WritesBefore(d, val, c.records[m]) :
                       /\ \A t \in WritesBefore(d, val, c.records[m]) : t.timestamp <= s.timestamp
                       /\ val[c.records[m].w[3]] = val[s.w[3]]
  BY <1>1 DEF ReadsLastWrite, Range
<1> DEFINE T == {p \in 1 .. m - 1 :
                    c.records[p].access = "WRITE" /\ val[c.records[p].w[1]] = val[c.records[m].w[1]]}
<1>2. T # {}
  BY <1>1, CellsAreWritten DEF Satisfied
<1>3. PICK s \in T : \A p \in T : p <= s
  <2>1. T \in SUBSET (0 .. n)
    OBVIOUS
  <2> HIDE DEF T
  <2> QED BY <1>2, <2>1, GreatestNumber
<1>4. /\ s \in 1 .. m - 1 /\ s \in 1 .. n /\ n >= 2
      /\ c.records[s].access = "WRITE" /\ val[c.records[s].w[1]] = val[c.records[m].w[1]]
  BY <1>3
<1>5. val[c.records[s].w[3]] = val[c.records[m].w[3]]
  <2>1. PICK rec : RowsInOrder(c, val, rec)
    BY <1>1, <1>4, RecordsInOrder
  <2>2. \A p \in s + 1 .. m - 1 : c.records[p].access = "WRITE" => val[c.records[p].w[1]] # val[c.records[m].w[1]]
    <3> SUFFICES ASSUME NEW p \in s + 1 .. m - 1, c.records[p].access = "WRITE",
                        val[c.records[p].w[1]] = val[c.records[m].w[1]]
                 PROVE  FALSE
      OBVIOUS
    <3>1. p \in 1 .. m - 1 /\ ~ (p <= s)
      BY <1>4
    <3> QED BY <1>3, <3>1
  <2>3. RowsTyped(c, val)
    <3>1. \A p \in 1 .. n : val[c.records[p].w[1]] \in Int
      BY <1>1, CellNumbers DEF IndicesAreCells
    <3>2. \A p \in 1 .. n : c.records[p].access \in {"READ", "WRITE"}
      BY <1>1, AccessKinds
    <3> QED BY <1>1, <3>1, <3>2 DEF RowsTyped
  <2>4. NotWrittenSince(c, val, s, m)
    BY <1>4, <2>2 DEF NotWrittenSince
  <2> HIDE DEF T
  <2> QED BY <1>1, <1>4, <2>1, <2>3, <2>4, ValuesAreCarried
<1>6. \A p \in 1 .. n : c.records[p].timestamp = p - 1
  BY <1>1 DEF Built, RecordsFit, RecordFits
<1>7. c.records[s] \in WritesBefore(d, val, c.records[m])
  <2>1. c.records[s].timestamp < c.records[m].timestamp
    BY <1>4, <1>6
  <2> QED BY <1>1, <1>4, <2>1 DEF WritesBefore, Range
<1>8. ASSUME NEW t \in WritesBefore(d, val, c.records[m]) PROVE t.timestamp <= c.records[s].timestamp
  <2>1. PICK p \in 1 .. n : t = c.records[p]
    BY <1>1, <1>8 DEF WritesBefore, Range
  <2>2. /\ c.records[p].access = "WRITE" /\ val[c.records[p].w[1]] = val[c.records[m].w[1]]
        /\ p - 1 < m - 1
    BY <1>6, <1>8, <2>1 DEF WritesBefore
  <2>3. p \in T
    BY <2>2
  <2>4. p <= s
    BY <1>3, <2>3
  <2> QED BY <1>4, <1>6, <2>1, <2>4
<1> QED BY <1>5, <1>7, <1>8

\* In every satisfying assignment in the order of times a read of a RAM array returns the last write.
THEOREM RamArraysAreSound == MemSpec => []RamReadsLastWrite
<1>1. ArraysInv => RamReadsLastWrite
  <2> SUFFICES ASSUME ArraysInv, Finalized("RAM"), WrittenFirst(circuit), NEW x \in Assignments(circuit)
               PROVE  LET val    == AssignedValues(circuit, Layout(circuit), x[2], x[1])
                          fourth == AssignedFourth(circuit, Layout(circuit), val, x[1])
                      IN  Satisfied(circuit, val, fourth) /\ InTimeOrder(circuit, val) => ReadsLastWrite(circuit, val)
    BY DEF RamReadsLastWrite
  <2>1. PICK val : val = AssignedValues(circuit, Layout(circuit), x[2], x[1])
    OBVIOUS
  <2>2. PICK fourth : fourth = AssignedFourth(circuit, Layout(circuit), val, x[1])
    OBVIOUS
  <2> SUFFICES ASSUME Satisfied(circuit, val, fourth), InTimeOrder(circuit, val) PROVE ReadsLastWrite(circuit, val)
    BY <2>1, <2>2
  <2>3. PICK c : Built(c) /\ AllSet(c) /\ FinalizedAs(circuit, c) /\ c.kind = "RAM"
    BY FinalizedIs
  <2>4. IndicesAreCells(circuit, val)
    BY <2>1, <2>3, IndicesAssigned DEF Satisfied
  <2> QED BY <2>3, <2>4, RamIsSound
<1> QED BY <1>1, ArraysInvariant, PTL

\* However the indices sort the records, the finalised ROM circuit is the same.
THEOREM RomCircuitsAreFixed == MemSpec => RomCircuitIsFixed
<1> DEFINE Fixed ==
        circuit.kind = "ROM" /\ circuit_finalised' =>
          LET c == Initialized(circuit)
          IN  \A sorted \in Orders(c) :
                LET d == Processed(c, sorted)
                IN  /\ d.gates = circuit'.gates
                    /\ d.tags = circuit'.tags
                    /\ d.ranges = circuit'.ranges
<1>1. ArraysInv /\ [MemNext]_memVars => [Fixed]_memVars
  <2> SUFFICES ASSUME ArraysInv, MemNext, circuit.kind = "ROM", circuit_finalised' PROVE Fixed
    OBVIOUS
  <2>1. FinalizeCircuit
    BY CallsComeBefore DEF MemNext
  <2>2. PICK c : c = Initialized(circuit)
    OBVIOUS
  <2>3. /\ Built(c) /\ AllSet(c) /\ c.kind = "ROM"
        /\ \E sorted \in Sortings(c) : circuit' = Processed(c, sorted)
    BY <2>1, <2>2, FinalizeProcesses
  <2>4. \A sorted \in Orders(c) : FinalizedAs(Processed(c, sorted), c)
    BY <2>3, ProcessedIs
  <2>5. FinalizedAs(circuit', c)
    BY <2>3, <2>4 DEF Sortings
  <2>6. ASSUME NEW sorted \in Orders(c), NEW d, d = Processed(c, sorted)
        PROVE  d.gates = circuit'.gates /\ d.tags = circuit'.tags /\ d.ranges = circuit'.ranges
    <3>1. FinalizedAs(d, c)
      BY <2>4, <2>6
    <3>2. /\ d.gates = RomGates(c) /\ circuit'.gates = RomGates(c)
          /\ d.ranges = c.ranges /\ circuit'.ranges = c.ranges
      BY <2>3, <2>5, <3>1 DEF FinalizedAs
    <3>3. d.tags = circuit'.tags
      BY <2>5, <3>1 DEF FinalizedAs
    <3> QED BY <3>2, <3>3
  <2> QED BY <2>2, <2>6
<1> HIDE DEF Fixed
<1>2. MemSpec => [][Fixed]_memVars
  BY <1>1, ArraysInvariant, PTL DEF MemSpec
<1> QED BY <1>2 DEF RomCircuitIsFixed, Fixed

-----------------------------------------------------------------------------
(***************************************************************************)
(* The witness of the program itself, in the finalised circuit.            *)
(***************************************************************************)
\* The variables of the second list have the values of its records, and its gates are remembered.
ListValued(d, c, sorted) ==
    /\ \A v \in 1 .. NumVariables(c) : d.variables[v] = c.variables[v]
    /\ \A k \in 1 .. Len(c.records) : \A j \in 1 .. 4 :
          d.variables[NumVariables(c) + 4 * (k - 1) + j] = FreshValues(c, sorted[k])[j]
    /\ d.read_records = Listed(c, sorted, "READ") /\ d.write_records = Listed(c, sorted, "WRITE")

\* The places of four variables for each of n records.
LEMMA PlacesOfFour ==
    ASSUME NEW n \in Nat, NEW k \in 1 .. n, NEW j \in 1 .. 4
    PROVE  /\ 4 * (k - 1) + j \in 1 .. 4 * n
           /\ 1 + (((4 * (k - 1) + j) - 1) \div 4) = k
           /\ 1 + (((4 * (k - 1) + j) - 1) % 4) = j
<1>1. PICK a, b : a = k - 1 /\ b = j - 1
  OBVIOUS
<1>2. a \in Nat /\ b \in 0 .. 3 /\ a + 1 <= n /\ (4 * (k - 1) + j) - 1 = 4 * a + b
  BY <1>1
<1>3. (4 * a + b) \div 4 = a /\ (4 * a + b) % 4 = b
  BY <1>2
<1>4. 4 * (k - 1) + j \in 1 .. 4 * n
  BY <1>1, <1>2
<1> QED BY <1>1, <1>2, <1>3, <1>4

LEMMA ListValues ==
    ASSUME NEW c, Built(c), NEW sorted \in Orders(c), NEW d, d = AddSortedList(c, sorted)
    PROVE  ListValued(d, c, sorted)
<1> DEFINE n == Len(c.records)
           V == NumVariables(c)
           vs == [v \in 1 .. 4 * n |-> FreshValues(c, sorted[1 + ((v - 1) \div 4)])[1 + ((v - 1) % 4)]]
<1>1. c \in Circuits /\ n \in Nat /\ V \in Nat
  BY FieldsOfCircuit DEF Built
<1>2. Len(sorted) = n
  BY OrderedIs
<1>3. /\ d.variables = c.variables \o vs
      /\ d.read_records = c.read_records \cup Listed(c, sorted, "READ")
      /\ d.write_records = c.write_records \cup Listed(c, sorted, "WRITE")
  BY <1>1, <1>2 DEF AddSortedList, Circuits
<1>4. c.read_records = {} /\ c.write_records = {} /\ c.variables \in Seq(Int)
  BY <1>1 DEF Circuits
<1>5. vs = [v \in 1 .. 4 * n |-> vs[v]]
      /\ \A v \in 1 .. 4 * n : vs[v] = FreshValues(c, sorted[1 + ((v - 1) \div 4)])[1 + ((v - 1) % 4)]
  OBVIOUS
<1> HIDE DEF vs, n
<1>6. /\ \A v \in 1 .. V : d.variables[v] = c.variables[v]
      /\ \A v \in 1 .. 4 * n : d.variables[V + v] = vs[v]
  <2>1. PICK s, t, m, u, R : s = c.variables /\ t = vs /\ m = 4 * n /\ u = d.variables /\ R = {t[k] : k \in 1 .. m}
    OBVIOUS
  <2>2. s \in Seq(Int) /\ m \in Nat /\ u = s \o t
    BY <1>1, <1>3, <1>4, <2>1
  <2>3. t \in [1 .. m -> R]
    BY <1>5, <2>1
  <2>4. IsJoined(u, s, t, m)
    BY <2>2, <2>3, ConcatIs
  <2> QED BY <2>1, <2>4 DEF IsJoined, NumVariables
<1>7. ASSUME NEW k \in 1 .. n, NEW j \in 1 .. 4
      PROVE  d.variables[V + 4 * (k - 1) + j] = FreshValues(c, sorted[k])[j]
  <2>1. PICK v : v = 4 * (k - 1) + j
    OBVIOUS
  <2>2. v \in 1 .. 4 * n /\ 1 + ((v - 1) \div 4) = k /\ 1 + ((v - 1) % 4) = j
    BY <1>1, <2>1, PlacesOfFour
  <2>3. d.variables[V + v] = FreshValues(c, sorted[k])[j]
    BY <1>5, <1>6, <2>2
  <2>4. V + 4 * (k - 1) + j = V + v
    BY <1>1, <2>1
  <2> QED BY <2>3, <2>4
<1> QED BY <1>3, <1>4, <1>6, <1>7 DEF ListValued, n

\* The k-th comparison of times, or the row after the last one.
ComparesTimes(d, g, sorted, k) ==
    /\ g.w[1] = sorted[k].w[1] /\ g.w[2] = sorted[k].w[2]
    /\ IF k < Len(sorted) THEN g.type = "TIMESTAMP" /\ d.variables[g.w[3]] = Delta(sorted[k], sorted[k + 1])
       ELSE g.type = "EMPTY"

FilledAs(d, c, sorted) ==
    LET n == Len(c.records)
        l == Len(c.gates)
    IN  /\ ListValued(d, c, sorted)
        /\ c.kind = "ROM" =>
              /\ d.gates[l + n + 1].type = "FIX" /\ d.gates[l + n + 1].c = ArraySize
              /\ d.variables[d.gates[l + n + 1].w[1]] = ArraySize
              /\ d.ranges = {}
        /\ c.kind = "RAM" =>
              /\ \A k \in 1 .. n : ComparesTimes(d, d.gates[l + n + k], sorted, k)
              /\ \A r \in d.ranges : \E k \in 1 .. n - 1 :
                    d.variables[r[1]] = Delta(sorted[k], sorted[k + 1]) /\ r[2] = c.access_count - 1

\* Values put after those of the list leave them as they are.
LEMMA ValuedLonger ==
    ASSUME NEW c, Built(c), NEW sorted, NEW d, NEW e, ListValued(e, c, sorted),
           d.read_records = e.read_records, d.write_records = e.write_records,
           \A v \in 1 .. NumVariables(c) + 4 * Len(c.records) : d.variables[v] = e.variables[v]
    PROVE  ListValued(d, c, sorted)
<1>1. PICK V \in Nat, n \in Nat : V = NumVariables(c) /\ n = Len(c.records)
  BY FieldsOfCircuit DEF Built
<1>2. \A v \in 1 .. V : v \in 1 .. V + 4 * n
  OBVIOUS
<1>3. ASSUME NEW k \in 1 .. n, NEW j \in 1 .. 4 PROVE V + 4 * (k - 1) + j \in 1 .. V + 4 * n
  <2>1. 4 * (k - 1) + j \in 1 .. 4 * n
    BY PlacesOfFour
  <2>2. PICK x \in 1 .. 4 * n : x = 4 * (k - 1) + j
    BY <2>1
  <2>3. V + x \in 1 .. V + 4 * n
    OBVIOUS
  <2>4. V + 4 * (k - 1) + j = V + x
    BY <2>2
  <2> QED BY <2>3, <2>4
<1> QED BY <1>1, <1>2, <1>3 DEF ListValued

LEMMA ROMFilled ==
    ASSUME NEW c, Built(c), AllSet(c), c.kind = "ROM", NEW sorted \in Orders(c),
           NEW d, d = Processed(c, sorted)
    PROVE  FilledAs(d, c, sorted)
<1> DEFINE n == Len(c.records)
           l == Len(c.gates)
           V == NumVariables(c)
<1>1. PICK e : e = AddSortedList(c, sorted)
  OBVIOUS
<1>2. ListAdded(e, c, sorted) /\ ListValued(e, c, sorted)
  BY <1>1, SortedListAdded, ListValues
<1>3. n \in Nat /\ V \in Nat /\ l \in Nat /\ c.ranges = {}
  BY FieldsOfCircuit DEF Built, Circuits
<1>4. {"variables", "gates", "ranges", "read_records", "write_records"} \subseteq DOMAIN e
  <2>1. {"variables", "gates", "ranges", "read_records", "write_records"} \subseteq DOMAIN c
    BY DEF Built, Circuits
  <2> QED BY <1>2, <2>1 DEF ListAdded
<1>5. NumVariables(e) = V + 4 * n /\ Len(e.gates) = l + n /\ e.ranges = {}
  BY <1>2, <1>3 DEF ListAdded
<1> HIDE DEF n, l, V
<1>6. PICK f : f = AddVariable(e, ArraySize)
  OBVIOUS
<1>7. /\ f.gates = e.gates /\ f.ranges = {} /\ DOMAIN f = DOMAIN e
      /\ f.read_records = e.read_records /\ f.write_records = e.write_records
      /\ f.variables = Append(e.variables, ArraySize)
  BY <1>4, <1>5, <1>6 DEF AddVariable
<1>8. /\ NumVariables(f) = V + 4 * n + 1
      /\ \A v \in 1 .. V + 4 * n : f.variables[v] = e.variables[v]
      /\ f.variables[V + 4 * n + 1] = ArraySize
  <2>1. PICK S, T, s, u : e.variables \in Seq(S) /\ T = S \cup {ArraySize} /\ s = e.variables /\ u = f.variables
    BY <1>2 DEF ListAdded
  <2>2. s \in Seq(T) /\ ArraySize \in T /\ u = Append(s, ArraySize) /\ Len(s) = V + 4 * n
    BY <1>5, <1>7, <2>1 DEF NumVariables
  <2>3. Len(u) = Len(s) + 1 /\ (\A k \in 1 .. Len(s) : u[k] = s[k]) /\ u[Len(s) + 1] = ArraySize
    BY <2>2, AppendIs
  <2> QED BY <2>1, <2>2, <2>3 DEF NumVariables
<1>9. PICK g : g = [type |-> "FIX", w |-> <<V + 4 * n + 1, zero_idx, zero_idx, zero_idx>>, c |-> ArraySize]
  OBVIOUS
<1>10. d = [f EXCEPT !.gates = Append(f.gates, g)]
  BY <1>1, <1>6, <1>8, <1>9 DEF Processed, ProcessROM, AddGate
<1>11. /\ d.variables = f.variables /\ d.gates = Append(e.gates, g) /\ d.ranges = {}
       /\ d.read_records = e.read_records /\ d.write_records = e.write_records
  BY <1>4, <1>7, <1>10
<1>12. d.gates[l + n + 1] = g
  <2>1. PICK S, T, s, u : e.gates \in Seq(S) /\ T = S \cup {g} /\ s = e.gates /\ u = d.gates
    BY <1>2 DEF ListAdded
  <2>2. s \in Seq(T) /\ g \in T /\ u = Append(s, g) /\ Len(s) = l + n
    BY <1>5, <1>11, <2>1
  <2>3. u[Len(s) + 1] = g
    BY <2>2, AppendIs
  <2> QED BY <2>1, <2>2, <2>3
<1>13. g.type = "FIX" /\ g.c = ArraySize /\ g.w[1] = V + 4 * n + 1
  BY <1>9
<1>14. ListValued(d, c, sorted)
  <2>1. \A v \in 1 .. V + 4 * n : d.variables[v] = e.variables[v]
    BY <1>8, <1>11
  <2> QED BY <1>2, <1>11, <2>1, ValuedLonger DEF V, n
<1>15. d.variables[d.gates[l + n + 1].w[1]] = ArraySize
  BY <1>8, <1>11, <1>12, <1>13
<1> QED BY <1>11, <1>12, <1>13, <1>14, <1>15 DEF FilledAs, n, l

LEMMA RAMFilled ==
    ASSUME NEW c, Built(c), AllSet(c), c.kind = "RAM", NEW sorted \in Orders(c),
           NEW d, d = Processed(c, sorted)
    PROVE  FilledAs(d, c, sorted)
<1> DEFINE n == Len(c.records)
           l == Len(c.gates)
           V == NumVariables(c)
<1>1. PICK e : e = AddSortedList(c, sorted)
  OBVIOUS
<1>2. ListAdded(e, c, sorted) /\ ListValued(e, c, sorted)
  BY <1>1, SortedListAdded, ListValues
<1>3. n \in Nat /\ V \in Nat /\ l \in Nat /\ c.ranges = {} /\ n >= 1
  <2>1. c.ranges = {}
    BY DEF Built, Circuits
  <2> QED BY <2>1, FieldsOfCircuit, SomeRecord DEF Built
<1>4. {"variables", "gates", "ranges", "read_records", "write_records"} \subseteq DOMAIN e
  <2>1. {"variables", "gates", "ranges", "read_records", "write_records"} \subseteq DOMAIN c
    BY DEF Built, Circuits
  <2> QED BY <1>2, <2>1 DEF ListAdded
<1>5. /\ NumVariables(e) = V + 4 * n /\ Len(e.gates) = l + n /\ e.ranges = {}
      /\ e.access_count = c.access_count
  BY <1>2, <1>3 DEF ListAdded
<1>6. Len(sorted) = n
  BY OrderedIs
<1> HIDE DEF n, l, V
<1>7. PICK a, b, g : /\ a = sorted[n].w[1] /\ b = sorted[n].w[2]
                     /\ g = [type |-> "EMPTY", w |-> <<a, b, zero_idx, zero_idx>>, c |-> 0]
  OBVIOUS
<1>8. PICK f : f = AddTimestamps(e, sorted)
  OBVIOUS
<1>9. d = [f EXCEPT !.gates = Append(f.gates, g)]
  BY <1>1, <1>6, <1>7, <1>8 DEF Processed, ProcessRAM, AddGate
<1> DEFINE wires == [k \in 1 .. Len(sorted) - 1 |-> <<sorted[k].w[1], sorted[k].w[2], NumVariables(e) + k, zero_idx>>]
           ts == [k \in 1 .. Len(sorted) - 1 |-> [type |-> "TIMESTAMP", w |-> wires[k], c |-> 0]]
           deltas == [k \in 1 .. Len(sorted) - 1 |-> Delta(sorted[k], sorted[k + 1])]
           ranges == {<<NumVariables(e) + k, e.access_count - 1>> : k \in 1 .. Len(sorted) - 1}
<1>10. /\ f.gates = e.gates \o ts /\ f.variables = e.variables \o deltas /\ f.ranges = ranges
       /\ f.read_records = e.read_records /\ f.write_records = e.write_records /\ DOMAIN f = DOMAIN e
  <2>0. f = [AddVariables(e, deltas) EXCEPT !.gates = @ \o ts, !.ranges = @ \cup ranges]
    BY <1>8, Zenon DEF AddTimestamps
  <2> HIDE DEF ts, wires, deltas, ranges
  <2>1. PICK x : x = AddVariables(e, deltas)
    OBVIOUS
  <2>2. /\ x.gates = e.gates /\ x.variables = e.variables \o deltas /\ x.ranges = {}
        /\ x.read_records = e.read_records /\ x.write_records = e.write_records /\ DOMAIN x = DOMAIN e
    BY <1>4, <1>5, <2>1 DEF AddVariables
  <2>3. f = [x EXCEPT !.gates = @ \o ts, !.ranges = @ \cup ranges]
    BY <2>0, <2>1
  <2> QED BY <1>4, <2>2, <2>3
<1>11. /\ \A k \in 1 .. n - 1 : /\ ts[k].type = "TIMESTAMP" /\ ts[k].w[1] = sorted[k].w[1] /\ ts[k].w[2] = sorted[k].w[2]
                                /\ ts[k].w[3] = V + 4 * n + k
                                /\ deltas[k] = Delta(sorted[k], sorted[k + 1])
       /\ \A r \in ranges : \E k \in 1 .. n - 1 : r[1] = V + 4 * n + k /\ r[2] = c.access_count - 1
       /\ ts = [k \in 1 .. n - 1 |-> ts[k]] /\ deltas = [k \in 1 .. n - 1 |-> deltas[k]]
  BY <1>5, <1>6
<1> HIDE DEF ts, wires, deltas, ranges
<1>12. /\ Len(f.gates) = l + n + (n - 1)
       /\ \A k \in 1 .. n - 1 : f.gates[l + n + k] = ts[k]
       /\ \E S : f.gates \in Seq(S)
  <2>1. PICK S, s, m, t, u, R : /\ e.gates \in Seq(S) /\ s = e.gates /\ t = ts /\ m = n - 1 /\ u = f.gates
                                /\ R = {ts[k] : k \in 1 .. n - 1}
    BY <1>2 DEF ListAdded
  <2>2. m \in Nat /\ s \in Seq(S) /\ u = s \o t
    BY <1>3, <1>10, <2>1
  <2>3. t \in [1 .. m -> R]
    BY <1>11, <2>1
  <2>4. IsJoined(u, s, t, m)
    BY <2>2, <2>3, ConcatIs
  <2> QED BY <1>5, <2>1, <2>4 DEF IsJoined
<1>13. /\ \A v \in 1 .. V + 4 * n : f.variables[v] = e.variables[v]
       /\ \A k \in 1 .. n - 1 : f.variables[V + 4 * n + k] = deltas[k]
  <2>1. PICK S, s, m, t, u, R : /\ e.variables \in Seq(S) /\ s = e.variables /\ t = deltas /\ m = n - 1
                                /\ u = f.variables /\ R = {deltas[k] : k \in 1 .. n - 1}
    BY <1>2 DEF ListAdded
  <2>2. m \in Nat /\ s \in Seq(S) /\ u = s \o t
    BY <1>3, <1>10, <2>1
  <2>3. t \in [1 .. m -> R]
    BY <1>11, <2>1
  <2>4. IsJoined(u, s, t, m)
    BY <2>2, <2>3, ConcatIs
  <2> QED BY <1>5, <2>1, <2>4 DEF IsJoined, NumVariables
<1>14. /\ d.variables = f.variables /\ d.gates = Append(f.gates, g) /\ d.ranges = ranges
       /\ d.read_records = e.read_records /\ d.write_records = e.write_records
  BY <1>4, <1>9, <1>10
<1>15. /\ d.gates[l + n + n] = g
       /\ \A k \in 1 .. n - 1 : d.gates[l + n + k] = ts[k]
  <2>1. PICK S, T, s, u : f.gates \in Seq(S) /\ T = S \cup {g} /\ s = f.gates /\ u = d.gates
    BY <1>12
  <2>2. s \in Seq(T) /\ g \in T /\ u = Append(s, g) /\ Len(s) = l + n + (n - 1)
    BY <1>12, <1>14, <2>1
  <2>3. (\A k \in 1 .. Len(s) : u[k] = s[k]) /\ u[Len(s) + 1] = g
    BY <2>2, AppendIs
  <2>4. Len(s) + 1 = l + n + n /\ \A k \in 1 .. n - 1 : l + n + k \in 1 .. Len(s)
    BY <1>3, <2>2
  <2> QED BY <1>12, <2>1, <2>3, <2>4
<1>16. g.type = "EMPTY" /\ g.w[1] = a /\ g.w[2] = b
  BY <1>7
<1>17. ListValued(d, c, sorted)
  <2>1. \A v \in 1 .. V + 4 * n : d.variables[v] = e.variables[v]
    BY <1>13, <1>14
  <2> QED BY <1>2, <1>14, <2>1, ValuedLonger DEF V, n
<1>18. ASSUME NEW k \in 1 .. n PROVE ComparesTimes(d, d.gates[l + n + k], sorted, k)
  <2>1. CASE k = n
    BY <1>3, <1>6, <1>7, <1>15, <1>16, <2>1 DEF ComparesTimes
  <2>2. CASE k # n
    <3>1. k \in 1 .. n - 1 /\ k < n
      BY <1>3, <2>2
    <3>2. d.gates[l + n + k] = ts[k] /\ d.variables[ts[k].w[3]] = Delta(sorted[k], sorted[k + 1])
      <4>1. d.gates[l + n + k] = ts[k]
        BY <1>15, <3>1
      <4>2. ts[k].w[3] = V + 4 * n + k /\ deltas[k] = Delta(sorted[k], sorted[k + 1])
        BY <1>11, <3>1
      <4>3. d.variables[V + 4 * n + k] = deltas[k]
        BY <1>13, <1>14, <3>1
      <4> QED BY <4>1, <4>2, <4>3
    <3> QED BY <1>6, <1>11, <3>1, <3>2 DEF ComparesTimes
  <2> QED BY <2>1, <2>2
<1>19. ASSUME NEW r \in d.ranges
       PROVE  \E k \in 1 .. n - 1 : d.variables[r[1]] = Delta(sorted[k], sorted[k + 1]) /\ r[2] = c.access_count - 1
  <2>1. PICK k \in 1 .. n - 1 : r[1] = V + 4 * n + k /\ r[2] = c.access_count - 1
    BY <1>11, <1>14
  <2>2. d.variables[r[1]] = Delta(sorted[k], sorted[k + 1])
    BY <1>11, <1>13, <1>14, <2>1
  <2> QED BY <2>1, <2>2
<1> QED BY <1>17, <1>18, <1>19 DEF FilledAs, n, l

LEMMA ProcessedFilled ==
    ASSUME NEW c, Built(c), AllSet(c), NEW sorted \in Orders(c)
    PROVE  FilledAs(Processed(c, sorted), c, sorted)
<1>1. c.kind = "ROM" \/ c.kind = "RAM"
  BY DEF Built, AllSet, Circuits
<1> QED BY <1>1, ROMFilled, RAMFilled

\* A gate is of one access only, and comes before the second list.
LEMMA GatesOfRecords ==
    ASSUME NEW c, Built(c)
    PROVE  /\ \A m \in 1 .. Len(c.records) : c.records[m].gate \in 1 .. Len(c.gates)
           /\ \A j, m \in 1 .. Len(c.records) : c.records[j].gate = c.records[m].gate => j = m
<1>1. DOMAIN c.records = 1 .. Len(c.records) /\ DOMAIN c.gates = 1 .. Len(c.gates)
  BY DEF Built, Circuits
<1>2. \A m \in 1 .. Len(c.records) :
          c.records[m].gate \in DOMAIN c.gates /\ c.gates[c.records[m].gate].w[4] = c.records[m].record_witness
  BY <1>1 DEF Built, RecordsFit, RecordFits
<1>3. \A j, m \in 1 .. Len(c.records) : c.records[j].record_witness = c.records[m].record_witness => j = m
  BY <1>1 DEF Built, RecordsFit
<1>4. ASSUME NEW j \in 1 .. Len(c.records), NEW m \in 1 .. Len(c.records), c.records[j].gate = c.records[m].gate
      PROVE  j = m
  BY <1>2, <1>3, <1>4
<1> QED BY <1>1, <1>2, <1>4

\* The gates remembered for an access of a kind are those of its records.
LEMMA GatesListed ==
    ASSUME NEW c, Built(c), NEW sorted \in Orders(c), NEW access
    PROVE  /\ \A k \in 1 .. Len(c.records) :
                 Row(Len(c.gates) + k) \in Listed(c, sorted, access) <=> sorted[k].access = access
           /\ \A m \in 1 .. Len(c.records) :
                 Row(c.records[m].gate) \in Listed(c, sorted, access) <=> c.records[m].access = access
<1>1. PICK n \in Nat, l \in Nat : n = Len(c.records) /\ l = Len(c.gates)
  BY FieldsOfCircuit DEF Built
<1>2. /\ \A m \in 1 .. n : c.records[m].gate \in 1 .. l
      /\ \A j, m \in 1 .. n : c.records[j].gate = c.records[m].gate => j = m
  BY <1>1, GatesOfRecords
<1>3. /\ DOMAIN sorted = 1 .. n
      /\ \A k \in 1 .. n : \E j \in 1 .. n : sorted[k] = c.records[j]
      /\ \A j \in 1 .. n : \E k \in 1 .. n : sorted[k] = c.records[j]
  <2>1. /\ DOMAIN sorted = DOMAIN c.records /\ DOMAIN c.records = 1 .. n
        /\ \A k \in DOMAIN c.records : \E j \in DOMAIN c.records : sorted[k] = c.records[j]
        /\ \A j \in DOMAIN c.records : \E k \in DOMAIN c.records : sorted[k] = c.records[j]
    BY <1>1, OrderedIs
  <2> QED BY <2>1
<1>4. \A x : x \in Listed(c, sorted, access) <=>
          \E k \in 1 .. n : sorted[k].access = access /\ (x = Row(l + k) \/ x = Row(sorted[k].gate))
  <2>1. PICK K : K = {k \in DOMAIN sorted : sorted[k].access = access}
    OBVIOUS
  <2>2. Listed(c, sorted, access) = UNION {{Row(l + k), Row(sorted[k].gate)} : k \in K}
    BY <1>1, <2>1, Zenon DEF Listed
  <2>3. \A k : k \in K <=> k \in 1 .. n /\ sorted[k].access = access
    BY <1>3, <2>1
  <2>4. \A x : x \in UNION {{Row(l + k), Row(sorted[k].gate)} : k \in K}
               <=> \E k \in K : x = Row(l + k) \/ x = Row(sorted[k].gate)
    <3>1. PICK f, g : f = [k \in K |-> Row(l + k)] /\ g = [k \in K |-> Row(sorted[k].gate)]
      OBVIOUS
    <3>2. \A k \in K : f[k] = Row(l + k) /\ g[k] = Row(sorted[k].gate)
      BY <3>1
    <3>3. {{Row(l + k), Row(sorted[k].gate)} : k \in K} = {{f[k], g[k]} : k \in K}
      BY <3>2
    <3>4. \A x : x \in UNION {{f[k], g[k]} : k \in K} <=> \E k \in K : x = f[k] \/ x = g[k]
      OBVIOUS
    <3> QED BY <3>2, <3>3, <3>4
  <2> QED BY <2>2, <2>3, <2>4
<1>5. \A g, h \in Nat : Row(g) = Row(h) => g = h
  BY SizeOfArray DEF Row
<1>6. \A k \in 1 .. n : sorted[k].gate \in 1 .. l
  BY <1>2, <1>3
<1>7. /\ \A g \in 1 .. l : g \in Nat
      /\ \A k \in 1 .. n : l + k \in Nat /\ \A g \in 1 .. l : l + k # g
      /\ \A j, k \in 1 .. n : l + j = l + k => j = k
  OBVIOUS
<1>8. ASSUME NEW k \in 1 .. n PROVE Row(l + k) \in Listed(c, sorted, access) <=> sorted[k].access = access
  <2>1. ASSUME NEW j \in 1 .. n, Row(l + k) = Row(l + j) \/ Row(l + k) = Row(sorted[j].gate) PROVE j = k
    BY <1>5, <1>6, <1>7, <2>1
  <2> QED BY <1>4, <2>1
<1>9. ASSUME NEW m \in 1 .. n PROVE Row(c.records[m].gate) \in Listed(c, sorted, access) <=> c.records[m].access = access
  <2>1. ASSUME NEW j \in 1 .. n, Row(c.records[m].gate) = Row(l + j) \/ Row(c.records[m].gate) = Row(sorted[j].gate)
        PROVE  sorted[j] = c.records[m]
    <3>1. PICK q \in 1 .. n : sorted[j] = c.records[q]
      BY <1>3
    <3>2. c.records[m].gate = c.records[q].gate
      BY <1>2, <1>5, <1>7, <2>1, <3>1
    <3> QED BY <1>2, <3>1, <3>2
  <2>2. PICK k \in 1 .. n : sorted[k] = c.records[m]
    BY <1>3
  <2> QED BY <1>4, <2>1, <2>2
<1> QED BY <1>1, <1>8, <1>9

\* What the prover puts in the fourth wire for a record: its row in the second list.
ListedRow(c, r) == <<r.index, c.variables[r.w[2]], c.variables[r.w[3]], IF r.access = "WRITE" THEN 1 ELSE 0>>

\* A circuit finalised with the values of c.
FinalizedWith(d, c, sorted) ==
    /\ Built(c) /\ AllSet(c) /\ sorted \in Sortings(c)
    /\ FinalizedAs(d, c) /\ FilledAs(d, c, sorted)

FilledRows(d, c, sorted) ==
    /\ \A k \in 1 .. Len(c.records) : FilledIn(d)[Len(c.gates) + k] = ListedRow(c, sorted[k])
    /\ \A m \in 1 .. Len(c.records) : FilledIn(d)[c.records[m].gate] = AccessValue(c.records[m], c.variables)

\* The first wires of gate g have the values of record r.
ListWired(d, c, g, r) ==
    /\ d.variables[g.w[1]] = r.index
    /\ d.variables[g.w[2]] = c.variables[r.w[2]]
    /\ d.variables[g.w[3]] = c.variables[r.w[3]]

\* The values of the wires of the second list.
LEMMA WiresOfList ==
    ASSUME NEW c, NEW d, NEW sorted, FinalizedWith(d, c, sorted), NEW k \in 1 .. Len(c.records)
    PROVE  ListWired(d, c, d.gates[Len(c.gates) + k], sorted[k])
<1>1. \A j \in 1 .. 4 : d.gates[Len(c.gates) + k].w[j] = NumVariables(c) + 4 * (k - 1) + j
  BY DEF FinalizedWith, FinalizedAs
<1>2. \A j \in 1 .. 4 : d.variables[NumVariables(c) + 4 * (k - 1) + j] = FreshValues(c, sorted[k])[j]
  BY DEF FinalizedWith, FilledAs, ListValued
<1>3. \A j \in 1 .. 4 : d.variables[d.gates[Len(c.gates) + k].w[j]] = FreshValues(c, sorted[k])[j]
  BY <1>1, <1>2
<1>4. PICK g, r, f : g = d.gates[Len(c.gates) + k] /\ r = sorted[k] /\ f = FreshValues(c, r)
  OBVIOUS
<1>5. f[1] = r.index /\ f[2] = c.variables[r.w[2]] /\ f[3] = c.variables[r.w[3]]
  BY <1>4 DEF FreshValues
<1>6. \A j \in 1 .. 4 : d.variables[g.w[j]] = f[j]
  BY <1>3, <1>4
<1>7. d.variables[g.w[1]] = f[1] /\ d.variables[g.w[2]] = f[2] /\ d.variables[g.w[3]] = f[3]
  BY <1>6
<1>8. ListWired(d, c, g, r)
  BY <1>5, <1>7 DEF ListWired
<1> QED BY <1>4, <1>8

\* Variables of the program keep their values.
AccessKept(c, d, r) == \A j \in 1 .. 3 : d.variables[r.w[j]] = c.variables[r.w[j]]

LEMMA WiresOfAccess ==
    ASSUME NEW c, NEW d, NEW sorted, FinalizedWith(d, c, sorted), NEW m \in 1 .. Len(c.records)
    PROVE  AccessKept(c, d, c.records[m])
<1>1. DOMAIN c.records = 1 .. Len(c.records)
  BY DEF FinalizedWith, Built, Circuits
<1>2. RecordFits(c, m)
  BY <1>1 DEF FinalizedWith, Built, RecordsFit
<1>3. PICK r : r = c.records[m]
  OBVIOUS
<1>4. \A j \in 1 .. 3 : r.w[j] \in 1 .. NumVariables(c)
  BY <1>2, <1>3 DEF RecordFits
<1>5. \A v \in 1 .. NumVariables(c) : d.variables[v] = c.variables[v]
  BY DEF FinalizedWith, FilledAs, ListValued
<1>6. AccessKept(c, d, r)
  BY <1>4, <1>5 DEF AccessKept
<1> QED BY <1>3, <1>6

\* The prover fills in the rows of both lists.
LEMMA RowsAreFilled ==
    ASSUME NEW c, NEW d, NEW sorted, FinalizedWith(d, c, sorted)
    PROVE  FilledRows(d, c, sorted)
<1>1. PICK n \in Nat, l \in Nat : n = Len(c.records) /\ l = Len(c.gates) /\ DOMAIN c.records = 1 .. n
  BY SomeRecord, FieldsOfCircuit DEF Built, FinalizedWith
<1>2. Built(c) /\ AllSet(c) /\ sorted \in Orders(c) /\ FinalizedAs(d, c)
  BY DEF FinalizedWith, Sortings
<1>3. /\ \A k \in 1 .. l + n + 1 : k \in DOMAIN d.gates
      /\ \A m \in 1 .. n : c.records[m].gate \in 1 .. l
      /\ \A k \in 1 .. n : l + k \in 1 .. l + n + 1
      /\ \A g \in 1 .. l : g \in 1 .. l + n + 1
      /\ \A k \in 1 .. n : \E j \in 1 .. n : sorted[k] = c.records[j]
  <2>1. \A k \in 1 .. l + n + 1 : k \in DOMAIN d.gates
    BY <1>1, <1>2, TaggedAre
  <2>2. \A m \in 1 .. n : c.records[m].gate \in 1 .. l
    BY <1>1, <1>2, GatesOfRecords
  <2>3. /\ \A k \in 1 .. n : l + k \in 1 .. l + n + 1
        /\ \A g \in 1 .. l : g \in 1 .. l + n + 1
    OBVIOUS
  <2>4. \A k \in DOMAIN c.records : \E j \in DOMAIN c.records : sorted[k] = c.records[j]
    BY <1>2, OrderedIs
  <2> QED BY <1>1, <2>1, <2>2, <2>3, <2>4
<1>4. d.read_records = Listed(c, sorted, "READ") /\ d.write_records = Listed(c, sorted, "WRITE")
  BY DEF FinalizedWith, FilledAs, ListValued
<1>5. ASSUME NEW g \in DOMAIN d.gates, NEW access \in {"READ", "WRITE"},
             \A a : Row(g) \in Listed(c, sorted, a) <=> access = a
      PROVE  FilledIn(d)[g] = RecordValue(d.gates[g], d.variables, IF access = "WRITE" THEN 1 ELSE 0)
  <2>1. FilledIn(d)[g] = IF Row(g) \in d.write_records THEN RecordValue(d.gates[g], d.variables, 1)
                         ELSE IF Row(g) \in d.read_records THEN RecordValue(d.gates[g], d.variables, 0)
                         ELSE <<0, 0, 0, d.variables[d.gates[g].w[4]]>>
    BY DEF FilledIn
  <2>2. Row(g) \in d.write_records <=> access = "WRITE"
    BY <1>4, <1>5
  <2>3. Row(g) \in d.read_records <=> access = "READ"
    BY <1>4, <1>5
  <2> QED BY <2>1, <2>2, <2>3
<1>6. ASSUME NEW k \in 1 .. n PROVE FilledIn(d)[l + k] = ListedRow(c, sorted[k])
  <2>1. PICK r, g : r = sorted[k] /\ g = d.gates[l + k]
    OBVIOUS
  <2>2. r.access \in {"READ", "WRITE"}
    <3>1. \E j \in DOMAIN c.records : r = c.records[j]
      BY <1>1, <1>3, <2>1
    <3> QED BY <1>2, <3>1, AccessKinds
  <2>3. \A a : Row(l + k) \in Listed(c, sorted, a) <=> r.access = a
    BY <1>1, <1>2, <2>1, GatesListed, SMTT(60)
  <2>4. l + k \in DOMAIN d.gates
    BY <1>3
  <2>5. FilledIn(d)[l + k] = RecordValue(g, d.variables, IF r.access = "WRITE" THEN 1 ELSE 0)
    BY <1>5, <2>1, <2>2, <2>3, <2>4
  <2>6. /\ d.variables[g.w[1]] = r.index /\ d.variables[g.w[2]] = c.variables[r.w[2]]
        /\ d.variables[g.w[3]] = c.variables[r.w[3]]
    <3>1. ListWired(d, c, g, r)
      BY <1>1, <2>1, WiresOfList
    <3> QED BY <3>1 DEF ListWired
  <2> QED BY <2>1, <2>5, <2>6 DEF RecordValue, ListedRow
<1>7. ASSUME NEW m \in 1 .. n PROVE FilledIn(d)[c.records[m].gate] = AccessValue(c.records[m], c.variables)
  <2>1. PICK r, g : r = c.records[m] /\ g = d.gates[r.gate]
    OBVIOUS
  <2>2. r.access \in {"READ", "WRITE"}
    BY <1>1, <1>2, <2>1, AccessKinds
  <2>3. \A a : Row(r.gate) \in Listed(c, sorted, a) <=> r.access = a
    BY <1>1, <1>2, <2>1, GatesListed
  <2>4. r.gate \in DOMAIN d.gates /\ r.gate \in 1 .. l
    BY <1>3, <2>1
  <2>5. FilledIn(d)[r.gate] = RecordValue(g, d.variables, IF r.access = "WRITE" THEN 1 ELSE 0)
    BY <1>5, <2>1, <2>2, <2>3, <2>4
  <2>6. g = c.gates[r.gate]
    BY <1>1, <1>2, <2>1, <2>4 DEF FinalizedAs
  <2>7. g.w[1] = r.w[1] /\ g.w[2] = r.w[2] /\ g.w[3] = r.w[3]
    <3>1. RecordFits(c, m)
      BY <1>1, <1>2 DEF Built, RecordsFit
    <3> QED BY <2>1, <2>6, <3>1 DEF RecordFits
  <2>8. \A j \in 1 .. 3 : d.variables[r.w[j]] = c.variables[r.w[j]]
    <3>1. AccessKept(c, d, c.records[m])
      BY <1>1, WiresOfAccess
    <3> QED BY <2>1, <3>1 DEF AccessKept
  <2>9. /\ d.variables[g.w[1]] = c.variables[r.w[1]] /\ d.variables[g.w[2]] = c.variables[r.w[2]]
        /\ d.variables[g.w[3]] = c.variables[r.w[3]]
    BY <2>7, <2>8
  <2>10. RecordValue(g, d.variables, IF r.access = "WRITE" THEN 1 ELSE 0) = AccessValue(r, c.variables)
    BY <2>9 DEF RecordValue, AccessValue
  <2> QED BY <2>1, <2>5, <2>10
<1> QED BY <1>1, <1>6, <1>7 DEF FilledRows

\* A witness that is accepted has the indices it was recorded at.
LEMMA AcceptedIsWellUsed ==
    ASSUME NEW c, NEW d, NEW sorted, FinalizedWith(d, c, sorted), Satisfied(d, d.variables, FilledIn(d))
    PROVE  WellUsed(d)
<1>1. PICK n \in Nat, l \in Nat : n = Len(c.records) /\ l = Len(c.gates) /\ DOMAIN c.records = 1 .. n
  BY SomeRecord, FieldsOfCircuit DEF Built, FinalizedWith
<1>2. Built(c) /\ AllSet(c) /\ sorted \in Orders(c) /\ FinalizedAs(d, c)
  BY DEF FinalizedWith, Sortings
<1>3. d.records = c.records /\ d.state = c.state /\ d.kind = c.kind
  BY <1>2 DEF FinalizedAs
<1>4. ASSUME NEW m \in 1 .. n
      PROVE  d.variables[c.records[m].w[1]] \in Cells /\ d.variables[c.records[m].w[1]] = c.records[m].index
  <2>1. PICK k \in 1 .. n : FilledIn(d)[l + k] = AccessValue(c.records[m], d.variables)
    <3>1. ListsAgree(c, d.variables, FilledIn(d))
      BY <1>2, ListIsOfAccesses
    <3> QED BY <1>1, <3>1 DEF ListsAgree
  <2>2. FilledIn(d)[l + k] = ListedRow(c, sorted[k])
    BY <1>1, RowsAreFilled DEF FilledRows
  <2>3. d.variables[c.records[m].w[1]] = sorted[k].index
    <3>1. ListedRow(c, sorted[k])[1] = sorted[k].index
      BY DEF ListedRow
    <3>2. AccessValue(c.records[m], d.variables)[1] = d.variables[c.records[m].w[1]]
      BY AccessParts
    <3> QED BY <2>1, <2>2, <3>1, <3>2
  <2>4. PICK j \in 1 .. n : sorted[k] = c.records[j]
    <3>1. \A q \in DOMAIN c.records : \E j \in DOMAIN c.records : sorted[q] = c.records[j]
      BY <1>2, OrderedIs
    <3> QED BY <1>1, <3>1
  <2>5. IndicesRead(c)
    BY <1>2 DEF Built, Faithful
  <2>6. sorted[k].index \in Cells
    BY <1>1, <2>4, <2>5 DEF IndicesRead
  <2>7. c.records[m].index = c.variables[c.records[m].w[1]] % IndexModulus
    BY <1>1, <2>5 DEF IndicesRead
  <2>8. d.variables[c.records[m].w[1]] = c.variables[c.records[m].w[1]]
    <3>1. AccessKept(c, d, c.records[m])
      BY <1>1, WiresOfAccess
    <3> QED BY <3>1 DEF AccessKept
  <2>9. PICK i \in Cells : i = d.variables[c.records[m].w[1]]
    BY <2>3, <2>6
  <2>10. i % IndexModulus = i
    BY CellIsIndex
  <2> QED BY <2>7, <2>8, <2>9, <2>10
<1>5. IndicesAreCells(d, d.variables)
  BY <1>1, <1>3, <1>4 DEF IndicesAreCells
<1>6. ASSUME c.kind = "ROM", NEW m \in 1 .. n PROVE AgreesWithCell(d, d.variables, c.records[m], c.records[m].index)
  <2>1. ReadsTheCell(d, d.variables)
    BY <1>2, <1>5, <1>6, RomIsSound
  <2> QED BY <1>1, <1>3, <1>4, <2>1 DEF ReadsTheCell
<1> QED BY <1>1, <1>3, <1>4, <1>6 DEF WellUsed

\* The p[k]-th record is the k-th of the second list.
InOrder(c, sorted, p) ==
    LET n == Len(c.records)
    IN  /\ \A k \in 1 .. n : p[k] \in 1 .. n /\ sorted[k] = c.records[p[k]]
        /\ \A m \in 1 .. n : \E k \in 1 .. n : p[k] = m
        /\ \A j, k \in 1 .. n : p[j] = p[k] => j = k

LEMMA OrderIs ==
    ASSUME NEW c, Built(c), NEW sorted \in Orders(c)
    PROVE  \E p : InOrder(c, sorted, p)
<1>1. DOMAIN c.records = 1 .. Len(c.records)
  BY DEF Built, Circuits
<1>2. PICK p \in Permutations(c) : sorted = Ordered(c, p)
  BY DEF Orders
<1>3. PICK D : D = DOMAIN c.records
  OBVIOUS
<1>4. p \in Bijection(D, D) /\ sorted = [k \in D |-> c.records[p[k]]]
  BY <1>2, <1>3 DEF Permutations, Ordered
<1>5. /\ \A k \in D : p[k] \in D
      /\ \A m \in D : \E k \in D : p[k] = m
      /\ \A j, k \in D : p[j] = p[k] => j = k
  BY <1>4 DEF Bijection, Injection, IsInjective, Surjection
<1>6. D = 1 .. Len(c.records) /\ \A k \in D : sorted[k] = c.records[p[k]]
  BY <1>1, <1>3, <1>4
<1>7. InOrder(c, sorted, p)
  BY <1>5, <1>6 DEF InOrder
<1> QED BY <1>7

\* Rows in the order of their indices, of which there is one for every cell.
LEMMA DenseRows ==
    ASSUME NEW n \in Nat, n >= 1, NEW x, \A k \in 1 .. n : x[k] \in Cells,
           \A j, k \in 1 .. n : j < k => x[j] <= x[k],
           \A i \in Cells : \E k \in 1 .. n : x[k] = i
    PROVE  /\ x[n] = ArraySize - 1
           /\ \A k \in 1 .. n - 1 : x[k + 1] = x[k] \/ x[k + 1] = x[k] + 1
<1>1. PICK a \in Nat : a = ArraySize /\ a >= 1 /\ Cells = 0 .. a - 1
  BY SizeOfArray DEF Cells
<1>2. x[n] = a - 1
  <2>1. PICK k \in 1 .. n : x[k] = a - 1
    BY <1>1
  <2>2. x[k] <= x[n] /\ x[n] \in 0 .. a - 1
    <3>1. n \in 1 .. n /\ (k < n \/ k = n)
      OBVIOUS
    <3>2. x[n] \in 0 .. a - 1 /\ x[k] \in 0 .. a - 1
      BY <1>1, <3>1
    <3> QED BY <3>1, <3>2
  <2> QED BY <1>1, <2>1, <2>2
<1>3. ASSUME NEW k \in 1 .. n - 1 PROVE x[k + 1] = x[k] \/ x[k + 1] = x[k] + 1
  <2>1. k \in 1 .. n /\ k + 1 \in 1 .. n /\ k < k + 1
    OBVIOUS
  <2>2. x[k] \in 0 .. a - 1 /\ x[k + 1] \in 0 .. a - 1 /\ x[k] <= x[k + 1]
    BY <1>1, <2>1
  <2>3. ASSUME x[k + 1] > x[k] + 1 PROVE FALSE
    <3>1. x[k] + 1 \in Cells
      BY <1>1, <2>2, <2>3
    <3>2. PICK m \in 1 .. n : x[m] = x[k] + 1
      BY <3>1
    <3>3. m < k \/ m = k \/ m = k + 1 \/ k + 1 < m
      OBVIOUS
    <3>4. m < k => x[m] <= x[k]
      BY <2>1
    <3>5. k + 1 < m => x[k + 1] <= x[m]
      BY <2>1
    <3> QED BY <2>2, <2>3, <3>2, <3>3, <3>4, <3>5
  <2> QED BY <2>2, <2>3
<1> QED BY <1>1, <1>2, <1>3

\* The indices of the second list.
LEMMA IndicesSorted ==
    ASSUME NEW c, NEW d, NEW sorted, FinalizedWith(d, c, sorted)
    PROVE  /\ \A k \in 1 .. Len(c.records) : sorted[k].index \in Cells
           /\ sorted[Len(c.records)].index = ArraySize - 1
           /\ \A k \in 1 .. Len(c.records) - 1 :
                 sorted[k + 1].index = sorted[k].index \/ sorted[k + 1].index = sorted[k].index + 1
<1>1. PICK n \in Nat : n = Len(c.records) /\ DOMAIN c.records = 1 .. n /\ n >= 1
  BY SomeRecord DEF FinalizedWith
<1>2. Built(c) /\ AllSet(c) /\ sorted \in Orders(c) /\ sorted \in Sortings(c) /\ IndicesRead(c)
  BY DEF FinalizedWith, Sortings, Built, Faithful
<1>a. PICK p : InOrder(c, sorted, p)
  BY <1>2, OrderIs
<1>3. /\ \A k \in 1 .. n : p[k] \in 1 .. n /\ sorted[k] = c.records[p[k]]
      /\ \A m \in 1 .. n : \E k \in 1 .. n : p[k] = m
  BY <1>1, <1>a DEF InOrder
<1>b. \A m \in 1 .. n : c.records[m].index \in Cells
  BY <1>1, <1>2 DEF IndicesRead
<1>4. PICK x : x = [k \in 1 .. n |-> sorted[k].index]
  OBVIOUS
<1>5. \A k \in 1 .. n : x[k] = sorted[k].index /\ x[k] \in Cells
  BY <1>3, <1>4, <1>b
<1>6. ASSUME NEW j \in 1 .. n, NEW k \in 1 .. n, j < k PROVE x[j] <= x[k]
  <2>1. DOMAIN sorted = 1 .. n
    BY <1>1, <1>2, OrderedIs
  <2>2. ~ Precedes(c, sorted[k], sorted[j])
    BY <1>2, <1>6, <2>1 DEF Sortings
  <2>3. ~ (x[k] < x[j])
    BY <1>5, <2>2 DEF Precedes
  <2>4. x[k] \in Int /\ x[j] \in Int
    BY <1>5, CellNumbers
  <2> QED BY <2>3, <2>4
<1>7. ASSUME NEW i \in Cells PROVE \E k \in 1 .. n : x[k] = i
  <2>1. PICK m \in 1 .. n : i \in DOMAIN c.constants /\ SetBy(c, i, m)
    BY <1>1, <1>2 DEF AllSet, Built, CellsHeld
  <2>2. c.variables[c.records[m].w[1]] = i
    BY <1>2, <2>1, ConstantIs DEF SetBy
  <2>3. c.records[m].index = i
    BY <1>1, <1>2, <2>2, CellIsIndex DEF IndicesRead
  <2>4. PICK k \in 1 .. n : p[k] = m
    BY <1>3
  <2> QED BY <1>3, <1>5, <2>3, <2>4
<1>8. /\ x[n] = ArraySize - 1
      /\ \A k \in 1 .. n - 1 : x[k + 1] = x[k] \/ x[k + 1] = x[k] + 1
  <2>1. n \in Nat /\ n >= 1 /\ \A k \in 1 .. n : x[k] \in Cells
    BY <1>1, <1>5
  <2>2. \A j, k \in 1 .. n : j < k => x[j] <= x[k]
    BY <1>6
  <2>3. \A i \in Cells : \E k \in 1 .. n : x[k] = i
    BY <1>7
  <2> QED BY <2>1, <2>2, <2>3, DenseRows
<1>9. n \in 1 .. n /\ \A k \in 1 .. n - 1 : k \in 1 .. n /\ k + 1 \in 1 .. n
  BY <1>1
<1> QED BY <1>1, <1>5, <1>8, <1>9

\* Neighbours of one cell in the second list of a RAM array are neighbours in time.
LEMMA NeighboursInTime ==
    ASSUME NEW c, NEW d, NEW sorted, FinalizedWith(d, c, sorted), c.kind = "RAM",
           NEW p, InOrder(c, sorted, p),
           NEW k \in 1 .. Len(c.records) - 1, sorted[k + 1].index = sorted[k].index
    PROVE  /\ p[k] < p[k + 1]
           /\ \A m \in p[k] + 1 .. p[k + 1] - 1 : c.records[m].index # sorted[k].index
<1>1. PICK n \in Nat : n = Len(c.records) /\ DOMAIN c.records = 1 .. n
  BY SomeRecord DEF FinalizedWith
<1>2. Built(c) /\ sorted \in Orders(c) /\ sorted \in Sortings(c)
  BY DEF FinalizedWith, Sortings
<1>3. /\ \A j \in 1 .. n : p[j] \in 1 .. n /\ sorted[j] = c.records[p[j]]
      /\ \A m \in 1 .. n : \E j \in 1 .. n : p[j] = m
      /\ \A i, j \in 1 .. n : p[i] = p[j] => i = j
  BY <1>1 DEF InOrder
<1>4. \A m \in 1 .. n : c.records[m].timestamp = m - 1
  BY <1>1, <1>2 DEF Built, RecordsFit, RecordFits
<1>5. k \in 1 .. n /\ k + 1 \in 1 .. n /\ k < k + 1 /\ k # k + 1
  BY <1>1
<1>6. ASSUME NEW i \in 1 .. n, NEW j \in 1 .. n, i < j, sorted[i].index = sorted[j].index PROVE p[i] < p[j]
  <2>1. DOMAIN sorted = 1 .. n
    BY <1>1, <1>2, OrderedIs
  <2>2. ~ Precedes(c, sorted[j], sorted[i])
    BY <1>2, <1>6, <2>1 DEF Sortings
  <2>3. ~ (sorted[j].timestamp < sorted[i].timestamp)
    BY <1>6, <2>2 DEF Precedes
  <2>4. sorted[j].timestamp = p[j] - 1 /\ sorted[i].timestamp = p[i] - 1
    BY <1>3, <1>4
  <2>5. p[i] # p[j] /\ p[i] \in 1 .. n /\ p[j] \in 1 .. n
    BY <1>3, <1>6
  <2> QED BY <2>3, <2>4, <2>5
<1>7. p[k] < p[k + 1] /\ p[k] \in 1 .. n /\ p[k + 1] \in 1 .. n
  BY <1>3, <1>5, <1>6
<1>8. ASSUME NEW m \in p[k] + 1 .. p[k + 1] - 1, c.records[m].index = sorted[k].index PROVE FALSE
  <2>1. m \in 1 .. n /\ p[k] < m /\ m < p[k + 1]
    BY <1>7
  <2>2. PICK j \in 1 .. n : p[j] = m
    BY <1>3, <2>1
  <2>3. sorted[j].index = sorted[k].index /\ sorted[j].index = sorted[k + 1].index
    BY <1>3, <1>8, <2>2
  <2>4. j < k \/ j = k \/ j = k + 1 \/ k + 1 < j
    BY <1>5
  <2>5. j < k => p[j] < p[k]
    BY <1>5, <1>6, <2>3
  <2>6. k + 1 < j => p[k + 1] < p[j]
    BY <1>5, <1>6, <2>3
  <2> QED BY <1>7, <2>1, <2>2, <2>4, <2>5, <2>6
<1> QED BY <1>7, <1>8

\* The values that record r reads are those of its cell.
CellValued(c, d, r) ==
    /\ c.variables[r.w[2]] = d.variables[c.state[r.index][1]]
    /\ c.variables[r.w[3]] = d.variables[c.state[r.index][2]]

\* The indices are as the records have them, and the records of a ROM array those of their cells.
LEMMA WellUsedIs ==
    ASSUME NEW c, NEW d, NEW sorted, FinalizedWith(d, c, sorted), WellUsed(d), NEW m \in 1 .. Len(c.records)
    PROVE  /\ c.variables[c.records[m].w[1]] = c.records[m].index
           /\ c.kind = "ROM" => CellValued(c, d, c.records[m])
<1>1. DOMAIN c.records = 1 .. Len(c.records)
  BY DEF FinalizedWith, Built, Circuits
<1>2. d.records = c.records /\ d.state = c.state /\ d.kind = c.kind
  BY DEF FinalizedWith, FinalizedAs
<1>3. \A j \in 1 .. 3 : d.variables[c.records[m].w[j]] = c.variables[c.records[m].w[j]]
  <2>1. AccessKept(c, d, c.records[m])
    BY WiresOfAccess
  <2> QED BY <2>1 DEF AccessKept
<1>4. /\ d.variables[c.records[m].w[1]] = c.records[m].index
      /\ c.kind = "ROM" => AgreesWithCell(d, d.variables, c.records[m], c.records[m].index)
  BY <1>1, <1>2 DEF WellUsed
<1>5. PICK r : r = c.records[m]
  OBVIOUS
<1>6. \A j \in 1 .. 3 : d.variables[r.w[j]] = c.variables[r.w[j]]
  BY <1>3, <1>5
<1>7. /\ d.variables[r.w[1]] = c.variables[r.w[1]] /\ d.variables[r.w[2]] = c.variables[r.w[2]]
      /\ d.variables[r.w[3]] = c.variables[r.w[3]]
  BY <1>6
<1>8. ASSUME c.kind = "ROM" PROVE CellValued(c, d, r)
  <2>1. AgreesWithCell(d, d.variables, r, r.index)
    BY <1>4, <1>5, <1>8
  <2> QED BY <1>2, <1>7, <2>1 DEF AgreesWithCell, CellValued
<1>9. c.variables[r.w[1]] = r.index
  BY <1>4, <1>5, <1>7
<1> QED BY <1>5, <1>8, <1>9

LEMMA HonestListsAgree ==
    ASSUME NEW c, NEW d, NEW sorted, FinalizedWith(d, c, sorted), WellUsed(d)
    PROVE  SetsAgree(d, FilledIn(d))
<1>1. PICK n \in Nat, l \in Nat : n = Len(c.records) /\ l = Len(c.gates)
  BY SomeRecord, FieldsOfCircuit DEF Built, FinalizedWith
<1>2. Built(c) /\ AllSet(c) /\ sorted \in Orders(c) /\ FinalizedAs(d, c)
  BY DEF FinalizedWith, Sortings
<1>3. PICK q : InOrder(c, sorted, q)
  BY <1>2, OrderIs
<1>4. /\ \A k \in 1 .. n : q[k] \in 1 .. n /\ sorted[k] = c.records[q[k]]
      /\ \A m \in 1 .. n : \E k \in 1 .. n : q[k] = m
      /\ \A j, k \in 1 .. n : q[j] = q[k] => j = k
  BY <1>1, <1>3 DEF InOrder
<1>5. PICK f : f = FilledIn(d)
  OBVIOUS
<1>6. \A k \in 1 .. n : f[l + k] = f[c.records[q[k]].gate]
  <2>1. ASSUME NEW k \in 1 .. n PROVE f[l + k] = f[c.records[q[k]].gate]
    <3>1. FilledRows(d, c, sorted)
      BY RowsAreFilled
    <3>2. PICK m \in 1 .. n : m = q[k] /\ sorted[k] = c.records[m]
      BY <1>4
    <3>3. f[l + k] = ListedRow(c, c.records[m]) /\ f[c.records[m].gate] = AccessValue(c.records[m], c.variables)
      BY <1>1, <1>5, <3>1, <3>2 DEF FilledRows
    <3>4. c.variables[c.records[m].w[1]] = c.records[m].index
      BY <1>1, WellUsedIs
    <3> QED BY <3>2, <3>3, <3>4 DEF ListedRow, AccessValue
  <2> QED BY <2>1
<1>7. /\ TaggedRows(d, "access") = {c.records[m].gate : m \in 1 .. n}
      /\ TaggedRows(d, "sorted") = l + 1 .. l + n
      /\ IsFiniteSet(DOMAIN d.gates)
  BY <1>1, <1>2, TaggedAre
<1>8. \A j, m \in 1 .. n : c.records[j].gate = c.records[m].gate => j = m
  BY <1>1, <1>2, GatesOfRecords
<1>9. ASSUME NEW r
      PROVE  Cardinality({k \in TaggedRows(d, "access") : f[k] = r})
               = Cardinality({k \in TaggedRows(d, "sorted") : f[k] = r})
  <2>1. PICK A, B : A = {k \in TaggedRows(d, "access") : f[k] = r} /\ B = {k \in TaggedRows(d, "sorted") : f[k] = r}
    OBVIOUS
  <2>2. IsFiniteSet(B)
    <3>1. B \subseteq DOMAIN d.gates
      BY <2>1 DEF TaggedRows
    <3> QED BY <1>7, <3>1, FS_Subset
  <2>3. PICK h : h = [b \in B |-> c.records[q[b - l]].gate]
    OBVIOUS
  <2>4. /\ \A b \in B : b - l \in 1 .. n /\ l + (b - l) = b /\ f[b] = r
        /\ \A k \in 1 .. n : f[l + k] = r => l + k \in B
        /\ \A k \in 1 .. n : (l + k) - l = k
    <3>1. /\ \A b \in l + 1 .. l + n : b - l \in 1 .. n /\ l + (b - l) = b
          /\ \A k \in 1 .. n : l + k \in l + 1 .. l + n /\ (l + k) - l = k
      OBVIOUS
    <3>2. \A b : b \in B <=> b \in l + 1 .. l + n /\ f[b] = r
      BY <1>7, <2>1, Zenon
    <3> QED BY <3>1, <3>2
  <2>5. h \in [B -> A]
    <3>1. ASSUME NEW b \in B PROVE h[b] \in A
      <4>1. b - l \in 1 .. n /\ l + (b - l) = b /\ f[b] = r
        BY <2>4
      <4>2. PICK k \in 1 .. n : k = b - l /\ f[l + k] = r
        BY <4>1
      <4>3. f[c.records[q[k]].gate] = r /\ q[k] \in 1 .. n
        BY <1>4, <1>6, <4>2
      <4>4. c.records[q[k]].gate \in A
        BY <1>7, <2>1, <4>3
      <4> QED BY <2>3, <4>2, <4>4
    <3> QED BY <2>3, <3>1
  <2>6. ASSUME NEW a \in B, NEW b \in B, h[a] = h[b] PROVE a = b
    <3>1. PICK j \in 1 .. n, k \in 1 .. n : j = a - l /\ k = b - l /\ l + j = a /\ l + k = b
      BY <2>4
    <3>2. c.records[q[j]].gate = c.records[q[k]].gate
      BY <2>3, <2>6, <3>1
    <3>3. q[j] = q[k]
      BY <1>4, <1>8, <3>2
    <3> QED BY <1>4, <3>1, <3>3
  <2>7. ASSUME NEW a \in A PROVE \E b \in B : h[b] = a
    <3>1. PICK m \in 1 .. n : a = c.records[m].gate
      BY <1>7, <2>1
    <3>2. PICK k \in 1 .. n : q[k] = m
      BY <1>4
    <3>3. f[l + k] = r
      BY <1>6, <2>1, <3>1, <3>2
    <3>4. l + k \in B /\ (l + k) - l = k
      BY <2>4, <3>3
    <3> QED BY <2>3, <3>1, <3>2, <3>4
  <2>8. h \in Bijection(B, A)
    BY <2>5, <2>6, <2>7 DEF Bijection, Injection, IsInjective, Surjection
  <2>9. Cardinality(A) = Cardinality(B)
    BY <2>2, <2>8, FS_Bijection DEF ExistsBijection
  <2> QED BY <2>1, <2>9
<1> QED BY <1>5, <1>9 DEF SetsAgree

\* The gates of the accesses and of the constants hold.
LEMMA HonestAccesses ==
    ASSUME NEW c, NEW d, NEW sorted, FinalizedWith(d, c, sorted), NEW g \in 1 .. Len(c.gates)
    PROVE  GateHolds(d, g, d.variables, FilledIn(d))
<1>1. DOMAIN c.records = 1 .. Len(c.records) /\ DOMAIN c.gates = 1 .. Len(c.gates)
  BY DEF FinalizedWith, Built, Circuits
<1>2. Built(c) /\ AllSet(c) /\ FinalizedAs(d, c)
  BY DEF FinalizedWith
<1>3. d.gates[g] = c.gates[g]
  BY <1>2 DEF FinalizedAs
<1>4. CASE \E m \in DOMAIN c.records : c.records[m].gate = g
  <2>1. PICK m \in 1 .. Len(c.records) : c.records[m].gate = g
    BY <1>1, <1>4
  <2>2. PICK r, a : r = c.records[m] /\ a = c.gates[g]
    OBVIOUS
  <2>3. /\ a.type = AccessGate(c, r.access)
        /\ a.w[1] = r.w[1] /\ a.w[2] = r.w[2] /\ a.w[3] = r.w[3]
        /\ c.kind = "ROM" => r.access = "READ"
    BY <1>1, <1>2, <2>1, <2>2 DEF Built, RecordsFit, RecordFits
  <2>4. FilledIn(d)[g] = AccessValue(r, c.variables)
    BY <2>1, <2>2, RowsAreFilled DEF FilledRows
  <2>5. \A j \in 1 .. 3 : d.variables[r.w[j]] = c.variables[r.w[j]]
    <3>1. AccessKept(c, d, c.records[m])
      BY WiresOfAccess
    <3> QED BY <2>2, <3>1 DEF AccessKept
  <2>6. r.access \in {"READ", "WRITE"}
    BY <1>1, <1>2, <2>2, AccessKinds
  <2>7. FilledIn(d)[g] = RecordValue(a, d.variables, IF r.access = "WRITE" THEN 1 ELSE 0)
    BY <2>3, <2>4, <2>5 DEF AccessValue, RecordValue
  <2>8. CASE r.access = "WRITE"
    <3>1. a.type = "RAM_WRITE"
      BY <2>3, <2>8 DEF AccessGate
    <3> QED BY <1>3, <2>2, <2>7, <2>8, <3>1 DEF GateHolds
  <2>9. CASE r.access = "READ"
    <3>1. a.type \in {"ROM_READ", "RAM_READ"}
      BY <2>3, <2>9 DEF AccessGate
    <3> QED BY <1>3, <2>2, <2>7, <2>9, <3>1 DEF GateHolds
  <2> QED BY <2>6, <2>8, <2>9
<1>5. CASE c.gates[g].type = "FIX"
  <2>1. c.gates[g].w[1] \in 1 .. NumVariables(c) /\ c.variables[c.gates[g].w[1]] = c.gates[g].c
    BY <1>1, <1>2, <1>5 DEF Built, Faithful, FixesHold
  <2>2. d.variables[c.gates[g].w[1]] = c.gates[g].c
    BY <2>1 DEF FinalizedWith, FilledAs, ListValued
  <2> QED BY <1>3, <1>5, <2>2 DEF GateHolds
<1> QED BY <1>1, <1>2, <1>4, <1>5 DEF Built, OthersFix

\* The difference of an index and the next one, in the field.
LEMMA DifferenceOfCells ==
    ASSUME NEW a \in Cells, NEW b, b = a \/ b = a + 1
    PROVE  /\ b = a => (b -- a) = 0
           /\ b = a + 1 => (b -- a) = 1
           /\ (b -- a) \in {0, 1}
<1>1. PICK M \in Nat : M = Modulus /\ M > 1
  BY FieldAssumption
<1>2. a \in Nat
  BY CellNumbers
<1>3. 0 % M = 0 /\ 1 % M = 1
  BY <1>1
<1>4. b = a => b - a = 0
  BY <1>2
<1>5. b = a + 1 => b - a = 1
  BY <1>2
<1> QED BY <1>1, <1>3, <1>4, <1>5 DEF --

\* The gates of the second list of a ROM array hold.
LEMMA HonestRomRows ==
    ASSUME NEW c, NEW d, NEW sorted, FinalizedWith(d, c, sorted), c.kind = "ROM", WellUsed(d),
           NEW k \in 1 .. Len(c.records)
    PROVE  GateHolds(d, Len(c.gates) + k, d.variables, FilledIn(d))
<1>1. PICK n \in Nat, l \in Nat : n = Len(c.records) /\ l = Len(c.gates) /\ DOMAIN c.records = 1 .. n /\ k \in 1 .. n
  BY SomeRecord, FieldsOfCircuit DEF Built, FinalizedWith
<1>2. Built(c) /\ AllSet(c) /\ sorted \in Orders(c) /\ FinalizedAs(d, c) /\ FilledAs(d, c, sorted)
  BY DEF FinalizedWith, Sortings
<1>3. PICK f, g, h : f = FilledIn(d) /\ g = d.gates[l + k] /\ h = d.gates[(l + k) + 1]
  OBVIOUS
<1>4. g.type = "ROM_CHECK"
  BY <1>1, <1>2, <1>3 DEF FinalizedAs
<1>5. \A j \in 1 .. n : \E m \in 1 .. n : sorted[j] = c.records[m]
  <2>1. \A j \in DOMAIN c.records : \E m \in DOMAIN c.records : sorted[j] = c.records[m]
    BY <1>2, OrderedIs
  <2> QED BY <1>1, <2>1
<1>6. ASSUME NEW j \in 1 .. n
      PROVE  /\ f[l + j] = <<sorted[j].index, c.variables[sorted[j].w[2]], c.variables[sorted[j].w[3]], 0>>
             /\ c.variables[sorted[j].w[2]] = d.variables[c.state[sorted[j].index][1]]
             /\ c.variables[sorted[j].w[3]] = d.variables[c.state[sorted[j].index][2]]
  <2>1. PICK m \in 1 .. n : sorted[j] = c.records[m]
    BY <1>5
  <2>2. sorted[j].access = "READ"
    <3>1. RecordFits(c, m)
      BY <1>1, <1>2 DEF Built, RecordsFit
    <3> QED BY <2>1, <3>1 DEF RecordFits
  <2>3. f[l + j] = ListedRow(c, sorted[j])
    BY <1>1, <1>3, RowsAreFilled DEF FilledRows
  <2>4. /\ c.variables[c.records[m].w[2]] = d.variables[c.state[c.records[m].index][1]]
        /\ c.variables[c.records[m].w[3]] = d.variables[c.state[c.records[m].index][2]]
    <3>1. CellValued(c, d, c.records[m])
      BY <1>1, WellUsedIs
    <3> QED BY <3>1 DEF CellValued
  <2> QED BY <2>1, <2>2, <2>3, <2>4 DEF ListedRow
<1>7. ASSUME NEW j \in 1 .. n
      PROVE  /\ d.variables[d.gates[l + j].w[1]] = sorted[j].index
             /\ d.variables[d.gates[l + j].w[2]] = c.variables[sorted[j].w[2]]
             /\ d.variables[d.gates[l + j].w[3]] = c.variables[sorted[j].w[3]]
  <2>1. ListWired(d, c, d.gates[l + j], sorted[j])
    BY <1>1, WiresOfList
  <2> QED BY <2>1 DEF ListWired
<1>8. f[l + k] = RecordValue(g, d.variables, 0) /\ d.variables[g.w[1]] = sorted[k].index /\ sorted[k].index \in Cells
  <2>1. sorted[k].index \in Cells
    BY IndicesSorted
  <2> QED BY <1>1, <1>3, <1>6, <1>7, <2>1 DEF RecordValue
<1>9. /\ (d.variables[h.w[1]] -- sorted[k].index) \in {0, 1}
      /\ (d.variables[h.w[1]] -- sorted[k].index) # 1 => f[(l + k) + 1] = f[l + k]
  <2>1. CASE k = n
    <3>1. d.variables[h.w[1]] = ArraySize
      <4>1. (l + k) + 1 = l + n + 1
        BY <2>1
      <4> QED BY <1>1, <1>2, <1>3, <4>1 DEF FilledAs
    <3>2. sorted[k].index = ArraySize - 1
      BY <1>1, <2>1, IndicesSorted
    <3>3. ArraySize = sorted[k].index + 1
      BY <3>2, SizeOfArray
    <3> QED BY <1>8, <3>1, <3>3, DifferenceOfCells
  <2>2. CASE k # n
    <3>1. k + 1 \in 1 .. n /\ k \in 1 .. n - 1 /\ (l + k) + 1 = l + (k + 1)
      <4>1. k \in 1 .. n /\ k # n
        BY <1>1, <2>2
      <4> QED BY <4>1
    <3>2. d.variables[h.w[1]] = sorted[k + 1].index
      BY <1>3, <1>7, <3>1
    <3>3. sorted[k + 1].index = sorted[k].index \/ sorted[k + 1].index = sorted[k].index + 1
      BY <1>1, <3>1, IndicesSorted
    <3>4. /\ sorted[k + 1].index = sorted[k].index + 1 => (sorted[k + 1].index -- sorted[k].index) = 1
          /\ (sorted[k + 1].index -- sorted[k].index) \in {0, 1}
      BY <1>8, <3>3, DifferenceOfCells
    <3>5. sorted[k + 1].index = sorted[k].index => f[l + (k + 1)] = f[l + k]
      <4>1. PICK j \in 1 .. n : j = k + 1
        BY <3>1
      <4>2. PICK a, b : a = sorted[k] /\ b = sorted[j]
        OBVIOUS
      <4>3. ASSUME b.index = a.index PROVE f[l + j] = f[l + k]
        <5>1. /\ c.variables[a.w[2]] = c.variables[b.w[2]]
              /\ c.variables[a.w[3]] = c.variables[b.w[3]]
          BY <1>1, <1>6, <4>2, <4>3, ZenonT(60)
        <5>2. /\ f[l + k] = <<a.index, c.variables[a.w[2]], c.variables[a.w[3]], 0>>
              /\ f[l + j] = <<b.index, c.variables[b.w[2]], c.variables[b.w[3]], 0>>
          BY <1>1, <1>6, <4>2
        <5> QED BY <4>3, <5>1, <5>2
      <4> QED BY <4>1, <4>2, <4>3
    <3> QED BY <3>1, <3>2, <3>3, <3>4, <3>5
  <2> QED BY <2>1, <2>2
<1>10. RomConsistent(g, f[l + k], h, f[(l + k) + 1], d.variables)
  BY <1>8, <1>9 DEF RomConsistent
<1> QED BY <1>1, <1>3, <1>4, <1>10 DEF GateHolds

\* The gates of the second list of a RAM array hold.
LEMMA HonestRamRows ==
    ASSUME NEW c, NEW d, NEW sorted, FinalizedWith(d, c, sorted), c.kind = "RAM",
           NEW k \in 1 .. Len(c.records)
    PROVE  GateHolds(d, Len(c.gates) + k, d.variables, FilledIn(d))
<1>1. PICK n \in Nat, l \in Nat : n = Len(c.records) /\ l = Len(c.gates) /\ DOMAIN c.records = 1 .. n /\ k \in 1 .. n
  BY SomeRecord, FieldsOfCircuit DEF Built, FinalizedWith
<1>2. Built(c) /\ AllSet(c) /\ sorted \in Orders(c) /\ FinalizedAs(d, c) /\ FilledAs(d, c, sorted)
  BY DEF FinalizedWith, Sortings
<1>3. PICK f, g, h : f = FilledIn(d) /\ g = d.gates[l + k] /\ h = d.gates[(l + k) + 1]
  OBVIOUS
<1>4. g.type = (IF k < n THEN "RAM_CHECK" ELSE "FIX") /\ g.c = ArraySize - 1
  BY <1>1, <1>2, <1>3 DEF FinalizedAs
<1>5. ASSUME NEW j \in 1 .. n
      PROVE  /\ d.variables[d.gates[l + j].w[1]] = sorted[j].index
             /\ d.variables[d.gates[l + j].w[2]] = c.variables[sorted[j].w[2]]
             /\ d.variables[d.gates[l + j].w[3]] = c.variables[sorted[j].w[3]]
  <2>1. ListWired(d, c, d.gates[l + j], sorted[j])
    BY <1>1, WiresOfList
  <2> QED BY <2>1 DEF ListWired
<1>6. sorted[k].index \in Cells
  BY IndicesSorted
<1>7. CASE k = n
  <2>1. g.type = "FIX" /\ sorted[k].index = ArraySize - 1
    BY <1>1, <1>4, <1>7, IndicesSorted
  <2>2. d.variables[g.w[1]] = g.c
    BY <1>3, <1>4, <1>5, <1>1, <2>1
  <2> QED BY <1>1, <1>3, <2>1, <2>2 DEF GateHolds
<1>8. CASE k # n
  <2>1. k + 1 \in 1 .. n /\ k \in 1 .. n - 1 /\ (l + k) + 1 = l + (k + 1) /\ k < n
    <3>1. k \in 1 .. n /\ k # n
      BY <1>1, <1>8
    <3> QED BY <3>1
  <2>2. PICK p : InOrder(c, sorted, p)
    BY <1>2, OrderIs
  <2>3. /\ p[k] \in 1 .. n /\ p[k + 1] \in 1 .. n
        /\ sorted[k] = c.records[p[k]] /\ sorted[k + 1] = c.records[p[k + 1]]
    BY <1>1, <2>1, <2>2 DEF InOrder
  <2>4. ASSUME NEW j \in 1 .. n
        PROVE  f[l + j] = RecordValue(d.gates[l + j], d.variables, IF sorted[j].access = "WRITE" THEN 1 ELSE 0)
    <3>1. f[l + j] = ListedRow(c, sorted[j])
      BY <1>1, <1>3, RowsAreFilled DEF FilledRows
    <3> QED BY <1>5, <3>1 DEF ListedRow, RecordValue
  <2>5. /\ f[l + k] \in {RecordValue(g, d.variables, 0), RecordValue(g, d.variables, 1)}
        /\ f[(l + k) + 1] = RecordValue(h, d.variables, IF sorted[k + 1].access = "WRITE" THEN 1 ELSE 0)
    BY <1>1, <1>3, <2>1, <2>4
  <2>6. d.variables[g.w[1]] = sorted[k].index /\ d.variables[h.w[1]] = sorted[k + 1].index
    BY <1>1, <1>3, <1>5, <2>1
  <2>7. sorted[k + 1].index = sorted[k].index \/ sorted[k + 1].index = sorted[k].index + 1
    BY <1>1, <2>1, IndicesSorted
  <2>8. /\ sorted[k + 1].index = sorted[k].index + 1 => (sorted[k + 1].index -- sorted[k].index) = 1
        /\ (sorted[k + 1].index -- sorted[k].index) \in {0, 1}
    BY <1>6, <2>7, DifferenceOfCells
  <2>9. ASSUME sorted[k + 1].index = sorted[k].index, f[(l + k) + 1] = RecordValue(h, d.variables, 0)
        PROVE  d.variables[g.w[3]] = d.variables[h.w[3]]
    <3>1. sorted[k + 1].access = "READ"
      <4>1. sorted[k + 1].access \in {"READ", "WRITE"}
        BY <1>1, <1>2, <2>3, AccessKinds
      <4>2. RecordValue(h, d.variables, 0)[4] = 0 /\ RecordValue(h, d.variables, 1)[4] = 1
        BY DEF RecordValue
      <4> QED BY <2>5, <2>9, <4>1, <4>2
    <3>2. PICK i, x, m : /\ i = sorted[k].index /\ x = c.variables[sorted[k + 1].w[3]]
                         /\ m = p[k + 1] /\ m \in 1 .. n
      BY <2>3
    <3>3. LastValue(c, i, m - 1, x)
      <4>1. ReadsHonest(c)
        BY <1>2 DEF Built, Faithful
      <4>2. c.records[m].access = "READ" /\ c.records[m].index = i /\ c.variables[c.records[m].w[3]] = x
        BY <2>3, <2>9, <3>1, <3>2
      <4> QED BY <1>1, <3>2, <4>1, <4>2 DEF ReadsHonest
    <3>4. PICK j \in 1 .. m - 1 : /\ c.records[j].index = i /\ c.variables[c.records[j].w[3]] = x
                                  /\ \A q \in j + 1 .. m - 1 : c.records[q].index # i
      BY <3>3 DEF LastValue
    <3>5. PICK b \in 1 .. n : b = p[k]
      BY <2>3
    <3>6. b < m /\ \A q \in b + 1 .. m - 1 : c.records[q].index # i
      BY <1>1, <2>1, <2>2, <2>9, <3>2, <3>5, NeighboursInTime
    <3>7. c.records[b].index = i
      BY <2>3, <3>2, <3>5
    <3>8. j = b
      <4>1. ~ (j < b)
        <5>1. j < b => b \in j + 1 .. m - 1
          BY <3>2, <3>6
        <5> QED BY <3>4, <3>7, <5>1
      <4>2. ~ (b < j)
        <5>1. b < j => j \in b + 1 .. m - 1
          BY <3>6
        <5> QED BY <3>4, <3>6, <5>1
      <4> QED BY <4>1, <4>2
    <3>9. c.variables[sorted[k].w[3]] = c.variables[sorted[k + 1].w[3]]
      BY <2>3, <3>2, <3>4, <3>5, <3>8
    <3>10. d.variables[g.w[3]] = c.variables[sorted[k].w[3]] /\ d.variables[h.w[3]] = c.variables[sorted[k + 1].w[3]]
      BY <1>1, <1>3, <1>5, <2>1
    <3> QED BY <3>9, <3>10
  <2>10. RamConsistent(g, f[l + k], h, f[(l + k) + 1], d.variables)
    <3>1. f[(l + k) + 1] \in {RecordValue(h, d.variables, 0), RecordValue(h, d.variables, 1)}
      BY <2>5
    <3>2. /\ (d.variables[h.w[1]] -- d.variables[g.w[1]]) \in {0, 1}
          /\ (d.variables[h.w[1]] -- d.variables[g.w[1]]) # 1 => sorted[k + 1].index = sorted[k].index
      BY <2>6, <2>7, <2>8
    <3> QED BY <2>5, <2>9, <3>1, <3>2 DEF RamConsistent
  <2>11. g.type = "RAM_CHECK"
    BY <1>4, <2>1
  <2> QED BY <1>1, <1>3, <2>10, <2>11 DEF GateHolds
<1> QED BY <1>7, <1>8

\* The comparisons of times hold, and the differences are in their range.
LEMMA TimesDiffer ==
    ASSUME NEW c, NEW d, NEW sorted, FinalizedWith(d, c, sorted), c.kind = "RAM",
           NEW k \in 1 .. Len(c.records) - 1
    PROVE  /\ c.variables[sorted[k].w[2]] = sorted[k].timestamp
           /\ c.variables[sorted[k + 1].w[2]] = sorted[k + 1].timestamp
           /\ sorted[k + 1].timestamp - sorted[k].timestamp \in Int
           /\ sorted[k + 1].index = sorted[k].index =>
                 sorted[k + 1].timestamp - sorted[k].timestamp \in 0 .. Len(c.records) - 1
<1>1. PICK n \in Nat : n = Len(c.records) /\ DOMAIN c.records = 1 .. n
  BY SomeRecord DEF FinalizedWith
<1>2. Built(c) /\ sorted \in Orders(c)
  BY DEF FinalizedWith, Sortings
<1>3. PICK p : InOrder(c, sorted, p)
  BY <1>2, OrderIs
<1>4. k \in 1 .. n /\ k + 1 \in 1 .. n
  BY <1>1
<1>5. /\ p[k] \in 1 .. n /\ p[k + 1] \in 1 .. n
      /\ sorted[k] = c.records[p[k]] /\ sorted[k + 1] = c.records[p[k + 1]]
  BY <1>1, <1>3, <1>4 DEF InOrder
<1>6. ASSUME NEW m \in 1 .. n PROVE c.records[m].timestamp = m - 1 /\ c.variables[c.records[m].w[2]] = m - 1
  <2>1. RecordFits(c, m)
    BY <1>1, <1>2 DEF Built, RecordsFit
  <2>2. /\ c.records[m].timestamp = m - 1 /\ c.records[m].timestamp \in DOMAIN c.constants
        /\ c.records[m].w[2] = c.constants[c.records[m].timestamp]
    BY <2>1 DEF RecordFits
  <2> QED BY <1>2, <2>2, ConstantIs
<1>7. sorted[k].timestamp = p[k] - 1 /\ sorted[k + 1].timestamp = p[k + 1] - 1
  BY <1>5, <1>6
<1>8. sorted[k + 1].index = sorted[k].index => p[k] < p[k + 1]
  BY <1>3, NeighboursInTime
<1>9. PICK a \in 1 .. n, b \in 1 .. n : a = p[k] /\ b = p[k + 1]
  BY <1>5
<1>10. /\ (b - 1) - (a - 1) \in Int
       /\ a < b => (b - 1) - (a - 1) \in 0 .. n - 1
  OBVIOUS
<1>11. c.variables[sorted[k].w[2]] = a - 1 /\ c.variables[sorted[k + 1].w[2]] = b - 1
  BY <1>5, <1>6, <1>9
<1> QED BY <1>1, <1>7, <1>8, <1>9, <1>10, <1>11

LEMMA RoomForTimes ==
    ASSUME NEW c, Built(c) PROVE Len(c.records) < Modulus
<1>1. PICK n \in Nat : n = Len(c.records)
  BY FieldsOfCircuit DEF Built
<1>2. PICK V : V = Vacant(c.state) /\ V \subseteq Cells
  BY DEF Vacant
<1>3. Cardinality(V) \in Nat
  <2>1. IsFiniteSet(Cells)
    BY SizeOfArray, FS_Interval DEF Cells
  <2> QED BY <1>2, <2>1, FS_Subset, FS_CardinalityType
<1>4. n + Cardinality(V) < Modulus
  BY <1>1, <1>2 DEF Built, Faithful, Roomy
<1> QED BY <1>1, <1>3, <1>4, SizeOfArray

\* A difference of times, in the field.
LEMMA PassedIs ==
    ASSUME NEW g, NEW h, NEW val, NEW i \in Cells, NEW j, j = i \/ j = i + 1,
           val[g.w[1]] = i, val[h.w[1]] = j,
           val[h.w[2]] - val[g.w[2]] \in Int,
           j = i => val[h.w[2]] - val[g.w[2]] \in 0 .. Modulus - 1
    PROVE  TimePassed(g, h, val) = IF j = i THEN val[h.w[2]] - val[g.w[2]] ELSE 0
<1>1. PICK M \in Nat, x \in Int : M = Modulus /\ M > 1 /\ x = val[h.w[2]] - val[g.w[2]]
  BY FieldAssumption
<1>2. TimePassed(g, h, val) = (1 -- (j -- i)) ** (x % M)
  BY <1>1 DEF TimePassed, --
<1>3. x % M \in 0 .. M - 1
  BY <1>1
<1>4. CASE j = i
  <2>1. (j -- i) = 0
    BY <1>4, DifferenceOfCells
  <2>2. 1 - 0 = 1 /\ 1 % M = 1
    BY <1>1
  <2>3. (1 -- (j -- i)) = 1
    BY <1>1, <2>1, <2>2 DEF --
  <2>4. x % M = x /\ x \in 0 .. M - 1
    BY <1>1, <1>4
  <2>5. 1 * x = x
    BY <1>1
  <2>6. 1 ** (x % M) = x
    BY <1>1, <2>4, <2>5 DEF **
  <2> QED BY <1>1, <1>2, <1>4, <2>3, <2>6
<1>5. CASE j = i + 1
  <2>1. (j -- i) = 1 /\ j # i
    <3>1. i \in Int
      BY CellNumbers
    <3> QED BY <1>5, <3>1, DifferenceOfCells
  <2>2. 1 - 1 = 0 /\ 0 % M = 0
    BY <1>1
  <2>3. (1 -- (j -- i)) = 0
    BY <1>1, <2>1, <2>2 DEF --
  <2>4. PICK y \in Int : y = x % M
    BY <1>3
  <2>5. 0 * y = 0
    OBVIOUS
  <2>6. 0 ** y = 0
    BY <1>1, <2>2, <2>5 DEF **
  <2> QED BY <1>2, <2>1, <2>3, <2>4, <2>6
<1> QED BY <1>4, <1>5

\* The gates after the second list of a RAM array hold.
LEMMA HonestTimes ==
    ASSUME NEW c, NEW d, NEW sorted, FinalizedWith(d, c, sorted), c.kind = "RAM", WellUsed(d),
           NEW k \in 1 .. Len(c.records)
    PROVE  GateHolds(d, Len(c.gates) + Len(c.records) + k, d.variables, FilledIn(d))
<1>1. PICK n \in Nat, l \in Nat : n = Len(c.records) /\ l = Len(c.gates) /\ DOMAIN c.records = 1 .. n /\ k \in 1 .. n
  BY SomeRecord, FieldsOfCircuit DEF Built, FinalizedWith
<1>2. Built(c) /\ AllSet(c) /\ sorted \in Orders(c) /\ FinalizedAs(d, c) /\ FilledAs(d, c, sorted)
  BY DEF FinalizedWith, Sortings
<1>3. PICK g, h : g = d.gates[l + n + k] /\ h = d.gates[(l + n + k) + 1]
  OBVIOUS
<1>4. \A j \in 1 .. n : ComparesTimes(d, d.gates[l + n + j], sorted, j)
  BY <1>1, <1>2 DEF FilledAs
<1>5. Len(sorted) = n
  BY <1>1, <1>2, OrderedIs
<1>6. CASE k = n
  <2>1. ComparesTimes(d, g, sorted, k) /\ ~ (k < n)
    <3>1. k \in 1 .. n => ComparesTimes(d, d.gates[l + n + k], sorted, k)
      BY <1>4
    <3>2. ComparesTimes(d, g, sorted, k)
      BY <1>1, <1>3, <3>1, Zenon
    <3>3. ~ (k < n)
      BY <1>6
    <3> QED BY <3>2, <3>3
  <2>2. g.type = "EMPTY"
    BY <1>5, <2>1 DEF ComparesTimes
  <2> QED BY <1>1, <1>3, <2>2 DEF GateHolds
<1>7. CASE k # n
  <2>1. k + 1 \in 1 .. n /\ k \in 1 .. n - 1 /\ (l + n + k) + 1 = l + n + (k + 1) /\ k < n /\ k \in 1 .. n
    <3>1. k \in 1 .. n /\ k # n
      BY <1>1, <1>7
    <3> QED BY <3>1
  <2>2. ComparesTimes(d, g, sorted, k) /\ ComparesTimes(d, h, sorted, k + 1)
    BY <1>3, <1>4, <2>1
  <2>3. /\ g.type = "TIMESTAMP" /\ d.variables[g.w[3]] = Delta(sorted[k], sorted[k + 1])
        /\ g.w[1] = sorted[k].w[1] /\ g.w[2] = sorted[k].w[2]
        /\ h.w[1] = sorted[k + 1].w[1] /\ h.w[2] = sorted[k + 1].w[2]
    BY <1>5, <2>1, <2>2 DEF ComparesTimes
  <2>4. \A j \in 1 .. n : \E m \in 1 .. n : sorted[j] = c.records[m]
    <3>1. \A j \in DOMAIN c.records : \E m \in DOMAIN c.records : sorted[j] = c.records[m]
      BY <1>2, OrderedIs
    <3> QED BY <1>1, <3>1
  <2>5. ASSUME NEW j \in 1 .. n
        PROVE  d.variables[sorted[j].w[1]] = sorted[j].index /\ d.variables[sorted[j].w[2]] = c.variables[sorted[j].w[2]]
    <3>1. PICK m \in 1 .. n : sorted[j] = c.records[m]
      BY <2>4
    <3>2. c.variables[c.records[m].w[1]] = c.records[m].index
      BY <1>1, WellUsedIs
    <3>3. ASSUME NEW q \in 1 .. 3 PROVE d.variables[c.records[m].w[q]] = c.variables[c.records[m].w[q]]
      <4>1. m \in 1 .. Len(c.records)
        BY <1>1
      <4>2. AccessKept(c, d, c.records[m])
        BY <4>1, WiresOfAccess
      <4> QED BY <4>2 DEF AccessKept
    <3>4. PICK r : r = sorted[j] /\ r = c.records[m]
      BY <3>1
    <3>5. d.variables[r.w[1]] = c.variables[r.w[1]] /\ d.variables[r.w[2]] = c.variables[r.w[2]]
      BY <3>3, <3>4
    <3>6. c.variables[r.w[1]] = r.index
      BY <3>2, <3>4
    <3> QED BY <3>4, <3>5, <3>6
  <2>6. /\ c.variables[sorted[k].w[2]] = sorted[k].timestamp
        /\ c.variables[sorted[k + 1].w[2]] = sorted[k + 1].timestamp
        /\ sorted[k + 1].timestamp - sorted[k].timestamp \in Int
        /\ sorted[k + 1].index = sorted[k].index => sorted[k + 1].timestamp - sorted[k].timestamp \in 0 .. n - 1
    BY <1>1, <2>1, TimesDiffer
  <2>7. sorted[k].index \in Cells /\ (sorted[k + 1].index = sorted[k].index \/ sorted[k + 1].index = sorted[k].index + 1)
    BY <1>1, <2>1, IndicesSorted
  <2>8. PICK val, i, j, t, u : /\ val = d.variables /\ i = sorted[k].index /\ j = sorted[k + 1].index
                               /\ t = sorted[k].timestamp /\ u = sorted[k + 1].timestamp
    OBVIOUS
  <2>9. val[g.w[1]] = i /\ val[h.w[1]] = j /\ val[g.w[2]] = t /\ val[h.w[2]] = u
    BY <2>1, <2>3, <2>5, <2>6, <2>8
  <2>10. u - t \in Int /\ (j = i => u - t \in 0 .. Modulus - 1)
    <3>1. n < Modulus
      BY <1>1, <1>2, RoomForTimes
    <3>2. j = i => u - t \in 0 .. n - 1
      BY <2>6, <2>8
    <3>3. \A x \in 0 .. n - 1 : x \in 0 .. Modulus - 1
      BY <3>1, SizeOfArray
    <3> QED BY <2>6, <2>8, <3>2, <3>3
  <2>11. TimePassed(g, h, val) = IF j = i THEN u - t ELSE 0
    BY <2>7, <2>8, <2>9, <2>10, PassedIs
  <2>12. val[g.w[3]] = IF j = i THEN u - t ELSE 0
    BY <2>3, <2>8 DEF Delta
  <2> QED BY <1>1, <1>3, <2>3, <2>8, <2>11, <2>12 DEF GateHolds, TimesCompared
<1> QED BY <1>6, <1>7

\* The ranges hold.
LEMMA HonestRanges ==
    ASSUME NEW c, NEW d, NEW sorted, FinalizedWith(d, c, sorted)
    PROVE  RangesHold(d, d.variables)
<1>1. Built(c) /\ AllSet(c) /\ FilledAs(d, c, sorted)
  BY DEF FinalizedWith
<1>2. CASE c.kind = "ROM"
  BY <1>1, <1>2 DEF FilledAs, RangesHold
<1>3. CASE c.kind = "RAM"
  <2>1. PICK n \in Nat : n = Len(c.records) /\ n >= 1 /\ c.access_count = n
    BY <1>1, <1>3, SomeRecord DEF Built, Counted
  <2>2. ASSUME NEW r \in d.ranges PROVE d.variables[r[1]] <= r[2]
    <3>1. PICK k \in 1 .. n - 1 : d.variables[r[1]] = Delta(sorted[k], sorted[k + 1]) /\ r[2] = n - 1
      BY <1>1, <1>3, <2>1, <2>2 DEF FilledAs
    <3>2. sorted[k + 1].index = sorted[k].index => sorted[k + 1].timestamp - sorted[k].timestamp \in 0 .. n - 1
      BY <1>3, <2>1, TimesDiffer
    <3>3. Delta(sorted[k], sorted[k + 1]) \in 0 .. n - 1
      BY <2>1, <3>2 DEF Delta
    <3> QED BY <3>1, <3>3
  <2> QED BY <2>2 DEF RangesHold
<1>4. c.kind = "ROM" \/ c.kind = "RAM"
  BY <1>1 DEF Built, AllSet, Circuits
<1> QED BY <1>2, <1>3, <1>4

\* The witness of a program that uses the array well is accepted.
LEMMA WellUsedIsAccepted ==
    ASSUME NEW c, NEW d, NEW sorted, FinalizedWith(d, c, sorted), WellUsed(d)
    PROVE  Satisfied(d, d.variables, FilledIn(d))
<1>1. PICK n \in Nat, l \in Nat : n = Len(c.records) /\ l = Len(c.gates)
  BY SomeRecord, FieldsOfCircuit DEF Built, FinalizedWith
<1>2. Built(c) /\ AllSet(c) /\ FinalizedAs(d, c) /\ FilledAs(d, c, sorted)
  BY DEF FinalizedWith
<1>3. DOMAIN d.gates = 1 .. l + n + (IF c.kind = "ROM" THEN 1 ELSE n)
  BY <1>1, <1>2 DEF FinalizedAs
<1>4. c.kind = "ROM" \/ c.kind = "RAM"
  BY <1>2 DEF Built, AllSet, Circuits
<1>5. ASSUME NEW k \in DOMAIN d.gates PROVE GateHolds(d, k, d.variables, FilledIn(d))
  <2>1. \/ k \in 1 .. l
        \/ \E j \in 1 .. n : k = l + j
        \/ c.kind = "ROM" /\ k = l + n + 1
        \/ c.kind = "RAM" /\ \E j \in 1 .. n : k = l + n + j
    <3>1. k \in 1 .. l + n + (IF c.kind = "ROM" THEN 1 ELSE n) /\ k \in Int
      BY <1>3
    <3>2. k > l /\ k <= l + n => k - l \in 1 .. n /\ k = l + (k - l)
      BY <3>1
    <3>3. k > l + n /\ k <= l + n + n => k - (l + n) \in 1 .. n /\ k = l + n + (k - (l + n))
      BY <3>1
    <3>4. c.kind = "ROM" /\ k > l + n => k = l + n + 1
      BY <3>1
    <3> QED BY <1>4, <3>1, <3>2, <3>3, <3>4
  <2>2. CASE k \in 1 .. l
    BY <1>1, <2>2, HonestAccesses
  <2>3. CASE \E j \in 1 .. n : k = l + j
    <3>1. PICK j \in 1 .. n : k = l + j
      BY <2>3
    <3> QED BY <1>1, <1>4, <3>1, HonestRomRows, HonestRamRows
  <2>4. CASE c.kind = "ROM" /\ k = l + n + 1
    <3>1. PICK g : g = d.gates[k]
      OBVIOUS
    <3>2. g.type = "FIX" /\ g.c = ArraySize /\ d.variables[g.w[1]] = ArraySize
      BY <1>1, <1>2, <2>4, <3>1 DEF FilledAs
    <3> QED BY <3>1, <3>2 DEF GateHolds
  <2>5. CASE c.kind = "RAM" /\ \E j \in 1 .. n : k = l + n + j
    <3>1. PICK j \in 1 .. n : k = l + n + j
      BY <2>5
    <3> QED BY <1>1, <2>5, <3>1, HonestTimes
  <2> QED BY <2>1, <2>2, <2>3, <2>4, <2>5
<1>6. RangesHold(d, d.variables) /\ SetsAgree(d, FilledIn(d))
  BY HonestRanges, HonestListsAgree
<1> QED BY <1>5, <1>6 DEF Satisfied, GatesHold

\* The witness of a run is accepted exactly when the program used the array well: it named cells by their
\* own numbers, and read no pair as a single.
THEOREM HonestWitnessIsAccepted == MemSpec => []HonestAccepted
<1>1. ArraysInv => HonestAccepted
  <2> SUFFICES ASSUME ArraysInv, circuit_finalised
               PROVE  WellUsed(circuit) <=> Satisfied(circuit, circuit.variables, FilledIn(circuit))
    BY DEF HonestAccepted
  <2>1. PICK c : Built(c) /\ AllSet(c) /\ \E sorted \in Sortings(c) : circuit = Processed(c, sorted)
    BY DEF ArraysInv
  <2>2. PICK sorted \in Sortings(c) : circuit = Processed(c, sorted)
    BY <2>1
  <2>3. sorted \in Orders(c)
    BY DEF Sortings
  <2>4. FinalizedAs(circuit, c) /\ FilledAs(circuit, c, sorted)
    BY <2>1, <2>2, <2>3, ProcessedIs, ProcessedFilled
  <2>5. FinalizedWith(circuit, c, sorted)
    BY <2>1, <2>4 DEF FinalizedWith
  <2> QED BY <2>5, AcceptedIsWellUsed, WellUsedIsAccepted
<1> QED BY <1>1, ArraysInvariant, PTL
=============================================================================
