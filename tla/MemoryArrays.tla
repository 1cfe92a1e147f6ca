------------------------------ MODULE MemoryArrays ------------------------------
(***************************************************************************)
(* ROM and RAM arrays of the ultra arithmetization:                        *)
(* proof_system/circuit_constructors/ultra_circuit_constructor.cpp (the    *)
(* plonk composer plonk/composer/ultra_composer.cpp has the same code),    *)
(* and the identities of plookup_auxiliary_widget.hpp.                     *)
(*                                                                         *)
(* An access to an array adds a gate that holds the record of the access:  *)
(* index, two more wires and a fourth wire that sums them up under the     *)
(* challenge eta.  finalize_circuit adds a second, sorted list of records  *)
(* that the tags bind to the first, and the gates that check it.           *)
(*                                                                         *)
(* A circuit is a record.  A field element is a number below Modulus, and  *)
(* the fourth wire, a random combination, is the tuple it combines.        *)
(***************************************************************************)
EXTENDS PrimeField, Sequences, FiniteSets, Functions

CONSTANTS
    IndexModulus,   \* of a uint32_t, to which the value of an index is cast
    ArraySize,      \* cells of the array
    IndexInputs,    \* values of the witnesses a program uses as indices
    ValueInputs,    \* values of the witnesses it stores
    MaxIndices,     \* bound: witnesses used as indices
    MaxValues,      \* bound: witnesses stored
    MaxRecords,     \* bound: records of the array, by its kind
    NumPublic       \* public inputs of the circuit

ASSUME MemoryAssumption ==
    /\ IndexModulus \in 1 .. Modulus - 1 /\ ArraySize \in 1 .. IndexModulus
    /\ IndexInputs \cup ValueInputs \subseteq Field
    /\ \A kind \in {"ROM", "RAM"} : MaxRecords[kind] \in Nat /\ 2 * MaxRecords[kind] <= Modulus   \* a negative difference of times is out of range
    /\ MaxIndices \in Nat /\ MaxValues \in Nat /\ NumPublic \in Nat

VARIABLES
    circuit,            \* the circuit constructor
    circuit_finalised

memVars == <<circuit, circuit_finalised>>

UNINITIALIZED_MEMORY_RECORD == 0    \* no variable: they are numbered from 1

Cells == 0 .. ArraySize - 1

-----------------------------------------------------------------------------
(***************************************************************************)
(* The part of the constructor that the arrays use.                        *)
(***************************************************************************)

\* A circuit whose only variable is the constant zero.  `kind` is "NONE" until an array is made.
EmptyCircuit ==
    [variables     |-> <<0>>,
     constants     |-> [x \in {0} |-> 1],
     gates         |-> << [type |-> "FIX", w |-> <<1, 1, 1, 1>>, c |-> 0] >>,
     kind          |-> "NONE",
     state         |-> [i \in Cells |-> <<UNINITIALIZED_MEMORY_RECORD, UNINITIALIZED_MEMORY_RECORD>>],
     records       |-> << >>,
     access_count  |-> 0,
     tags          |-> {},
     ranges        |-> {},
     read_records  |-> {},
     write_records |-> {}]

zero_idx == 1

NumVariables(c) == Len(c.variables)

AddVariable(c, value) == [c EXCEPT !.variables = Append(@, value)]

AddVariables(c, values) == [c EXCEPT !.variables = @ \o values]

AddGate(c, type, w, k) == [c EXCEPT !.gates = Append(@, [type |-> type, w |-> w, c |-> k])]

PutConstantVariable(c, value) ==
    IF value \in DOMAIN c.constants
    THEN c
    ELSE LET v == NumVariables(c) + 1
         IN  [AddGate(AddVariable(c, value), "FIX", <<v, zero_idx, zero_idx, zero_idx>>, value)
                EXCEPT !.constants = [x \in DOMAIN @ \cup {value} |-> IF x = value THEN v ELSE @[x]]]

-----------------------------------------------------------------------------
(***************************************************************************)
(* A record: the first three wires of its gate (index and two values for   *)
(* ROM; index, time and value for RAM), the numbers it is sorted by, the   *)
(* kind of access, the fourth wire and its gate.                           *)
(***************************************************************************)
AccessGate(c, access) ==
    IF c.kind = "ROM" THEN "ROM_READ" ELSE IF access = "WRITE" THEN "RAM_WRITE" ELSE "RAM_READ"

\* create_ROM_gate, create_RAM_gate, and the record that is appended after them.
AddRecord(c, w, index, timestamp, access) ==
    LET v == NumVariables(c) + 1
        d == AddGate(AddVariable(c, 0), AccessGate(c, access), <<w[1], w[2], w[3], v>>, 0)
    IN  [d EXCEPT !.records = Append(@, [w |-> w, index |-> index, timestamp |-> timestamp, access |-> access,
                                         record_witness |-> v, gate |-> Len(d.gates)])]

Uninitialized(c, i) == c.state[i][1] = UNINITIALIZED_MEMORY_RECORD

\* set_ROM_element_pair; set_ROM_element passes zero_idx for the second value.
SetROM(c, i, values) ==
    LET d == PutConstantVariable(c, i)
    IN  AddRecord([d EXCEPT !.state[i] = values],
                  <<d.constants[i], values[1], values[2]>>, i, 0, "READ")

InitRAM(c, i, value) ==
    LET d == PutConstantVariable(PutConstantVariable(c, i), c.access_count)
    IN  AddRecord([d EXCEPT !.state[i][1] = value, !.access_count = @ + 1],
                  <<d.constants[i], d.constants[c.access_count], value>>, i, c.access_count, "WRITE")

\* The index an access is recorded at: the low bits of the value of its witness.
IndexOf(c, v) == c.variables[v] % IndexModulus

ReadROM(c, v) ==
    LET i == IndexOf(c, v)
        d == AddVariable(c, c.variables[c.state[i][1]])
    IN  AddRecord(d, <<v, NumVariables(d), zero_idx>>, i, 0, "READ")

ReadROMPair(c, v) ==
    LET i == IndexOf(c, v)
        d == AddVariable(AddVariable(c, c.variables[c.state[i][1]]), c.variables[c.state[i][2]])
    IN  AddRecord(d, <<v, NumVariables(c) + 1, NumVariables(c) + 2>>, i, 0, "READ")

ReadRAM(c, v) ==
    LET i == IndexOf(c, v)
        d == PutConstantVariable(AddVariable(c, c.variables[c.state[i][1]]), c.access_count)
        e == AddRecord(d, <<v, d.constants[c.access_count], NumVariables(c) + 1>>, i, c.access_count, "READ")
    IN  [e EXCEPT !.access_count = @ + 1]

WriteRAM(c, v, value) ==
    LET i == IndexOf(c, v)
        d == PutConstantVariable(c, c.access_count)
        e == AddRecord(d, <<v, d.constants[c.access_count], value>>, i, c.access_count, "WRITE")
    IN  [e EXCEPT !.access_count = @ + 1, !.state[i][1] = value]

-----------------------------------------------------------------------------
(***************************************************************************)
(* finalize_circuit: process_ROM_array and process_RAM_array.              *)
(***************************************************************************)
ZeroIfMissing(c, i) ==
    IF ~ Uninitialized(c, i) THEN c
    ELSE IF c.kind = "ROM" THEN SetROM(c, i, <<zero_idx, zero_idx>>)
    ELSE InitRAM(c, i, zero_idx)

\* Every cell that was not set gets the constant zero, in the order of the cells.
Initialized(c) ==
    LET after[i \in 0 .. ArraySize] == IF i = 0 THEN c ELSE ZeroIfMissing(after[i - 1], i - 1)
    IN  after[ArraySize]

Precedes(c, r, s) ==
    r.index < s.index \/ (c.kind = "RAM" /\ r.index = s.index /\ r.timestamp < s.timestamp)

\* The numbers of the records in every order, and the records so ordered.
Permutations(c) == Bijection(DOMAIN c.records, DOMAIN c.records)

Ordered(c, p) == [k \in DOMAIN c.records |-> c.records[p[k]]]

Orders(c) == {Ordered(c, p) : p \in Permutations(c)}

\* The results std::sort may give: elements that compare equal come in any order.
Sortings(c) == {s \in Orders(c) : \A j, k \in DOMAIN s : j < k => ~ Precedes(c, s[k], s[j])}

Row(gate) == gate - 1 + NumPublic

\* Mutant: the rows are taken without the public inputs before them.
Listed_NoOffset(c, sorted, access) ==
    UNION {{Len(c.gates) + k - 1, sorted[k].gate - 1} : k \in {k \in DOMAIN sorted : sorted[k].access = access}}

\* Both gates of a record are remembered for the fourth wire.
Listed(c, sorted, access) ==
    UNION {{Row(Len(c.gates) + k), Row(sorted[k].gate)} : k \in {k \in DOMAIN sorted : sorted[k].access = access}}

\* Four fresh variables for the k-th record of the sorted list, with the values of the record.
\* The second wire of a RAM record is the constant of its time.
FreshWires(c, k) == [j \in 1 .. 4 |-> NumVariables(c) + 4 * (k - 1) + j]

FreshValues(c, r) == <<r.index, c.variables[r.w[2]], c.variables[r.w[3]], 0>>

\* Mutant: the sorted gate takes the variables of the access instead of fresh ones.
SortedGate_SameVariables(c, sorted, k) ==
    [type |-> IF c.kind = "ROM" THEN "ROM_CHECK" ELSE IF k < Len(sorted) THEN "RAM_CHECK" ELSE "FIX",
     w |-> [FreshWires(c, k) EXCEPT ![1] = sorted[k].w[1], ![2] = sorted[k].w[2], ![3] = sorted[k].w[3]],
     c |-> ArraySize - 1]

\* The gate of the sorted list for its k-th record.  The last one of a RAM array fixes its index.
SortedGate(c, sorted, k) ==
    [type |-> IF c.kind = "ROM" THEN "ROM_CHECK" ELSE IF k < Len(sorted) THEN "RAM_CHECK" ELSE "FIX",
     w |-> FreshWires(c, k), c |-> ArraySize - 1]

AddSortedList(c, sorted) ==
    LET n == Len(sorted)
    IN  [c EXCEPT
            !.variables     = @ \o [v \in 1 .. 4 * n |-> FreshValues(c, sorted[1 + ((v - 1) \div 4)])[1 + ((v - 1) % 4)]],
            !.gates         = @ \o [k \in 1 .. n |-> SortedGate(c, sorted, k)],
            !.tags          = @ \cup {<<sorted[k].record_witness, "access">> : k \in 1 .. n}
                                \cup {<<FreshWires(c, k)[4], "sorted">> : k \in 1 .. n},
            !.read_records  = @ \cup Listed(c, sorted, "READ"),
            !.write_records = @ \cup Listed(c, sorted, "WRITE")]

\* The sorted list of a ROM array, and the gate after it that fixes the next index.
ProcessROM(c, sorted) ==
    LET d == AddVariable(AddSortedList(c, sorted), ArraySize)
    IN  AddGate(d, "FIX", <<NumVariables(d), zero_idx, zero_idx, zero_idx>>, ArraySize)

\* The time from one record to the next one of its cell.
Delta(r, s) == IF r.index = s.index THEN s.timestamp - r.timestamp ELSE 0

\* The gates that compare the times of neighbours, on the variables of the accesses.
AddTimestamps(c, sorted) ==
    LET n     == Len(sorted) - 1
        v     == NumVariables(c)
        wires == [k \in 1 .. n |-> <<sorted[k].w[1], sorted[k].w[2], v + k, zero_idx>>]
    IN  [AddVariables(c, [k \in 1 .. n |-> Delta(sorted[k], sorted[k + 1])]) EXCEPT
            !.gates  = @ \o [k \in 1 .. n |-> [type |-> "TIMESTAMP", w |-> wires[k], c |-> 0]],
            !.ranges = @ \cup {<<v + k, c.access_count - 1>> : k \in 1 .. n}]

ProcessRAM(c, sorted) ==
    LET l == sorted[Len(sorted)]
    IN  AddGate(AddTimestamps(AddSortedList(c, sorted), sorted), "EMPTY", <<l.w[1], l.w[2], zero_idx, zero_idx>>, 0)

Processed(c, sorted) == IF c.kind = "ROM" THEN ProcessROM(c, sorted) ELSE ProcessRAM(c, sorted)

-----------------------------------------------------------------------------
(***************************************************************************)
(* What a program does.                                                    *)
(***************************************************************************)
MemInit ==
    /\ circuit = EmptyCircuit
    /\ circuit_finalised = FALSE

\* A call of the program, before the circuit is finalised.
Build(d) ==
    /\ ~ circuit_finalised
    /\ circuit' = d
    /\ UNCHANGED circuit_finalised

\* Room for one more record, and those that finalize_circuit adds.
HasRecordRoom(c, new) == Len(c.records) + Cardinality({i \in Cells : Uninitialized(c, i)} \ {new}) < MaxRecords[c.kind]

\* The witnesses of a program come first, those it uses as indices before those it stores.
AddWitness ==
    \E value \in IF NumVariables(circuit) <= MaxIndices THEN IndexInputs ELSE ValueInputs :
        /\ circuit.kind = "NONE"
        /\ NumVariables(circuit) <= MaxIndices + MaxValues
        /\ Build(AddVariable(circuit, value))

\* What a program passes on: the constant zero, and a witness in its role.
IndexVariables == {zero_idx} \cup (2 .. MaxIndices + 1)
ValueVariables == {zero_idx} \cup (MaxIndices + 2 .. MaxIndices + MaxValues + 1)

CreateArray ==
    \E kind \in {"ROM", "RAM"} :
        /\ circuit.kind = "NONE" /\ NumVariables(circuit) = MaxIndices + MaxValues + 1
        /\ Build([circuit EXCEPT !.kind = kind])

SetElement ==
    \E i \in Cells, v \in ValueVariables :
        /\ circuit.kind # "NONE"
        /\ Uninitialized(circuit, i) /\ HasRecordRoom(circuit, i)
        /\ \/ circuit.kind = "ROM" /\ Build(SetROM(circuit, i, <<v, zero_idx>>))
           \/ circuit.kind = "RAM" /\ Build(InitRAM(circuit, i, v))

SetElementPair ==
    \E i \in Cells, v \in ValueVariables, w \in ValueVariables \ {zero_idx} :
        /\ circuit.kind = "ROM"
        /\ Uninitialized(circuit, i) /\ HasRecordRoom(circuit, i)
        /\ Build(SetROM(circuit, i, <<v, w>>))

CanAccess(c, v) ==
    /\ c.kind # "NONE"
    /\ IndexOf(c, v) \in Cells
    /\ ~ Uninitialized(c, IndexOf(c, v))
    /\ HasRecordRoom(c, -1)

Read ==
    \E v \in IndexVariables :
        /\ CanAccess(circuit, v)
        /\ \/ circuit.kind = "ROM" /\ Build(ReadROM(circuit, v))
           \/ circuit.kind = "ROM" /\ Build(ReadROMPair(circuit, v))
           \/ circuit.kind = "RAM" /\ Build(ReadRAM(circuit, v))

Write ==
    \E v \in IndexVariables, value \in ValueVariables :
        /\ circuit.kind = "RAM" /\ CanAccess(circuit, v)
        /\ Build(WriteRAM(circuit, v, value))

FinalizeCircuit ==
    /\ ~ circuit_finalised
    /\ circuit.kind # "NONE"
    /\ LET c == Initialized(circuit)
       IN  \E sorted \in Sortings(c) : circuit' = Processed(c, sorted)
    /\ circuit_finalised' = TRUE

MemNext ==
    \/ AddWitness \/ CreateArray \/ SetElement \/ SetElementPair \/ Read \/ Write \/ FinalizeCircuit

MemSpec == MemInit /\ [][MemNext]_memVars

-----------------------------------------------------------------------------
(***************************************************************************)
(* When an assignment satisfies the circuit.  `val` gives a variable its   *)
(* value and `fourth` a row its fourth wire.                               *)
(***************************************************************************)
RecordValue(g, val, access) == <<val[g.w[1]], val[g.w[2]], val[g.w[3]], access>>

\* Mutant: rows with one index may have different values.
RomConsistent_ValuesFree(g, r, h, s, val) ==
    LET delta == val[h.w[1]] -- val[g.w[1]]
    IN  r = RecordValue(g, val, 0) /\ delta \in {0, 1}

\* The identities of a gate g with fourth wire r, before a gate h with fourth wire s.
RomConsistent(g, r, h, s, val) ==
    LET delta == val[h.w[1]] -- val[g.w[1]]
    IN  /\ r = RecordValue(g, val, 0)
        /\ delta \in {0, 1}
        /\ delta # 1 => s = r

\* Mutant: the value is compared before a write and not before a read.
RamConsistent_BeforeWrite(g, r, h, s, val) ==
    LET delta == val[h.w[1]] -- val[g.w[1]]
    IN  /\ r \in {RecordValue(g, val, 0), RecordValue(g, val, 1)}
        /\ s \in {RecordValue(h, val, 0), RecordValue(h, val, 1)}
        /\ delta \in {0, 1}
        /\ delta # 1 /\ s = RecordValue(h, val, 1) => val[g.w[3]] = val[h.w[3]]

RamConsistent(g, r, h, s, val) ==
    LET delta == val[h.w[1]] -- val[g.w[1]]
    IN  /\ r \in {RecordValue(g, val, 0), RecordValue(g, val, 1)}
        /\ s \in {RecordValue(h, val, 0), RecordValue(h, val, 1)}
        /\ delta \in {0, 1}
        /\ delta # 1 /\ s = RecordValue(h, val, 0) => val[g.w[3]] = val[h.w[3]]

\* The difference of the times of two gates, if they are of one cell.
TimePassed(g, h, val) == (1 -- (val[h.w[1]] -- val[g.w[1]])) ** (val[h.w[2]] -- val[g.w[2]])

TimesCompared(g, h, val) ==
    val[g.w[3]] = TimePassed(g, h, val)

GateHolds(c, k, val, fourth) ==
    LET g == c.gates[k]
        r == fourth[k]
    IN  CASE g.type \in {"ROM_READ", "RAM_READ"} -> r = RecordValue(g, val, 0)
          [] g.type = "RAM_WRITE"  -> r = RecordValue(g, val, 1)
          [] g.type = "ROM_CHECK"  -> RomConsistent(g, r, c.gates[k + 1], fourth[k + 1], val)
          [] g.type = "RAM_CHECK"  -> RamConsistent(g, r, c.gates[k + 1], fourth[k + 1], val)
          [] g.type = "TIMESTAMP"  -> TimesCompared(g, c.gates[k + 1], val)
          [] g.type = "FIX"        -> val[g.w[1]] = g.c
          [] g.type = "EMPTY"      -> TRUE

\* The fourth wires that carry a tag.
TaggedRows(c, tag) == {k \in DOMAIN c.gates : <<c.gates[k].w[4], tag>> \in c.tags}

\* The permutation argument over the tags: the two lists of records agree as bags.
SetsAgree(c, fourth) ==
    \A r \in {fourth[k] : k \in DOMAIN c.gates} :
        Cardinality({k \in TaggedRows(c, "access") : fourth[k] = r})
            = Cardinality({k \in TaggedRows(c, "sorted") : fourth[k] = r})

RangesHold(c, val) == \A r \in c.ranges : val[r[1]] <= r[2]

GatesHold(c, val, fourth) ==
    /\ \A k \in DOMAIN c.gates : GateHolds(c, k, val, fourth)
    /\ RangesHold(c, val)

Satisfied(c, val, fourth) == GatesHold(c, val, fourth) /\ SetsAgree(c, fourth)

(***************************************************************************)
(* The witness the prover fills in: the fourth wires of the remembered     *)
(* gates are the combinations of the first three                           *)
(* (add_plookup_memory_records_to_w_4), all others hold their variable.    *)
(***************************************************************************)
FilledIn(c) ==
    [k \in DOMAIN c.gates |->
        LET g == c.gates[k]
        IN  IF Row(k) \in c.write_records THEN RecordValue(g, c.variables, 1)
            ELSE IF Row(k) \in c.read_records THEN RecordValue(g, c.variables, 0)
            ELSE <<0, 0, 0, c.variables[g.w[4]]>>]

\* The variables of the records that no gate fixes.
FreeVariables(c) ==
    {c.records[k].w[j] : k \in DOMAIN c.records, j \in 1 .. 3}
        \ {c.constants[x] : x \in DOMAIN c.constants}

-----------------------------------------------------------------------------
(***************************************************************************)
(* The assignments TLC looks at.  The tags make the sorted list some       *)
(* ordering p of the records; the variables of the accesses take any       *)
(* values a of indices of the array, and the rest follows.                 *)
(***************************************************************************)
Assignments(c) == Permutations(c) \X [FreeVariables(c) -> Cells]

\* Where a circuit keeps what its sorted list and its comparisons of times introduce: the place of a
\* row in the sorted list, the row and wire of a variable, the gate of a difference of times.
Layout(c) ==
    LET rows   == TaggedRows(c, "sorted")
        wires  == rows \X (1 .. 3)
        deltas == {k \in DOMAIN c.gates : c.gates[k].type = "TIMESTAMP"}
    IN  [place  |-> [k \in rows |-> Cardinality({j \in rows : j <= k})],
         access |-> [k \in {r.gate : r \in Range(c.records)} |->
                        CHOOSE m \in DOMAIN c.records : c.records[m].gate = k],
         wire   |-> [v \in {c.gates[x[1]].w[x[2]] : x \in wires} |->
                        CHOOSE x \in wires : c.gates[x[1]].w[x[2]] = v],
         delta  |-> [v \in {c.gates[k].w[3] : k \in deltas} |-> CHOOSE k \in deltas : c.gates[k].w[3] = v]]

AssignedValues(c, at, a, p) ==
    LET base == [v \in DOMAIN c.variables |-> IF v \in DOMAIN a THEN a[v] ELSE c.variables[v]]
        val  == [v \in DOMAIN base |->
                    IF v \in DOMAIN a \/ v \notin DOMAIN at.wire THEN base[v]
                    ELSE base[c.records[p[at.place[at.wire[v][1]]]].w[at.wire[v][2]]]]
    IN  [v \in DOMAIN base |->
            IF v \in DOMAIN at.delta THEN TimePassed(c.gates[at.delta[v]], c.gates[at.delta[v] + 1], val)
            ELSE val[v]]

AssignedFourth(c, at, val, p) ==
    LET Of(r) == RecordValue(c.gates[r.gate], val, IF r.access = "WRITE" THEN 1 ELSE 0)
    IN  [k \in DOMAIN c.gates |->
            IF k \in DOMAIN at.place THEN Of(c.records[p[at.place[k]]])
            ELSE IF k \in DOMAIN at.access THEN Of(c.records[at.access[k]])
            ELSE <<0, 0, 0, val[c.gates[k].w[4]]>>]

\* Looked at first, as it refuses most assignments.
SortedRowsHold(c, val, fourth) == \A k \in TaggedRows(c, "sorted") : GateHolds(c, k, val, fourth)

-----------------------------------------------------------------------------
(***************************************************************************)
(* Properties.                                                             *)
(***************************************************************************)

\* The values a record carries are those of the cell at its index.
AgreesWithCell(c, val, r, i) ==
    /\ val[r.w[2]] = val[c.state[i][1]]
    /\ val[r.w[3]] = val[c.state[i][2]]

\* The circuit of a program with a finalised array of this kind.
Finalized(kind) == circuit_finalised /\ circuit.kind = kind

\* What a program must see to: an index is the number of a cell, and a cell set as a pair with a
\* second value is not read as a single.
WellUsed(c) ==
    \A k \in DOMAIN c.records :
        LET r == c.records[k]
        IN  /\ c.variables[r.w[1]] = r.index
            /\ c.kind = "ROM" => AgreesWithCell(c, c.variables, r, r.index)

(***************************************************************************)
(* The witness of the program itself, with the fourth wires filled in as   *)
(* the prover does, satisfies the finalised circuit exactly when the       *)
(* program used the array well: whatever cells it left out, whatever order *)
(* it reads and writes in and however the sort orders equal records        *)
(* (finalize_circuit, process_ROM_array, process_RAM_array).               *)
(***************************************************************************)
HonestAccepted ==
    circuit_finalised =>
        (WellUsed(circuit) <=> Satisfied(circuit, circuit.variables, FilledIn(circuit)))

\* The indices of all accesses are those of cells.
IndicesAreCells(c, val) == \A k \in DOMAIN c.records : val[c.records[k].w[1]] \in Cells

\* Every access has the values of the cell its index names.
ReadsTheCell(c, val) ==
    \A k \in DOMAIN c.records : AgreesWithCell(c, val, c.records[k], val[c.records[k].w[1]])

(***************************************************************************)
(* In every witness that satisfies a finalised ROM circuit, with indices   *)
(* of the array, a read returns the values of the cell its index names     *)
(* (process_ROM_array and the ROM consistency identity).                   *)
(***************************************************************************)
RomReadsTheCell ==
    Finalized("ROM") =>
        LET at == Layout(circuit)
        IN  \A x \in Assignments(circuit) :
                LET val    == AssignedValues(circuit, at, x[2], x[1])
                    fourth == AssignedFourth(circuit, at, val, x[1])
                IN  SortedRowsHold(circuit, val, fourth) /\ Satisfied(circuit, val, fourth)
                        => ReadsTheCell(circuit, val)

\* The sorted list has the accesses to a cell in the order of their times.
InTimeOrder(c, val) ==
    \A j, k \in TaggedRows(c, "sorted") :
        LET g == c.gates[j]
            h == c.gates[k]
        IN  j < k /\ val[g.w[1]] = val[h.w[1]] => val[g.w[2]] < val[h.w[2]]

\* The writes to the cell of a record before it.
WritesBefore(c, val, r) ==
    {s \in Range(c.records) :
        s.access = "WRITE" /\ s.timestamp < r.timestamp /\ val[s.w[1]] = val[r.w[1]]}

\* A read has the value of the last write to its cell before it.
ReadsLastWrite(c, val) ==
    \A r \in Range(c.records) :
        r.access = "READ" =>
            \E s \in WritesBefore(c, val, r) :
                /\ \A t \in WritesBefore(c, val, r) : t.timestamp <= s.timestamp
                /\ val[r.w[3]] = val[s.w[3]]

\* Every cell is written at a constant index before an index that a witness decides is used.
WrittenFirst(c) ==
    \A r \in Range(c.records), i \in Cells :
        r.w[1] \in FreeVariables(c) =>
            \E s \in Range(c.records) :
                s.access = "WRITE" /\ s.timestamp < r.timestamp /\ s.w[1] = c.constants[i]

(***************************************************************************)
(* In every witness that satisfies a finalised RAM circuit whose cells     *)
(* were written first, with indices of the array and the records of a cell *)
(* sorted by time, a read returns what was last written to the cell        *)
(* (process_RAM_array and the RAM consistency identity).                   *)
(***************************************************************************)
RamReadsLastWrite ==
    Finalized("RAM") /\ WrittenFirst(circuit) =>
        LET at == Layout(circuit)
        IN  \A x \in Assignments(circuit) :
                LET val    == AssignedValues(circuit, at, x[2], x[1])
                    fourth == AssignedFourth(circuit, at, val, x[1])
                IN  SortedRowsHold(circuit, val, fourth) /\ Satisfied(circuit, val, fourth) /\ InTimeOrder(circuit, val)
                        => ReadsLastWrite(circuit, val)

(***************************************************************************)
(* The gates, tags and ranges of a ROM circuit do not depend on the order  *)
(* the values of the indices sort the records into: two runs of a program  *)
(* on different inputs give one circuit (process_ROM_array).               *)
(***************************************************************************)
RomCircuitIsFixed ==
    [][circuit.kind = "ROM" /\ circuit_finalised' =>
          LET c == Initialized(circuit)
          IN  \A sorted \in Orders(c) :
                LET d == Processed(c, sorted)
                IN  /\ d.gates = circuit'.gates
                    /\ d.tags = circuit'.tags
                    /\ d.ranges = circuit'.ranges]_memVars

(***************************************************************************)
(* In every witness that satisfies a finalised RAM circuit, the sorted     *)
(* list has the records of a cell in the order of their times: "Create     *)
(* gates that validate correctness of RAM timestamps", which the comment   *)
(* in the loop puts on sorted_records[i] and sorted_records[i + 1]         *)
(* (process_RAM_array).                                                    *)
(***************************************************************************)
TimestampsValidated ==
    Finalized("RAM") =>
        LET at == Layout(circuit)
        IN  \A x \in Assignments(circuit) :
                LET val    == AssignedValues(circuit, at, x[2], x[1])
                    fourth == AssignedFourth(circuit, at, val, x[1])
                IN  SortedRowsHold(circuit, val, fourth) /\ Satisfied(circuit, val, fourth)
                        => InTimeOrder(circuit, val)

=============================================================================
