------------------------------ MODULE MemoryTables ------------------------------
(***************************************************************************)
(* The memory of the circuit standard library                              *)
(* (stdlib/primitives/memory): rom_table and ram_table, which create their *)
(* array in the composer when they are first used, and DynamicArray, a     *)
(* list kept in a ram_table.                                               *)
(*                                                                         *)
(* The composer's arrays are given by their contents: MemoryArrays shows   *)
(* that the circuit enforces them.  A field_t is a value that is a         *)
(* constant or a witness.  Where a constraint is put on a witness the      *)
(* program chooses itself (the flags of resize), the witness is any that   *)
(* satisfies the constraints.                                              *)
(*                                                                         *)
(* A call that reports a failure, or emits a constraint its own witness    *)
(* breaks, sets `failed`; what a failed composer does is left open.        *)
(***************************************************************************)
EXTENDS PrimeField, Sequences

CONSTANTS
    Size,       \* elements of each table, and max_size of the DynamicArray
    Elements,   \* values stored
    RawEntries  \* lists of entries a table may be made from

ASSUME TablesAssumption ==
    /\ Size \in Nat \ {0} /\ Modulus > 4 * Size
    /\ 0 \in Elements /\ Elements \subseteq Field
    /\ RawEntries \subseteq [1 .. Size -> Elements]

VARIABLES
    ram,        \* the composer's RAM arrays: a sequence of functions from index to value
    ram_tbl,    \* the ram_table of the program, or NoTable
    rom_tbl,    \* its rom_table, or NoTable
    array,      \* its DynamicArray, or NoTable
    list_answer, table_answer,      \* of the last read of the array, of a table, or None
    last,       \* the last call: its object, operation, index or length
    refused,    \* an assertion of the composer failed
    failed

tableVars == <<ram, ram_tbl, rom_tbl, array, list_answer, table_answer, last, refused, failed>>

None  == -1   \* no value: UNINITIALIZED_MEMORY_RECORD, and no answer
Wild  == -2   \* whatever lies behind the end of a vector
NoTable == [kind |-> "none"]

Indices == 0 .. Size - 1

\* field_t: a value, and whether the circuit fixes it.
Constant(x) == [value |-> x, is_constant |-> TRUE]
Witness(x)  == [value |-> x, is_constant |-> FALSE]
BothKinds(x) == {Constant(x), Witness(x)}

\* The range constraint of the ultra composer, and the check it stands in for on a constant.
InRange(x) == x <= Size

-----------------------------------------------------------------------------
(***************************************************************************)
(* ram_table.  The operators take and give a state m of the table t and of *)
(* the composer: m.ram, m.refused, m.failed.                               *)
(***************************************************************************)
NewRamTable(raw_entries) ==
    [kind               |-> "ram",
     raw_entries        |-> raw_entries,
     index_initialized  |-> [i \in Indices |-> FALSE],
     ram_id             |-> 0,
     generated          |-> FALSE]

check_indices_initialized(t) == \A i \in Indices : t.index_initialized[i]

Failure(m, condition) == [m EXCEPT !.failed = @ \/ condition]

Asserted(m, condition) == [m EXCEPT !.refused = @ \/ ~ condition]

\* init_RAM_element, read_RAM_array and write_RAM_array of the composer.
InitElement(m, id, i, value) ==
    [Asserted(m, m.ram[id][i] = None) EXCEPT !.ram[id][i] = value]

CanReach(m, id, i) == i \in Indices /\ m.ram[id][i] # None

WriteElement(m, id, i, value) ==
    IF CanReach(m, id, i) THEN [m EXCEPT !.ram[id][i] = value] ELSE Asserted(m, FALSE)

ReadElement(m, id, i) == IF CanReach(m, id, i) THEN m.ram[id][i] ELSE Wild

\* Mutant: the entries written at the start are not marked.
InitializeTable_NotMarked(m) ==
    IF m.t.generated THEN m
    ELSE LET t == [m.t EXCEPT !.ram_id = Len(m.ram) + 1, !.generated = TRUE]
         IN  IF t.raw_entries = << >>
             THEN [m EXCEPT !.t = t, !.ram = Append(@, [i \in Indices |-> None])]
             ELSE [m EXCEPT !.t = t, !.ram = Append(@, [i \in Indices |-> t.raw_entries[i + 1]])]

\* Mutant: the table gets an array at every use.
InitializeTable_EveryTime(m) ==
    LET t == [m.t EXCEPT !.ram_id = Len(m.ram) + 1, !.generated = TRUE]
    IN  IF t.raw_entries = << >>
        THEN [m EXCEPT !.t = t, !.ram = Append(@, [i \in Indices |-> None])]
        ELSE [m EXCEPT !.t = [t EXCEPT !.index_initialized = [i \in Indices |-> TRUE]],
                       !.ram = Append(@, [i \in Indices |-> t.raw_entries[i + 1]])]

InitializeTable(m) ==
    IF m.t.generated THEN m
    ELSE LET t == [m.t EXCEPT !.ram_id = Len(m.ram) + 1, !.generated = TRUE]
         IN  IF t.raw_entries = << >>
             THEN [m EXCEPT !.t = t, !.ram = Append(@, [i \in Indices |-> None])]
             ELSE [m EXCEPT !.t = [t EXCEPT !.index_initialized = [i \in Indices |-> TRUE]],
                            !.ram = Append(@, [i \in Indices |-> t.raw_entries[i + 1]])]

\* read: the state after it, with the value read.
ReadTable(m, index) ==
    LET a == InitializeTable(Failure(m, index.value \notin Indices))
        b == Failure(a, ~ check_indices_initialized(a.t))
    IN  [Asserted(b, CanReach(b, b.t.ram_id, index.value))
            EXCEPT !.value = ReadElement(b, b.t.ram_id, index.value)]

\* Mutant: the index is taken for a constant one whatever it is.
WriteTable_AlwaysInit(m, index, value) ==
    LET a == InitializeTable(Failure(m, index.value \notin Indices))
    IN  IF index.value \in Indices /\ ~ a.t.index_initialized[index.value]
        THEN [InitElement(a, a.t.ram_id, index.value, value)
                EXCEPT !.t.index_initialized[index.value] = TRUE]
        ELSE WriteElement(a, a.t.ram_id, index.value, value)

WriteTable(m, index, value) ==
    LET a == InitializeTable(Failure(m, index.value \notin Indices))
        b == Failure(a, ~ index.is_constant /\ ~ check_indices_initialized(a.t))
    IN  IF index.is_constant /\ index.value \in Indices /\ ~ b.t.index_initialized[index.value]
        THEN [InitElement(b, b.t.ram_id, index.value, value)
                EXCEPT !.t.index_initialized[index.value] = TRUE]
        ELSE WriteElement(b, b.t.ram_id, index.value, value)

Composer(t) == [t |-> t, ram |-> ram, refused |-> refused, failed |-> failed, value |-> None]

-----------------------------------------------------------------------------
(***************************************************************************)
(* DynamicArray: a length and a ram_table of max_size cells.               *)
(***************************************************************************)
PlusT(x, y)  == [value |-> x.value ++ y.value, is_constant |-> x.is_constant /\ y.is_constant]
MinusT(x, y) == [value |-> x.value -- y.value, is_constant |-> x.is_constant /\ y.is_constant]

\* The constructor writes zeroes at the constant indices of a new table.
EmptyArrayState(m) ==
    LET after[k \in 0 .. Size] == IF k = 0 THEN m ELSE WriteTable(after[k - 1], Constant(k - 1), 0)
    IN  after[Size]

\* The check that an index is below the length: in the program for constants, in the circuit otherwise.
CheckIndex(m, length, index) ==
    LET delta == MinusT(MinusT(length, index), Constant(1))
    IN  Failure(m, IF delta.is_constant THEN delta.value >= Size ELSE ~ InRange(delta.value))

\* The constraint of resize on a flag that says whether i is below n.
FlagHolds(n, i, below) == InRange(IF below THEN n -- i -- 1 ELSE i -- n)

\* Mutant: the flag of an index is not constrained.
FlagsOf_Free(n) == [Indices -> BOOLEAN]

\* The flags a witness may give for a length n.
FlagsOf(n) == {f \in [Indices -> BOOLEAN] : \A i \in Indices : FlagHolds(n, i, f[i])}

ResizedCell(old, default, was_below, is_below) == IF ~ was_below /\ is_below THEN default ELSE old

\* The loop of resize: every cell is read and written, with the value its flags say.
ResizedState(m, default, was_below, is_below) ==
    LET Cell(a, i) == ResizedCell(ReadTable(a, Constant(i)).value, default, was_below[i], is_below[i])
        after[k \in 0 .. Size] ==
            IF k = 0 THEN m ELSE WriteTable(after[k - 1], Constant(k - 1), Cell(after[k - 1], k - 1))
    IN  after[Size]

-----------------------------------------------------------------------------
(***************************************************************************)
(* Calls of the program.                                                   *)
(***************************************************************************)
TablesInit ==
    /\ ram = << >>
    /\ ram_tbl = NoTable /\ rom_tbl = NoTable /\ array = NoTable
    /\ list_answer = None /\ table_answer = None
    /\ last = [on |-> "none"]
    /\ refused = FALSE /\ failed = FALSE

Call(on, op, x) == last' = [on |-> on, op |-> op, x |-> x]

Effect(m) == ram' = m.ram /\ refused' = m.refused /\ failed' = m.failed

CreateRamTable ==
    /\ ~ failed /\ ram_tbl = NoTable
    /\ \E raw \in RawEntries \cup {<< >>} : ram_tbl' = NewRamTable(raw)
    /\ Call("ram", "create", Constant(Size))
    /\ UNCHANGED <<ram, rom_tbl, array, list_answer, table_answer, refused, failed>>

\* Indices a program may pass: those of the table and the first one after it.
IndexArguments == UNION {BothKinds(x) : x \in 0 .. Size}

ReadRamTable ==
    \E index \in IndexArguments :
        /\ ~ failed /\ ram_tbl # NoTable
        /\ LET m == ReadTable(Composer(ram_tbl), index)
           IN  Effect(m) /\ ram_tbl' = m.t /\ table_answer' = m.value
        /\ Call("ram", "read", index)
        /\ UNCHANGED <<rom_tbl, array, list_answer>>

WriteRamTable ==
    \E index \in IndexArguments, value \in Elements :
        /\ ~ failed /\ ram_tbl # NoTable
        /\ LET m == WriteTable(Composer(ram_tbl), index, value)
           IN  Effect(m) /\ ram_tbl' = m.t
        /\ table_answer' = None
        /\ Call("ram", "write", index)
        /\ UNCHANGED <<rom_tbl, array, list_answer>>

CreateRomTable ==
    /\ ~ failed /\ rom_tbl = NoTable
    /\ \E raw \in RawEntries : rom_tbl' = [kind |-> "rom", raw_entries |-> raw, entries |-> << >>, initialized |-> FALSE]
    /\ Call("rom", "create", Constant(Size))
    /\ UNCHANGED <<ram, ram_tbl, array, list_answer, table_answer, refused, failed>>

\* operator[] on a constant: the entries are there once a witness index has been used.
ReadRomConstant ==
    \E i \in 0 .. Size :
        /\ ~ failed /\ rom_tbl # NoTable
        /\ failed' = (i \notin Indices)
        /\ table_answer' = IF i + 1 \in DOMAIN rom_tbl.entries THEN rom_tbl.entries[i + 1] ELSE Wild
        /\ Call("rom", "read", Constant(i))
        /\ UNCHANGED <<ram, ram_tbl, rom_tbl, array, list_answer, refused>>

\* operator[] on a witness, through the composer's ROM array.
ReadRomWitness ==
    \E i \in 0 .. Size :
        /\ ~ failed /\ rom_tbl # NoTable
        /\ rom_tbl' = [rom_tbl EXCEPT !.entries = rom_tbl.raw_entries, !.initialized = TRUE]
        /\ failed' = (i \notin Indices)
        /\ refused' = (i \notin Indices)
        /\ table_answer' = IF i \in Indices THEN rom_tbl'.entries[i + 1] ELSE Wild
        /\ Call("rom", "read", Witness(i))
        /\ UNCHANGED <<ram, ram_tbl, array, list_answer>>

CreateArray ==
    /\ ~ failed /\ array = NoTable
    /\ LET m == EmptyArrayState(Composer(NewRamTable(<< >>)))
       IN  Effect(m) /\ array' = [table |-> m.t, length |-> Constant(0)]
    /\ Call("array", "create", Constant(Size))
    /\ UNCHANGED <<ram_tbl, rom_tbl, list_answer, table_answer>>

\* The array after a call that leaves its composer and table in the state m.
ArrayBecomes(m, length, value) ==
    /\ Effect(m)
    /\ array' = [table |-> m.t, length |-> length]
    /\ list_answer' = value
    /\ UNCHANGED <<ram_tbl, rom_tbl, table_answer>>

ArrayExists == ~ failed /\ array # NoTable

\* push and conditional_push; the plain call has no predicate.
Push ==
    \E value \in Elements, predicate \in {Constant(1)} \cup {Witness(b) : b \in {0, 1}} :
        /\ ArrayExists
        /\ ArrayBecomes(WriteTable(Failure(Composer(array.table), array.length.value >= Size), array.length, value),
                        PlusT(array.length, predicate), None)
        /\ Call("array", "push", array.length)

Pop ==
    \E predicate \in {Constant(1)} \cup {Witness(b) : b \in {0, 1}} :
        /\ ArrayExists
        /\ ArrayBecomes(Failure(Composer(array.table), array.length.value = 0), MinusT(array.length, predicate), None)
        /\ Call("array", "pop", array.length)

ReadArray ==
    \E index \in IndexArguments :
        /\ ArrayExists
        /\ LET m == ReadTable(CheckIndex(Composer(array.table), array.length, index), index)
           IN  ArrayBecomes(m, array.length, m.value)
        /\ Call("array", "read", index)

WriteArray ==
    \E index \in IndexArguments, value \in Elements :
        /\ ArrayExists
        /\ ArrayBecomes(WriteTable(CheckIndex(Composer(array.table), array.length, index), index, value),
                        array.length, None)
        /\ Call("array", "write", index)

\* The bound of resize on the new length.
HasRoom(new) == IF new.is_constant THEN new.value <= Size ELSE InRange(Size -- new.value -- 1)

\* resize: the bound, then for every cell two flags, a read and a write.
ResizeArray ==
    \E new \in UNION {BothKinds(x) : x \in 0 .. Size + 1}, default \in Elements :
        /\ ArrayExists
        /\ \/ /\ ~ HasRoom(new)
              /\ ArrayBecomes(Failure(Composer(array.table), TRUE), array.length, None)
           \/ /\ HasRoom(new)
              /\ \E is_below \in FlagsOf(new.value), was_below \in FlagsOf(array.length.value) :
                    ArrayBecomes(ResizedState(Composer(array.table), default, was_below, is_below), new, None)
        /\ Call("array", "resize", new)

RamNext ==
    \/ CreateRamTable \/ ReadRamTable \/ WriteRamTable
    \/ CreateArray \/ Push \/ Pop \/ ReadArray \/ WriteArray \/ ResizeArray

RomNext == CreateRomTable \/ ReadRomConstant \/ ReadRomWitness

TablesNext == RamNext \/ RomNext

TablesSpec == TablesInit /\ [][TablesNext]_tableVars

-----------------------------------------------------------------------------
(***************************************************************************)
(* Properties.                                                             *)
(***************************************************************************)

Cells(t) == ram[t.ram_id]

Contents == IF array = NoTable THEN << >>
            ELSE [i \in 1 .. array.length.value |-> Cells(array.table)[i - 1]]

\* Of a failed array only the last good state is claimed.
List == INSTANCE BoundedList WITH
            list <- IF failed THEN << >> ELSE Contents, answer <- IF failed THEN None ELSE list_answer,
            MaxSize <- Size

(***************************************************************************)
(* A DynamicArray is a list of at most max_size elements, whatever was     *)
(* left in the cells beyond its end and whatever flags a witness gives     *)
(* that satisfies the constraints of resize (dynamic_array.cpp).           *)
(***************************************************************************)
ArrayIsList == List!ListSpec

\* What a ram_table holds, before and after it has an array in the composer.
TableView ==
    IF ram_tbl = NoTable THEN [i \in Indices |-> None]
    ELSE IF ram_tbl.generated THEN Cells(ram_tbl)
    ELSE IF ram_tbl.raw_entries = << >> THEN [i \in Indices |-> None]
    ELSE [i \in Indices |-> ram_tbl.raw_entries[i + 1]]

(***************************************************************************)
(* A ram_table keeps its contents: a read finds what the cell holds, a     *)
(* write changes its own cell only, and neither the late creation of the   *)
(* array nor any call on the other objects of the composer changes a cell  *)
(* (ram_table.cpp: initialize_table, read, write).                         *)
(***************************************************************************)
TableKeepsItsCells ==
    [][ram_tbl # NoTable /\ ~ failed' =>
          /\ \A i \in Indices :
                TableView'[i] # TableView[i] =>
                    last'.on = "ram" /\ last'.op = "write" /\ last'.x.value = i
          /\ last'.on = "ram" /\ last'.op = "read" => table_answer' = TableView[last'.x.value]]_tableVars

\* Every cell of the table has a value.
Complete == \A i \in Indices : TableView[i] # None

\* The calls that the classes say they serve.
Legal(call) ==
    CASE call.on = "ram" /\ call.op = "read"   -> call.x.value \in Indices /\ Complete
      [] call.on = "ram" /\ call.op = "write"  -> call.x.value \in Indices /\ (call.x.is_constant \/ Complete)
      [] call.on = "rom" /\ call.op = "read"   -> call.x.value \in Indices
      [] call.on = "array" /\ call.op = "push" -> Len(Contents) < Size
      [] call.on = "array" /\ call.op = "pop"  -> Len(Contents) > 0
      [] call.on = "array" /\ call.op \in {"read", "write"} -> call.x.value < Len(Contents)
      [] call.on = "array" /\ call.op = "resize" ->
            call.x.value < Size \/ (call.x.is_constant /\ call.x.value = Size)
      [] OTHER -> TRUE

(***************************************************************************)
(* A call fails, in the program or by a constraint its witness breaks,     *)
(* exactly when the class does not serve it: an index beyond the end, a    *)
(* table not fully written, a push onto a full array, a pop of an empty    *)
(* one, a length out of bounds (ram_table.cpp, dynamic_array.cpp).         *)
(***************************************************************************)
ServesLegalCalls == [][failed' <=> ~ Legal(last')]_tableVars

(***************************************************************************)
(* The composer never refuses a call of these classes by an assertion      *)
(* unless the class has reported a failure: a cell is initialised once and *)
(* reached only when it is (init_RAM_element, read_RAM_array,              *)
(* write_RAM_array).                                                       *)
(***************************************************************************)
RefusalsAreReported == refused => failed

(***************************************************************************)
(* A read of a rom_table at a constant index of the table finds the entry: *)
(* "we can directly extract the desired value from `raw_entries`"          *)
(* (rom_table.cpp).                                                        *)
(***************************************************************************)
RomReadsEntry ==
    last.on = "rom" /\ last.op = "read" /\ ~ failed =>
        table_answer = rom_tbl.raw_entries[last.x.value + 1]

=============================================================================
