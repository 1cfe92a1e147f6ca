-------------------------- MODULE MC_StandardLibrary --------------------------
(* A program over the circuit standard library: over a ram_table and an    *)
(* array in one composer, over a rom_table, or over booleans and field     *)
(* elements.                                                               *)
EXTENDS MemoryTables, GadgetPrograms

VARIABLE subject

libraryVars == <<subject, tableVars, gadgetVars>>

MC_RawEntries == {<<1, 0>>}

MC_Scalings == {<<1, 0>>, <<3, 5>>, <<36, 1>>}

LibraryInit ==
    /\ TablesInit
    /\ \/ subject \in {"ram", "rom"} /\ GadgetsIdle
       \/ subject = "gadgets" /\ GadgetInit

LibraryNext ==
    /\ UNCHANGED subject
    /\ \/ subject = "ram" /\ RamNext /\ UNCHANGED gadgetVars
       \/ subject = "rom" /\ RomNext /\ UNCHANGED gadgetVars
       \/ subject = "gadgets" /\ GadgetNext /\ UNCHANGED tableVars

LibrarySpec == LibraryInit /\ [][LibraryNext]_libraryVars
=============================================================================
