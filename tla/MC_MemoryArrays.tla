---------------------------- MODULE MC_MemoryArrays ----------------------------
(* The ROM or RAM array of one small circuit.                              *)
EXTENDS MemoryArrays
MC_MaxRecords == [ROM |-> 4, RAM |-> 4]
=============================================================================
