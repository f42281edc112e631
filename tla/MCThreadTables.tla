---------------------------- MODULE MCThreadTables ----------------------------
(* ThreadTables on a heap that is too small for NbDesc threads.               *)
EXTENDS ThreadTables
=============================================================================
