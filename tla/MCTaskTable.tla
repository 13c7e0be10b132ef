---------------------------- MODULE MCTaskTable ----------------------------
(* TaskTable with a few threads and ids. *)
EXTENDS TaskTable, TLC

ThreadSymmetry == Permutations(Threads)
=============================================================================
