----------------------------- MODULE MCTaskSlot -----------------------------
(* TaskSlot on small instances: two or three handles and two pool threads. *)
EXTENDS TaskSlot, TLC

HandleSymmetry == Permutations(Handles) \cup Permutations(Workers)
=============================================================================
