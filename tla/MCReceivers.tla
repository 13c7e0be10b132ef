---------------------------- MODULE MCReceivers ----------------------------
(* Receivers with a few registrations. *)
EXTENDS Receivers, TLC

LateSymmetry == Permutations(Late)
=============================================================================
