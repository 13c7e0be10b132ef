------------------------- MODULE MCSignalDispatch --------------------------
(* SignalDispatch with a few tasks of each policy. *)
EXTENDS SignalDispatch, TLC

TaskSymmetry == Permutations(Keepers) \cup Permutations(Droppers)
=============================================================================
