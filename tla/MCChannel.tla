----------------------------- MODULE MCChannel -----------------------------
(* Channel with a few ends, tasks and values. *)
EXTENDS Channel, TLC

ChannelSymmetry == Permutations(Tx) \cup Permutations(Rx) \cup Permutations(Sends)
                     \cup Permutations(Recvs) \cup Permutations(Values)
=============================================================================
