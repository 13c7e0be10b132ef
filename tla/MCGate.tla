------------------------------- MODULE MCGate -------------------------------
(* Gate and Gather with a few handles and threads. *)
EXTENDS Gather, TLC

\* Single runs without a limit on the gives, and series with one
SingleOrCountedSeries == {<<FALSE, FALSE>>, <<TRUE, TRUE>>}
CountedSingle == {<<FALSE, TRUE>>}

GateSymmetry == Permutations(Leaves) \cup Permutations(Workers)
=============================================================================
