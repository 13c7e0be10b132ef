----------------------------- MODULE MCInjector -----------------------------
(* A bounded instance of Injector for TLC. *)
EXTENDS Injector, TLC

Perms == Permutations(Workers)
MCBands == [i \in Ids |-> IF i = 2 THEN 2 ELSE 0]
=============================================================================
