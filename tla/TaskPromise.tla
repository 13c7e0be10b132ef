---------------------------- MODULE TaskPromise ----------------------------
(***************************************************************************)
(* What a one-shot task promises the holders of its handles, with no       *)
(* threads, counts or slots in sight: it settles once, its output has one  *)
(* owner at a time, an output can be had only from a settled task, and a   *)
(* stopped task stays stopped.  TaskSlot implements it (run slot_once).    *)
(***************************************************************************)
VARIABLES
    phase,   \* "empty", "owed", "ready", "taken" or "over"
    output   \* "none", "slot", or "gone" to a caller or to its destructor

vars == <<phase, output>>

Init == phase = "empty" /\ output = "none"

Spawn ==
    /\ phase = "empty" /\ output = "none"
    /\ phase' = "owed" /\ UNCHANGED output

\* The run writes its output, which nobody sees yet.  A task stopped in the
\* middle of a run may still write one, and nobody ever sees it
Write ==
    /\ phase \in {"owed", "over"} /\ output = "none"
    /\ output' = "slot" /\ UNCHANGED phase

Publish ==
    /\ phase = "owed" /\ output = "slot"
    /\ phase' = "ready" /\ UNCHANGED output

\* `take`: one caller wins the output, and then has it
Take ==
    /\ phase = "ready"
    /\ phase' = "taken" /\ UNCHANGED output

HandOver ==
    /\ phase = "taken" /\ output = "slot"
    /\ output' = "gone" /\ UNCHANGED phase

\* A cancel or a failure, from wherever the task is short of taken
Stop ==
    /\ phase \in {"owed", "ready"}
    /\ phase' = "over" /\ UNCHANGED output

\* The last reference goes.  An output still in the slot is dropped with it,
\* and one that was taken has reached its caller
Clear ==
    /\ \/ phase \in {"ready", "over"}
       \/ phase = "taken" /\ output = "gone"
    /\ phase' = "empty"
    /\ output' = IF output = "slot" THEN "gone" ELSE output

Next == Spawn \/ Write \/ Publish \/ Take \/ HandOver \/ Stop \/ Clear

\* A task that is owed settles
Settle == phase = "owed" /\ (Publish \/ Stop)

Spec == Init /\ [][Next]_vars /\ WF_vars(Settle)
=============================================================================
