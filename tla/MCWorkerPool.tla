---------------------------- MODULE MCWorkerPool ----------------------------
(* Two workers and one sleep thread at most, two tasks.  Each scenario asks *)
(* one question: two workers with nothing going wrong, one worker too deep  *)
(* to help, a repeat going round, a tick that grows and reaps, blocking     *)
(* tasks, a death, a death with no manager and a start refused, a shutdown. *)
EXTENDS WorkerPool

MCSlots == [k \in Kinds |-> IF k = "work" THEN 2 ELSE 1]
Scene(f, g, d, n, b, m) ==
    [floor |-> f, target |-> g, depth |-> d, tasks |-> n, blocking |-> b, may |-> m]
MCScenarios ==
    {Scene(2, 2, 2, 2, {}, {}), Scene(2, 2, 2, 1, {}, {"rerun"}), Scene(1, 2, 1, 2, {}, {"rerun"}),
     Scene(1, 1, 2, 2, {}, {"tick", "reap"}), Scene(1, 1, 2, 2, {1, 2}, {"tick"}),
     Scene(1, 1, 2, 2, {}, {"death"}), Scene(1, 1, 2, 1, {1}, {"death"}),
     Scene(1, 1, 2, 1, {}, {"death", "give_up", "refuse"}), Scene(1, 1, 2, 2, {2}, {"stop"})}
=============================================================================
