---------------------------- MODULE GatherProofs ----------------------------
(***************************************************************************)
(* Proofs about Gate, for any number of givers, workers, runs and gives,   *)
(* and about Gather, for sets of any size giving to a task with any number *)
(* of handles.                                                             *)
(*                                                                         *)
(* A waiting task has at most one claim on its next step: the entry in a   *)
(* queue, the thread that is to put it there, the run or the thread        *)
(* letting the task go.  Everything about Gate follows from where that     *)
(* claim is.  A set's steps on the task's handles are steps of Gate, so    *)
(* that invariant holds of Gather; the invariant of the rounds is proved   *)
(* beside it.                                                              *)
(***************************************************************************)
EXTENDS Gather, FiniteSetTheorems, TLAPS

Settling == {"after", "after_gives", "after_givers", "after_move"}
Resting == {"start", "finish"} \cup Settling
GiverPcs == {"none", "idle", "gone", "drop", "leave", "trigger", "gives", "move", "spend",
             "start", "finish", "let_go", "close", "end"}
WorkerPcs == {"idle", "close", "recheck"} \cup Resting \cup OnRun

\* The thread that has the claim
Claims(a) == pc[a] \in Resting \cup OnRun \/ (pc[a] = "spend" /\ to[a] = "QUEUED")

\* Where threads can be, and what they carry from a load to an exchange
GiverCarries(g) ==
    /\ pc[g] \in GiverPcs
    /\ pc[g] \in {"gives", "move"} =>
         \/ saw[g] = "WAITING" /\ to[g] = "QUEUED"
         \/ saw[g] = "RUNNING" /\ to[g] = "PENDING" /\ ~series
    /\ pc[g] = "spend" => to[g] = "QUEUED" \/ (to[g] = "PENDING" /\ ~series)
    /\ pc[g] \in {"leave", "trigger", "gives", "move", "spend", "start"} => then[g] = "idle"
    /\ pc[g] \in {"close", "end"} => then[g] = "drop"
WorkerCarries(w) ==
    /\ pc[w] \in WorkerPcs
    /\ pc[w] \in {"after_gives", "after_givers"} => saw[w] \in {"QUEUED", "RUNNING"}
    /\ pc[w] = "after_move" =>
         \/ saw[w] = "PENDING" /\ to[w] = "QUEUED"
         \/ saw[w] \in {"QUEUED", "RUNNING"} /\ to[w] \in {"FINISHED", "WAITING"}
Carried == (\A g \in Givers : GiverCarries(g)) /\ \A w \in Workers : WorkerCarries(w)

\* One claim at most: none while the gate waits or once the task is let go, one
\* while a run is owed or under way
OneClaim ==
    /\ queue \in {0, 1}
    /\ queue = 1 => \A a \in Actors : ~Claims(a)
    /\ \A a, b \in Actors : Claims(a) /\ Claims(b) => a = b
    /\ gate = "WAITING" => queue = 0 /\ \A a \in Actors : ~Claims(a)
    /\ gate \in {"QUEUED", "RUNNING", "PENDING"} => queue = 1 \/ \E a \in Actors : Claims(a)
    /\ released => gate = "FINISHED" /\ queue = 0 /\ \A a \in Actors : ~Claims(a)

\* The task is with the run, or else in its slot for whoever has the claim
TaskPlaced ==
    /\ \A w \in Workers : pc[w] \in OnRun => task = "out"
    /\ queue = 1 => task = "slot"
    /\ gate = "WAITING" => task = "slot"
    /\ \A a \in Actors : Claims(a) /\ pc[a] \notin OnRun => task = "slot"

\* What has reached a run.  Once its value is taken a run that nothing replaced
\* has seen all that was accepted
Reached ==
    /\ accepted <= mail /\ \A g \in Givers : mine[g] <= mail
    /\ \A w \in Workers : pc[w] \in {"deliver", "publish", "count"} \cup Settling => gate # "QUEUED"
    /\ ~series /\ gate = "WAITING" => accepted <= handed
    /\ ~series /\ gate = "RUNNING" =>
         \A w \in Workers : pc[w] \in {"publish", "count"} \cup Settling => accepted <= handed

\* A series that counts its gives: one is spent before the run it starts
Spending == {g \in Givers : pc[g] = "spend"}
Counting ==
    counted =>
      /\ series
      /\ started + gives_left = Gives + (IF Spending = {} THEN 0 ELSE 1)
      /\ gate = "WAITING" \/ Spending # {} => gives_left > 0
      /\ \A w \in Workers : pc[w] = "after_givers" \/ (pc[w] = "after_move" /\ to[w] = "WAITING") =>
           gives_left > 0

\* Handles that can still give
Live == {g \in Givers : /\ pc[g] \notin {"none", "gone"}
                        /\ ~(pc[g] \in {"let_go", "finish"} /\ then[g] = "gone")}
GiversCounted == givers = Cardinality(Live)

SafeInv == TypeOK /\ Carried /\ OneClaim /\ TaskPlaced /\ GiversCounted

\* What is owed once there are none
Ended ==
    /\ gate = "WAITING" /\ givers = 0 => \E a \in Actors : pc[a] \in {"let_go", "recheck", "close"}
    /\ gate = "FINISHED" /\ ~written => released \/ \E a \in Actors : pc[a] = "finish"
    /\ \A g \in Givers : pc[g] \in {"close", "end"} => written

-----------------------------------------------------------------------------
(* Typing.  GateStep is any step of the task's handles and threads, with   *)
(* the copy of a handle that a task of a set makes of the one its set      *)
(* holds: Gather adds only that one to the steps of Gate.                  *)

\* A set's copy of the target's handle
Copied(l) ==
    /\ pc[l] \in {"none", "gone"} /\ Go(l, "idle") /\ givers > 0 /\ givers' = givers + 1
    /\ UNCHANGED <<gate, gives_left, slotVars, valueVars, saw, to, then>>

\* One step of the handles, as Gate and Gather use them
HandleStep(g) ==
    \/ GiverStep(g) \/ Look(g) \/ DropGiver(g) \/ Cancel(g) \/ WriteOff(g) \/ Copied(g)
    \/ \E h \in Givers : Clone(h, g)
SharedStep(a) == CommonStep(a) \/ StartRefused(a)
WorkStep(w) == RunStep(w) \/ Panic(w) \/ AgainRefused(w)
GateStep ==
    \/ \E g \in Givers : HandleStep(g)
    \/ \E a \in Actors : SharedStep(a)
    \/ \E w \in Workers : WorkStep(w)

\* tlapm infers types before it calls the SMT solver, which is most of its work on the
\* steps below; a fact with a CASE in it makes it go on without them
LEMMA Untyped == CASE TRUE -> TRUE
BY ZenonT(30)

LEMMA HandleTyped ==
    ASSUME TypeOK, NEW g \in Givers, HandleStep(g), DropGiver(g) => givers > 0
    PROVE  TypeOK'
<1>1. g \in Actors
  BY DEF Actors
<1>2. CASE Look(g) \/ Leave(g) \/ TriggerGives(g)
  BY <1>1, <1>2 DEF TypeOK, Look, Leave, TriggerGives, Go, Pcs, gateVars, slotVars, lifeVars, valueVars
<1>3. CASE Trigger(g)
  BY <1>1, <1>3 DEF TypeOK, Trigger, Go, Pcs, Gates, Newest, gateVars, slotVars, lifeVars, valueVars
<1>4. CASE TriggerMove(g)
  BY <1>1, <1>4 DEF TypeOK, TriggerMove, Go, Pcs, Newest, slotVars, lifeVars
<1>5. CASE Spend(g) \/ EndGate(g)
  BY <1>1, <1>5 DEF TypeOK, Spend, EndGate, Go, Pcs, Gates, slotVars, lifeVars, valueVars
<1>6. CASE DropGiver(g) \/ Copied(g) \/ \E h \in Givers : Clone(h, g)
  BY <1>1, <1>6 DEF TypeOK, DropGiver, Copied, Clone, Go, Pcs, slotVars, lifeVars, valueVars
<1>7. CASE Cancel(g)
  BY <1>1, <1>7 DEF TypeOK, Cancel, Go, Pcs, Over, gateVars, lifeVars, valueVars
<1>8. CASE WriteOff(g)
  BY <1>1, <1>8 DEF TypeOK, WriteOff, Go, Pcs, Over, gateVars, valueVars
<1> QED  BY <1>2, <1>3, <1>4, <1>5, <1>6, <1>7, <1>8 DEF HandleStep, GiverStep

LEMMA SharedTyped ==
    ASSUME TypeOK, NEW a \in Actors, SharedStep(a)
    PROVE  TypeOK'
<1>1. After(a) \in Pcs
  BY DEF After, TypeOK, Pcs
<1>2. CASE Start(a)
  BY <1>1, <1>2, GateAssumption DEF TypeOK, Start, Go, gateVars, lifeVars, valueVars
<1>3. CASE StartRefused(a)
  BY <1>3, GateAssumption DEF TypeOK, StartRefused, Go, Pcs, Gates, Over, lifeVars, valueVars
<1>4. CASE FinishWaiting(a)
  BY <1>1, <1>4 DEF TypeOK, FinishWaiting, Go, Gates, lifeVars, valueVars
<1>5. CASE LetGo(a)
  BY <1>1, <1>5 DEF TypeOK, LetGo, Go, Pcs, Gates, Over, lifeVars, valueVars
<1>6. CASE Close(a)
  BY <1>6 DEF TypeOK, Close, Go, Pcs, Gates, slotVars, lifeVars, valueVars
<1> QED  BY <1>2, <1>3, <1>4, <1>5, <1>6 DEF SharedStep, CommonStep

LEMMA WorkTyped ==
    ASSUME TypeOK, NEW w \in Workers, WorkStep(w)
    PROVE  TypeOK'
<1>1. w \in Actors
  BY DEF Actors
<1>2. CASE Pop(w)
  BY <1>1, <1>2 DEF TypeOK, Pop, Go, Pcs, gateVars, lifeVars, valueVars
<1>3. CASE Begin(w)
  BY <1>1, <1>3, ZenonT(30) DEF TypeOK, Begin, EndTask, Go, Pcs, Gates, Over, lifeVars, valueVars
<1>4. CASE Panic(w)
  BY <1>1, <1>4 DEF TypeOK, Panic, EndTask, Go, Pcs, Gates, Over, lifeVars, valueVars
<1>5. CASE Publish(w)
  BY <1>1, <1>5, ZenonT(30) DEF TypeOK, Publish, EndTask, Go, Pcs, Gates, Over, lifeVars, valueVars
<1>6. CASE Prepare(w) \/ Deliver(w)
  BY <1>1, <1>6 DEF TypeOK, Prepare, Deliver, Go, Pcs, Gates, gateVars, slotVars, lifeVars, valueVars
<1>7. CASE Again(w)
  BY <1>1, <1>7 DEF TypeOK, Again, Go, Pcs, gateVars, lifeVars, valueVars
<1>8. CASE AgainRefused(w)
  BY <1>1, <1>8 DEF TypeOK, AgainRefused, Go, Pcs, Gates, Over, lifeVars, valueVars
<1>9. CASE Rewait(w)
  BY <1>1, <1>9 DEF TypeOK, Rewait, Go, Pcs, gateVars, lifeVars, valueVars
<1>10. CASE AfterRun(w) \/ AfterGives(w) \/ AfterGivers(w)
  BY <1>1, <1>10 DEF TypeOK, AfterRun, AfterGives, AfterGivers, Go, Pcs, Gates, gateVars, slotVars, lifeVars, valueVars
<1>11. CASE AfterMove(w) \/ Recheck(w)
  BY <1>1, <1>11 DEF TypeOK, AfterMove, Recheck, Go, Pcs, gateVars, slotVars, lifeVars, valueVars
<1> QED  BY <1>2, <1>3, <1>4, <1>5, <1>6, <1>7, <1>8, <1>9, <1>10, <1>11 DEF WorkStep, RunStep

-----------------------------------------------------------------------------
(* The claim.                                                              *)

\* Only thread a moves
Only(a) ==
    /\ \A b \in Actors \ {a} : pc'[b] = pc[b] /\ saw'[b] = saw[b] /\ to'[b] = to[b]
    /\ \A g \in Givers \ {a} : then'[g] = then[g]

\* What a step of thread a may do with the claim: keep it, or not have it; take it
\* with the gate it waits at; put it in a queue or take it from there; give it up
Keeps(a) ==
    /\ Claims(a)' <=> Claims(a)
    /\ queue' = queue /\ (released' => released)
    /\ gate' = gate \/ (Claims(a) /\ gate' # "WAITING" /\ gate # "FINISHED") \/ gate' = "FINISHED"
       \/ (gate = "RUNNING" /\ gate' = "PENDING")
TakesUp(a) ==
    /\ gate = "WAITING" /\ gate' # "WAITING" /\ Claims(a)'
    /\ queue' = queue /\ (released' => released)
Queues(a) ==
    /\ Claims(a) /\ ~Claims(a)' /\ queue' = queue + 1
    /\ gate' = gate /\ (released' => released)
Unqueues(a) ==
    /\ queue = 1 /\ queue' = 0 /\ Claims(a)'
    /\ gate' = gate /\ (released' => released)
GivesUp(a) ==
    /\ Claims(a) /\ ~Claims(a)' /\ queue' = queue
    /\ \/ gate' = "WAITING" /\ gate # "FINISHED" /\ (released' => released)
       \/ gate' = "FINISHED"
Handles(a) == Keeps(a) \/ TakesUp(a) \/ Queues(a) \/ Unqueues(a) \/ GivesUp(a)

LEMMA ClaimStep ==
    ASSUME TypeOK, TypeOK', OneClaim, NEW a \in Actors, Only(a), Handles(a)
    PROVE  OneClaim'
<1>1. \A b \in Actors : b # a => (Claims(b)' <=> Claims(b))
  BY DEF Only, Claims
<1> DEFINE C(b) == Claims(b)
           D(b) == Claims(b)'
<1>2. \A b \in Actors : b # a => (D(b) <=> C(b))
  BY <1>1
<1>3. /\ queue \in {0, 1} /\ queue' \in Nat /\ gate \in Gates /\ gate' \in Gates
      /\ released \in BOOLEAN /\ released' \in BOOLEAN
      /\ queue = 1 => \A b \in Actors : ~C(b)
      /\ \A b, c \in Actors : C(b) /\ C(c) => b = c
      /\ gate = "WAITING" => queue = 0 /\ \A b \in Actors : ~C(b)
      /\ gate \in {"QUEUED", "RUNNING", "PENDING"} => queue = 1 \/ \E b \in Actors : C(b)
      /\ released => gate = "FINISHED" /\ queue = 0 /\ \A b \in Actors : ~C(b)
  BY DEF OneClaim, TypeOK
<1>4. \/ /\ D(a) <=> C(a)
         /\ queue' = queue /\ (released' => released)
         /\ gate' = gate \/ (C(a) /\ gate' # "WAITING" /\ gate # "FINISHED") \/ gate' = "FINISHED"
            \/ (gate = "RUNNING" /\ gate' = "PENDING")
      \/ gate = "WAITING" /\ gate' # "WAITING" /\ D(a) /\ queue' = queue /\ (released' => released)
      \/ C(a) /\ ~D(a) /\ queue' = queue + 1 /\ gate' = gate /\ (released' => released)
      \/ queue = 1 /\ queue' = 0 /\ D(a) /\ gate' = gate /\ (released' => released)
      \/ /\ C(a) /\ ~D(a) /\ queue' = queue
         /\ (gate' = "WAITING" /\ gate # "FINISHED" /\ (released' => released)) \/ gate' = "FINISHED"
  BY DEF Handles, Keeps, TakesUp, Queues, Unqueues, GivesUp
<1>5. SUFFICES
      /\ queue' \in {0, 1}
      /\ queue' = 1 => \A b \in Actors : ~D(b)
      /\ \A b, c \in Actors : D(b) /\ D(c) => b = c
      /\ gate' = "WAITING" => queue' = 0 /\ \A b \in Actors : ~D(b)
      /\ gate' \in {"QUEUED", "RUNNING", "PENDING"} => queue' = 1 \/ \E b \in Actors : D(b)
      /\ released' => gate' = "FINISHED" /\ queue' = 0 /\ \A b \in Actors : ~D(b)
  BY DEF OneClaim
<1> HIDE DEF C, D
<1>6. /\ queue' \in {0, 1}
      /\ queue' = 1 => \A b \in Actors : ~D(b)
      /\ \A b, c \in Actors : D(b) /\ D(c) => b = c
  BY <1>2, <1>3, <1>4
<1>7. gate' = "WAITING" => queue' = 0 /\ \A b \in Actors : ~D(b)
  BY <1>2, <1>3, <1>4
<1>8. gate' \in {"QUEUED", "RUNNING", "PENDING"} => queue' = 1 \/ \E b \in Actors : D(b)
  BY <1>2, <1>3, <1>4 DEF Gates
<1>9. released' => gate' = "FINISHED" /\ queue' = 0 /\ \A b \in Actors : ~D(b)
  BY <1>2, <1>3, <1>4
<1> QED  BY <1>6, <1>7, <1>8, <1>9

\* What a step of thread a may do with the task: leave it with whoever has the claim;
\* bring it back from a run; take it out of the slot; or have nothing more to do
Placing(a) ==
    \/ /\ task' = task /\ (pc'[a] \in OnRun => pc[a] \in OnRun)
       /\ (Claims(a)' /\ pc'[a] \notin OnRun) \/ queue' = 1 \/ gate' = "WAITING" =>
            (Claims(a) /\ pc[a] \notin OnRun) \/ queue = 1 \/ gate = "WAITING"
    \/ pc[a] \in OnRun /\ pc'[a] \notin OnRun /\ task' = "slot"
    \/ queue = 1 /\ queue' = 0 /\ gate' # "WAITING" /\ pc'[a] \in OnRun /\ task' = "out"
    \/ Claims(a) /\ ~Claims(a)' /\ queue' = queue /\ gate' # "WAITING"

LEMMA TaskStep ==
    ASSUME OneClaim, OneClaim', TaskPlaced, Carried, NEW a \in Actors, Only(a), Placing(a)
    PROVE  TaskPlaced'
<1>1. Workers \subseteq Actors /\ \A b \in Actors : pc[b] \in OnRun => b \in Workers /\ Claims(b)
  BY DEF Carried, GiverCarries, Actors, GiverPcs, OnRun, Claims
<1>2. \A b \in Actors : b # a => pc'[b] = pc[b] /\ (Claims(b)' <=> Claims(b))
  BY DEF Only, Claims
<1>3. \A b \in Actors : pc'[b] \in OnRun => Claims(b)'
  BY DEF Claims
<1> DEFINE C(b) == Claims(b)
           D(b) == Claims(b)'
           R(b) == pc[b] \in OnRun
           S(b) == pc'[b] \in OnRun
<1>4. /\ Workers \subseteq Actors
      /\ \A b \in Actors : (R(b) => C(b) /\ b \in Workers) /\ (S(b) => D(b))
      /\ \A b \in Actors : b # a => (R(b) <=> S(b)) /\ (C(b) <=> D(b))
  BY <1>1, <1>2, <1>3
<1>5. /\ queue \in {0, 1} /\ queue = 1 => \A b \in Actors : ~C(b)
      /\ \A b, c \in Actors : C(b) /\ C(c) => b = c
      /\ gate = "WAITING" => queue = 0 /\ \A b \in Actors : ~C(b)
      /\ queue' \in {0, 1} /\ queue' = 1 => \A b \in Actors : ~D(b)
      /\ \A b, c \in Actors : D(b) /\ D(c) => b = c
      /\ gate' = "WAITING" => queue' = 0 /\ \A b \in Actors : ~D(b)
  BY DEF OneClaim
<1>6. /\ \A w \in Workers : R(w) => task = "out"
      /\ queue = 1 => task = "slot"
      /\ gate = "WAITING" => task = "slot"
      /\ \A b \in Actors : C(b) /\ ~R(b) => task = "slot"
  BY DEF TaskPlaced
<1>7. \/ /\ task' = task /\ (S(a) => R(a))
         /\ (D(a) /\ ~S(a)) \/ queue' = 1 \/ gate' = "WAITING" =>
              (C(a) /\ ~R(a)) \/ queue = 1 \/ gate = "WAITING"
      \/ R(a) /\ ~S(a) /\ task' = "slot"
      \/ queue = 1 /\ queue' = 0 /\ gate' # "WAITING" /\ S(a) /\ task' = "out"
      \/ C(a) /\ ~D(a) /\ queue' = queue /\ gate' # "WAITING"
  BY DEF Placing
<1>8. SUFFICES /\ \A w \in Workers : S(w) => task' = "out"
               /\ queue' = 1 => task' = "slot"
               /\ gate' = "WAITING" => task' = "slot"
               /\ \A b \in Actors : D(b) /\ ~S(b) => task' = "slot"
  BY DEF TaskPlaced
<1> HIDE DEF C, D, R, S
<1>9. \A w \in Workers : S(w) => task' = "out"
  BY <1>4, <1>5, <1>6, <1>7
<1>10. queue' = 1 \/ gate' = "WAITING" => task' = "slot"
  BY <1>4, <1>5, <1>6, <1>7
<1>11. \A b \in Actors : D(b) /\ ~S(b) => task' = "slot"
  BY <1>4, <1>5, <1>6, <1>7
<1> QED  BY <1>9, <1>10, <1>11

-----------------------------------------------------------------------------
(* The handles that can give.                                              *)

One(p) == IF p THEN 1 ELSE 0

LEMMA LiveFinite == IsFiniteSet(Live) /\ Cardinality(Live) \in Nat
<1>1. Live \in SUBSET Givers
  BY DEF Live
<1> QED  BY <1>1, GateAssumption, FS_Subset, FS_CardinalityType

LEMMA LiveStep ==
    ASSUME NEW a \in Actors, Only(a),
           GiversCounted, givers' = givers + One(a \in Live') - One(a \in Live)
    PROVE  GiversCounted'
<1>1. Live' \ {a} = Live \ {a}
  BY DEF Live, Only, Actors
<1>2. /\ IsFiniteSet(Live \ {a}) /\ Cardinality(Live \ {a}) \in Nat
      /\ Cardinality(Live \ {a}) = Cardinality(Live) - One(a \in Live)
  BY LiveFinite, FS_RemoveElement, FS_CardinalityType DEF One
<1>3. CASE a \in Live'
  <2>1. Live' = (Live \ {a}) \cup {a} /\ a \notin Live \ {a}
    BY <1>1, <1>3
  <2>2. Cardinality(Live') = Cardinality(Live \ {a}) + 1
    BY <1>2, <2>1, FS_AddElement
  <2> QED  BY <1>2, <1>3, <2>2, LiveFinite DEF One, GiversCounted
<1>4. CASE a \notin Live'
  <2>1. Live' = Live \ {a}
    BY <1>1, <1>4
  <2> QED  BY <1>2, <1>4, <2>1, LiveFinite DEF One, GiversCounted
<1> QED  BY <1>3, <1>4

LEMMA LiveCounted ==
    ASSUME GiversCounted, NEW g \in Live
    PROVE  givers \in Nat \ {0}
<1>1. Cardinality(Live) # 0
  BY LiveFinite, FS_EmptySet
<1> QED  BY <1>1, LiveFinite DEF GiversCounted

-----------------------------------------------------------------------------
(* Each step.                                                              *)

LEMMA CarriedStep ==
    ASSUME TypeOK, TypeOK', Carried, NEW a \in Actors, Only(a), series' = series,
           a \in Givers => GiverCarries(a)', a \in Workers => WorkerCarries(a)'
    PROVE  Carried'
<1>1. ASSUME NEW g \in Givers  PROVE GiverCarries(g)'
  <2>1. CASE g = a
    BY <2>1
  <2>2. CASE g # a
    BY <2>2 DEF Carried, GiverCarries, Only, Actors
  <2> QED  BY <2>1, <2>2
<1>2. ASSUME NEW w \in Workers  PROVE WorkerCarries(w)'
  <2>1. CASE w = a
    BY <2>1
  <2>2. CASE w # a
    BY <2>2 DEF Carried, WorkerCarries, Only, Actors
  <2> QED  BY <2>1, <2>2
<1> QED  BY <1>1, <1>2 DEF Carried

\* What every step of thread a does, whichever it is
Orderly(a) ==
    /\ Only(a) /\ Handles(a) /\ Placing(a) /\ series' = series
    /\ a \in Givers => GiverCarries(a)'
    /\ a \in Workers => WorkerCarries(a)'
    /\ givers' = givers + One(a \in Live') - One(a \in Live)

LEMMA OrderlySafe ==
    ASSUME SafeInv, TypeOK', NEW a \in Actors, Orderly(a)
    PROVE  SafeInv'
<1>1. OneClaim'
  BY ClaimStep DEF SafeInv, Orderly
<1>2. Carried'
  BY CarriedStep DEF SafeInv, Orderly
<1>3. TaskPlaced'
  BY <1>1, TaskStep DEF SafeInv, Orderly
<1>4. GiversCounted'
  BY LiveStep DEF SafeInv, Orderly
<1> QED  BY <1>1, <1>2, <1>3, <1>4 DEF SafeInv

LEMMA HandleOrderly ==
    ASSUME SafeInv, NEW g \in Givers, HandleStep(g)
    PROVE  Orderly(g)
<1> USE DEF Orderly, Only, Go, One, Live, Claims, Resting, Settling, OnRun, GiverCarries, GiverPcs,
            lifeVars, slotVars, gateVars, valueVars
<1>1. g \in Actors /\ g \notin Workers /\ TypeOK /\ GiverCarries(g)
  BY GateAssumption, ZenonT(30) DEF Actors, SafeInv, Carried
<1> USE Untyped
<1>2. CASE Look(g)
  BY <1>1, <1>2 DEF TypeOK, Look, Handles, Keeps, Placing
<1>3. CASE Leave(g)
  BY <1>1, <1>3 DEF TypeOK, Leave, Handles, Keeps, Placing
<1>4. CASE TriggerGives(g)
  BY <1>1, <1>4 DEF TypeOK, TriggerGives, Handles, Keeps, Placing
<1>5. CASE Trigger(g)
  BY <1>1, <1>5 DEF TypeOK, Trigger, Handles, Keeps, Placing
<1>6. CASE TriggerMove(g)
  BY <1>1, <1>6 DEF TypeOK, TriggerMove, Handles, Keeps, TakesUp, Placing
<1>7. CASE Spend(g)
  BY <1>1, <1>7 DEF TypeOK, Spend, Handles, Keeps, Placing
<1>8. CASE EndGate(g)
  BY <1>1, <1>8 DEF TypeOK, EndGate, Handles, Keeps, Placing
<1>9. CASE DropGiver(g)
  BY <1>1, <1>9 DEF TypeOK, DropGiver, Handles, Keeps, Placing
<1>10. CASE Copied(g)
  BY <1>1, <1>10 DEF TypeOK, Copied, Handles, Keeps, Placing
<1>11. CASE \E h \in Givers : Clone(h, g)
  BY <1>1, <1>11 DEF TypeOK, Clone, Handles, Keeps, Placing
<1>12. CASE Cancel(g)
  BY <1>1, <1>12 DEF TypeOK, Cancel, Handles, Keeps, Placing
<1>13. CASE WriteOff(g)
  BY <1>1, <1>13 DEF TypeOK, WriteOff, Handles, Keeps, Placing
<1> QED  BY <1>2, <1>3, <1>4, <1>5, <1>6, <1>7, <1>8, <1>9, <1>10, <1>11, <1>12, <1>13, ZenonT(30) DEF HandleStep, GiverStep

LEMMA SharedOrderly ==
    ASSUME SafeInv, NEW a \in Actors, SharedStep(a)
    PROVE  Orderly(a)
<1> USE DEF Orderly, Only, Go, One, Live, Claims, Resting, Settling, OnRun,
            GiverCarries, GiverPcs, WorkerCarries, WorkerPcs, After,
            lifeVars, slotVars, gateVars, valueVars
<1>1. /\ TypeOK /\ (a \in Givers => GiverCarries(a)) /\ (a \in Workers => WorkerCarries(a))
      /\ a \in Givers \/ a \in Workers
  BY ZenonT(30) DEF Actors, SafeInv, Carried
<1> USE Untyped
<1>2. CASE Start(a)
  BY <1>1, <1>2, GateAssumption DEF TypeOK, Start, Handles, Queues, Placing
<1>3. CASE StartRefused(a)
  BY <1>1, <1>3, GateAssumption DEF TypeOK, StartRefused, Handles, Keeps, Placing
<1>4. CASE FinishWaiting(a)
  BY <1>1, <1>4, GateAssumption DEF TypeOK, FinishWaiting, Handles, GivesUp, Placing
<1>5. CASE LetGo(a)
  BY <1>1, <1>5, GateAssumption DEF TypeOK, LetGo, Handles, Keeps, TakesUp, Placing
<1>6. CASE Close(a)
  BY <1>1, <1>6, GateAssumption DEF TypeOK, Close, Handles, Keeps, TakesUp, Placing
<1> QED  BY <1>2, <1>3, <1>4, <1>5, <1>6, ZenonT(30) DEF SharedStep, CommonStep

LEMMA WorkOrderly ==
    ASSUME SafeInv, NEW w \in Workers, WorkStep(w)
    PROVE  Orderly(w)
<1> USE DEF Orderly, Only, Go, One, Live, Claims, Resting, Settling, OnRun,
            WorkerCarries, WorkerPcs, lifeVars, slotVars, gateVars, valueVars
<1>1. TypeOK /\ OneClaim /\ TaskPlaced /\ WorkerCarries(w) /\ w \in Actors /\ w \notin Givers
  BY GateAssumption, ZenonT(30) DEF Actors, SafeInv, Carried
<1> USE Untyped
<1>2. CASE Pop(w)
  BY <1>1, <1>2 DEF TypeOK, Pop, OneClaim, TaskPlaced, Handles, Keeps, Unqueues, Queues, GivesUp, Placing
<1>3. CASE Begin(w)
  BY <1>1, <1>3 DEF TypeOK, Begin, EndTask, Handles, Keeps, Unqueues, Queues, GivesUp, Placing
<1>4. CASE Prepare(w)
  BY <1>1, <1>4 DEF TypeOK, Prepare, Handles, Keeps, Unqueues, Queues, GivesUp, Placing
<1>5. CASE Deliver(w)
  BY <1>1, <1>5 DEF TypeOK, Deliver, Handles, Keeps, Unqueues, Queues, GivesUp, Placing
<1>6. CASE Panic(w)
  BY <1>1, <1>6 DEF TypeOK, Panic, EndTask, Handles, Keeps, Unqueues, Queues, GivesUp, Placing
<1>7. CASE Publish(w)
  BY <1>1, <1>7 DEF TypeOK, Publish, EndTask, Handles, Keeps, Unqueues, Queues, GivesUp, Placing
<1>8. CASE Again(w)
  BY <1>1, <1>8 DEF TypeOK, Again, Handles, Keeps, Unqueues, Queues, GivesUp, Placing
<1>9. CASE AgainRefused(w)
  BY <1>1, <1>9 DEF TypeOK, AgainRefused, Handles, Keeps, Unqueues, Queues, GivesUp, Placing
<1>10. CASE Rewait(w)
  BY <1>1, <1>10 DEF TypeOK, Rewait, Handles, Keeps, Unqueues, Queues, GivesUp, Placing
<1>11. CASE AfterRun(w)
  BY <1>1, <1>11 DEF TypeOK, AfterRun, OneClaim, Handles, Keeps, Unqueues, Queues, GivesUp, Placing
<1>12. CASE AfterGives(w)
  BY <1>1, <1>12 DEF TypeOK, AfterGives, Handles, Keeps, Unqueues, Queues, GivesUp, Placing
<1>13. CASE AfterGivers(w)
  BY <1>1, <1>13 DEF TypeOK, AfterGivers, Handles, Keeps, Unqueues, Queues, GivesUp, Placing
<1>14. CASE AfterMove(w)
  BY <1>1, <1>14 DEF TypeOK, AfterMove, Handles, Keeps, Unqueues, Queues, GivesUp, Placing
<1>15. CASE Recheck(w)
  BY <1>1, <1>15 DEF TypeOK, Recheck, Handles, Keeps, Unqueues, Queues, GivesUp, Placing
<1> QED  BY <1>2, <1>3, <1>4, <1>5, <1>6, <1>7, <1>8, <1>9, <1>10, <1>11, <1>12, <1>13, <1>14, <1>15, ZenonT(30) DEF WorkStep, RunStep

LEMMA StepSafe ==
    ASSUME SafeInv, GateStep
    PROVE  SafeInv' /\ \E a \in Actors : Orderly(a)
<1>1. ASSUME NEW g \in Givers, HandleStep(g)  PROVE SafeInv' /\ Orderly(g)
  <2>1. Orderly(g) /\ g \in Actors
    BY <1>1, HandleOrderly DEF Actors
  <2>2. DropGiver(g) => givers > 0
    BY LiveCounted DEF DropGiver, Live, SafeInv
  <2>3. TypeOK'
    BY <1>1, <2>2, HandleTyped DEF SafeInv
  <2> QED  BY <2>1, <2>3, OrderlySafe
<1>2. ASSUME NEW a \in Actors, SharedStep(a)  PROVE SafeInv' /\ Orderly(a)
  BY <1>2, SharedOrderly, SharedTyped, OrderlySafe DEF SafeInv
<1>3. ASSUME NEW w \in Workers, WorkStep(w)  PROVE SafeInv' /\ Orderly(w)
  BY <1>3, WorkOrderly, WorkTyped, OrderlySafe DEF SafeInv, Actors
<1> QED  BY <1>1, <1>2, <1>3 DEF GateStep, Actors

-----------------------------------------------------------------------------
(* What has reached a run.                                                 *)

LEMMA HandleReached ==
    ASSUME SafeInv, Reached, NEW g \in Givers, HandleStep(g)
    PROVE  Reached'
<1> USE DEF Go, Settling, lifeVars, slotVars, gateVars, valueVars, Newest
<1>1. /\ TypeOK /\ g \in Actors /\ g \notin Workers /\ GiverCarries(g) /\ Workers \subseteq Actors
      /\ gate = "WAITING" => \A w \in Workers : pc[w] \notin OnRun \cup Settling
  BY GateAssumption, ZenonT(30) DEF Actors, SafeInv, Carried, OneClaim, Claims, Resting
<1> USE DEF TypeOK, GiverCarries
<1> USE Untyped
<1>2. CASE Look(g)
  BY <1>1, <1>2 DEF Look, Reached
<1>3. CASE Leave(g)
  BY <1>1, <1>3 DEF Leave, Reached
<1>4. CASE TriggerGives(g)
  BY <1>1, <1>4 DEF TriggerGives, Reached
<1>5. CASE Trigger(g)
  BY <1>1, <1>5 DEF Trigger, Reached
<1>6. CASE TriggerMove(g)
  BY <1>1, <1>6 DEF TriggerMove, Reached, OnRun
<1>7. CASE Spend(g)
  BY <1>1, <1>7 DEF Spend, Reached
<1>8. CASE EndGate(g)
  BY <1>1, <1>8 DEF EndGate, Reached
<1>9. CASE DropGiver(g)
  BY <1>1, <1>9 DEF DropGiver, Reached
<1>10. CASE Copied(g)
  BY <1>1, <1>10 DEF Copied, Reached
<1>11. CASE \E h \in Givers : Clone(h, g)
  BY <1>1, <1>11 DEF Clone, Reached
<1>12. CASE Cancel(g)
  BY <1>1, <1>12 DEF Cancel, Reached
<1>13. CASE WriteOff(g)
  BY <1>1, <1>13 DEF WriteOff, Reached
<1> QED  BY <1>2, <1>3, <1>4, <1>5, <1>6, <1>7, <1>8, <1>9, <1>10, <1>11, <1>12, <1>13 DEF HandleStep, GiverStep

LEMMA SharedReached ==
    ASSUME SafeInv, Reached, NEW a \in Actors, SharedStep(a)
    PROVE  Reached'
<1> USE DEF Go, Settling, lifeVars, slotVars, gateVars, valueVars, Newest
<1>1. TypeOK /\ Workers \subseteq Actors /\ (a \in Workers => After(a) = "idle")
  BY GateAssumption DEF Actors, SafeInv, After
<1> USE DEF TypeOK
<1> USE Untyped
<1>2. CASE Start(a)
  BY <1>1, <1>2 DEF Start, Reached
<1>3. CASE StartRefused(a)
  BY <1>1, <1>3 DEF StartRefused, Reached
<1>4. CASE FinishWaiting(a)
  BY <1>1, <1>4 DEF FinishWaiting, Reached
<1>5. CASE LetGo(a)
  BY <1>1, <1>5 DEF LetGo, Reached
<1>6. CASE Close(a)
  BY <1>1, <1>6 DEF Close, Reached
<1> QED  BY <1>2, <1>3, <1>4, <1>5, <1>6 DEF SharedStep, CommonStep

LEMMA WorkReached ==
    ASSUME SafeInv, Reached, NEW w \in Workers, WorkStep(w)
    PROVE  Reached'
<1> USE DEF Go, Settling, lifeVars, slotVars, gateVars, valueVars, Newest
<1>1. /\ TypeOK /\ w \in Actors /\ WorkerCarries(w) /\ Workers \subseteq Actors
      /\ pc[w] \in Settling => \A x \in Workers : pc[x] \in OnRun \cup Settling => x = w
  BY GateAssumption, ZenonT(30) DEF Actors, SafeInv, Carried, OneClaim, Claims, Resting
<1> USE DEF TypeOK, WorkerCarries
<1> USE Untyped
<1>2. CASE Pop(w)
  BY <1>1, <1>2 DEF Pop, Reached
<1>3. CASE Begin(w)
  BY <1>1, <1>3 DEF Begin, EndTask, Reached
<1>4. CASE Prepare(w)
  BY <1>1, <1>4 DEF Prepare, Reached
<1>5. CASE Deliver(w)
  BY <1>1, <1>5 DEF Deliver, Reached
<1>6. CASE Panic(w)
  BY <1>1, <1>6 DEF Panic, EndTask, Reached
<1>7. CASE Publish(w)
  BY <1>1, <1>7 DEF Publish, EndTask, Reached
<1>8. CASE Again(w)
  BY <1>1, <1>8 DEF Again, Reached
<1>9. CASE AgainRefused(w)
  BY <1>1, <1>9 DEF AgainRefused, Reached
<1>10. CASE Rewait(w)
  BY <1>1, <1>10 DEF Rewait, Reached
<1>11. CASE AfterRun(w)
  BY <1>1, <1>11 DEF AfterRun, Reached
<1>12. CASE AfterGives(w)
  BY <1>1, <1>12 DEF AfterGives, spent, Reached
<1>13. CASE AfterGivers(w)
  BY <1>1, <1>13 DEF AfterGivers, Reached
<1>14. CASE AfterMove(w)
  BY <1>1, <1>14 DEF AfterMove, Reached, OnRun
<1>15. CASE Recheck(w)
  BY <1>1, <1>15 DEF Recheck, Reached
<1> QED  BY <1>2, <1>3, <1>4, <1>5, <1>6, <1>7, <1>8, <1>9, <1>10, <1>11, <1>12, <1>13, <1>14, <1>15 DEF WorkStep, RunStep

-----------------------------------------------------------------------------
(* What is owed once the last giver has gone.                              *)

LEMMA HandleEnded ==
    ASSUME SafeInv, Ended, NEW g \in Givers, HandleStep(g)
    PROVE  Ended'
<1> USE DEF Go, lifeVars, slotVars, gateVars, valueVars
<1>1. TypeOK /\ g \in Actors /\ GiverCarries(g)
  BY DEF Actors, SafeInv, Carried
<1> USE DEF TypeOK, GiverCarries, Actors
<1> USE Untyped
<1>2. CASE Look(g)
  BY <1>1, <1>2 DEF Look, Ended
<1>3. CASE Leave(g)
  BY <1>1, <1>3 DEF Leave, Ended
<1>4. CASE TriggerGives(g)
  BY <1>1, <1>4 DEF TriggerGives, Ended
<1>5. CASE Trigger(g)
  BY <1>1, <1>5 DEF Trigger, Ended
<1>6. CASE TriggerMove(g)
  BY <1>1, <1>6 DEF TriggerMove, Ended
<1>7. CASE Spend(g)
  BY <1>1, <1>7 DEF Spend, Ended
<1>8. CASE EndGate(g)
  BY <1>1, <1>8 DEF EndGate, Ended
<1>9. CASE DropGiver(g)
  BY <1>1, <1>9 DEF DropGiver, Ended
<1>10. CASE Copied(g)
  BY <1>1, <1>10 DEF Copied, Ended
<1>11. CASE \E h \in Givers : Clone(h, g)
  BY <1>1, <1>11 DEF Clone, Ended
<1>12. CASE Cancel(g)
  BY <1>1, <1>12 DEF Cancel, Ended
<1>13. CASE WriteOff(g)
  BY <1>1, <1>13 DEF WriteOff, Ended
<1> QED  BY <1>2, <1>3, <1>4, <1>5, <1>6, <1>7, <1>8, <1>9, <1>10, <1>11, <1>12, <1>13 DEF HandleStep, GiverStep

LEMMA SharedEnded ==
    ASSUME SafeInv, Ended, NEW a \in Actors, SharedStep(a)
    PROVE  Ended'
<1> USE DEF Go, lifeVars, slotVars, gateVars, valueVars
<1>1. TypeOK /\ After(a) \in {"idle", "drop", "gone"}
  BY DEF SafeInv, TypeOK, After
<1> USE DEF TypeOK, Actors
<1> USE Untyped
<1>2. CASE Start(a)
  BY <1>1, <1>2 DEF Start, Ended
<1>3. CASE StartRefused(a)
  BY <1>1, <1>3 DEF StartRefused, Ended
<1>4. CASE FinishWaiting(a)
  BY <1>1, <1>4 DEF FinishWaiting, Ended
<1>5. CASE LetGo(a)
  BY <1>1, <1>5 DEF LetGo, Ended
<1>6. CASE Close(a)
  BY <1>1, <1>6 DEF Close, Ended
<1> QED  BY <1>2, <1>3, <1>4, <1>5, <1>6 DEF SharedStep, CommonStep

LEMMA WorkEnded ==
    ASSUME SafeInv, Ended, NEW w \in Workers, WorkStep(w)
    PROVE  Ended'
<1> USE DEF Go, lifeVars, slotVars, gateVars, valueVars
<1>1. TypeOK /\ w \in Actors /\ w \notin Givers /\ WorkerCarries(w)
  BY GateAssumption DEF Actors, SafeInv, Carried
<1> USE DEF TypeOK, WorkerCarries, Actors
<1> USE Untyped
<1>2. CASE Pop(w)
  BY <1>1, <1>2 DEF Pop, Ended
<1>3. CASE Begin(w)
  BY <1>1, <1>3 DEF Begin, EndTask, Ended
<1>4. CASE Prepare(w)
  BY <1>1, <1>4 DEF Prepare, Ended
<1>5. CASE Deliver(w)
  BY <1>1, <1>5 DEF Deliver, Ended
<1>6. CASE Panic(w)
  BY <1>1, <1>6 DEF Panic, EndTask, Ended
<1>7. CASE Publish(w)
  BY <1>1, <1>7 DEF Publish, EndTask, Ended
<1>8. CASE Again(w)
  BY <1>1, <1>8 DEF Again, Ended
<1>9. CASE AgainRefused(w)
  BY <1>1, <1>9 DEF AgainRefused, Ended
<1>10. CASE Rewait(w)
  BY <1>1, <1>10 DEF Rewait, Ended
<1>11. CASE AfterRun(w)
  BY <1>1, <1>11 DEF AfterRun, Ended
<1>12. CASE AfterGives(w)
  BY <1>1, <1>12 DEF AfterGives, spent, Ended
<1>13. CASE AfterGivers(w)
  BY <1>1, <1>13 DEF AfterGivers, Ended
<1>14. CASE AfterMove(w)
  BY <1>1, <1>14 DEF AfterMove, Ended
<1>15. CASE Recheck(w)
  BY <1>1, <1>15 DEF Recheck, Ended
<1> QED  BY <1>2, <1>3, <1>4, <1>5, <1>6, <1>7, <1>8, <1>9, <1>10, <1>11, <1>12, <1>13, <1>14, <1>15 DEF WorkStep, RunStep

-----------------------------------------------------------------------------
(* A series that counts its gives.                                         *)

LEMMA HandleCounting ==
    ASSUME SafeInv, Counting, NEW g \in Givers, HandleStep(g)
    PROVE  Counting'
<1>1. TypeOK /\ g \in Actors /\ GiverCarries(g)
  BY DEF Actors, SafeInv, Carried
<1>one. ASSUME series, NEW h \in Givers, pc[h] = "spend" \/ gate = "WAITING"
       PROVE  /\ \A b \in Givers : pc[b] = "spend" => b = h /\ gate # "WAITING"
              /\ \A w \in Workers : w \notin Givers /\ pc[w] \notin Settling
  <2>1. h \in Actors /\ Givers \subseteq Actors /\ Workers \subseteq Actors
    BY DEF Actors
  <2>2. \A b \in Givers : pc[b] = "spend" => Claims(b)
    BY <1>one DEF Claims, SafeInv, Carried, GiverCarries
  <2>3. \A w \in Workers : pc[w] \in Settling => Claims(w)
    BY DEF Claims, Resting
  <2>4. /\ gate = "WAITING" => \A b \in Actors : ~Claims(b)
        /\ \A b, c \in Actors : Claims(b) /\ Claims(c) => b = c
    BY DEF SafeInv, OneClaim
  <2> HIDE DEF Claims, Settling
  <2> QED  BY <1>one, <2>1, <2>2, <2>3, <2>4, GateAssumption
<1> USE DEF Go, Settling, lifeVars, slotVars, gateVars, valueVars, TypeOK, GiverCarries, Spending, Actors
<1> USE Untyped
<1>2. CASE Look(g)
  BY <1>1, <1>2 DEF Look, Counting
<1>3. CASE Leave(g)
  BY <1>1, <1>3 DEF Leave, Counting
<1>4. CASE TriggerGives(g)
  BY <1>1, <1>4 DEF TriggerGives, Counting
<1>5. CASE Trigger(g)
  BY <1>1, <1>5 DEF Trigger, Counting
<1>6. CASE TriggerMove(g)
  <2>1. CASE counted /\ gate = saw[g]
    <3>1. series /\ gate = "WAITING" /\ g \in Spending'
      BY <1>1, <1>6, <2>1 DEF TriggerMove, Counting
    <3>2. Spending = {} /\ \A w \in Workers : pc'[w] = pc[w] /\ pc[w] \notin Settling
      BY <1>1, <1>6, <1>one, <3>1 DEF TriggerMove
    <3>3. gate' = "QUEUED" /\ started' = started + 1 /\ gives_left' = gives_left /\ series'
      BY <1>1, <1>6, <2>1, <3>1 DEF TriggerMove
    <3>4. gives_left \in Nat /\ started \in Nat
      BY <1>1
    <3> HIDE DEF Spending, TypeOK
    <3> QED  BY <2>1, <3>1, <3>2, <3>3, <3>4, GateAssumption DEF Counting
  <2>2. CASE counted /\ gate # saw[g]
    <3>1. Spending' = Spending
      BY <1>1, <1>6, <2>2 DEF TriggerMove
    <3>2. /\ gate' = gate /\ started' = started /\ gives_left' = gives_left /\ counted' /\ series' = series
          /\ to' = to /\ \A w \in Workers : pc'[w] = pc[w]
      BY <1>1, <1>6, <2>2, GateAssumption DEF TriggerMove
    <3> HIDE DEF Spending, TypeOK
    <3> QED  BY <2>2, <3>1, <3>2 DEF Counting
  <2>3. CASE ~counted
    BY <1>6, <2>3 DEF TriggerMove, Counting
  <2> QED  BY <1>6, <2>1, <2>2, <2>3
<1>7. CASE Spend(g)
  <2>1. CASE counted
    <3>1. g \in Spending /\ g \notin Spending' /\ gives_left > 0 /\ series
      BY <1>1, <1>7, <2>1 DEF Spend, Counting
    <3>2. /\ Spending' = {} /\ gate # "WAITING"
          /\ \A w \in Workers : pc'[w] = pc[w] /\ pc[w] \notin Settling
      BY <1>1, <1>7, <1>one, <3>1 DEF Spend
    <3>3. gate' = gate /\ started' = started /\ gives_left' = gives_left - 1 /\ series'
      BY <1>1, <1>7, <2>1, <3>1 DEF Spend
    <3>4. gives_left \in Nat /\ started \in Nat
      BY <1>1
    <3> HIDE DEF Spending, TypeOK
    <3> QED  BY <2>1, <3>1, <3>2, <3>3, <3>4, GateAssumption DEF Counting
  <2>2. CASE ~counted
    BY <1>7, <2>2 DEF Spend, Counting
  <2> QED  BY <2>1, <2>2
<1>8. CASE EndGate(g)
  BY <1>1, <1>8 DEF EndGate, Counting
<1>9. CASE DropGiver(g)
  BY <1>1, <1>9 DEF DropGiver, Counting
<1>10. CASE Copied(g)
  BY <1>1, <1>10 DEF Copied, Counting
<1>11. CASE \E h \in Givers : Clone(h, g)
  BY <1>1, <1>11 DEF Clone, Counting
<1>12. CASE Cancel(g)
  BY <1>1, <1>12 DEF Cancel, Counting
<1>13. CASE WriteOff(g)
  BY <1>1, <1>13 DEF WriteOff, Counting
<1> QED  BY <1>2, <1>3, <1>4, <1>5, <1>6, <1>7, <1>8, <1>9, <1>10, <1>11, <1>12, <1>13 DEF HandleStep, GiverStep

LEMMA SharedCounting ==
    ASSUME SafeInv, Counting, NEW a \in Actors, SharedStep(a)
    PROVE  Counting'
<1> USE DEF Go, lifeVars, slotVars, gateVars, valueVars
<1>1. TypeOK /\ After(a) \in {"idle", "drop", "gone"}
  BY DEF TypeOK, After, SafeInv
<1> USE DEF TypeOK, Spending, Actors
<1> USE Untyped
<1>2. CASE Start(a)
  BY <1>1, <1>2 DEF Start, Counting
<1>3. CASE StartRefused(a)
  BY <1>1, <1>3 DEF StartRefused, Counting
<1>4. CASE FinishWaiting(a)
  BY <1>1, <1>4 DEF FinishWaiting, Counting
<1>5. CASE LetGo(a)
  BY <1>1, <1>5 DEF LetGo, Counting
<1>6. CASE Close(a)
  BY <1>1, <1>6 DEF Close, Counting
<1> QED  BY <1>2, <1>3, <1>4, <1>5, <1>6 DEF SharedStep, CommonStep

LEMMA WorkCounting ==
    ASSUME SafeInv, Counting, NEW w \in Workers, WorkStep(w)
    PROVE  Counting'
<1> USE DEF Go, OnRun, lifeVars, slotVars, gateVars, valueVars
<1>1. TypeOK /\ w \in Actors /\ w \notin Givers /\ WorkerCarries(w)
  BY GateAssumption DEF Actors, SafeInv, Carried
<1> USE DEF TypeOK, WorkerCarries, Spending, Actors
<1> USE Untyped
<1>2. CASE Pop(w)
  BY <1>1, <1>2 DEF Pop, Counting
<1>3. CASE Begin(w)
  BY <1>1, <1>3 DEF Begin, EndTask, Counting
<1>4. CASE Prepare(w)
  BY <1>1, <1>4 DEF Prepare, Counting
<1>5. CASE Deliver(w)
  BY <1>1, <1>5 DEF Deliver, Counting
<1>6. CASE Panic(w)
  BY <1>1, <1>6 DEF Panic, EndTask, Counting
<1>7. CASE Publish(w)
  BY <1>1, <1>7 DEF Publish, EndTask, Counting
<1>8. CASE Again(w)
  BY <1>1, <1>8 DEF Again, Counting
<1>9. CASE AgainRefused(w)
  BY <1>1, <1>9 DEF AgainRefused, Counting
<1>10. CASE Rewait(w)
  BY <1>1, <1>10 DEF Rewait, Counting
<1>11. CASE AfterRun(w)
  BY <1>1, <1>11 DEF AfterRun, Counting
<1>12. CASE AfterGives(w)
  BY <1>1, <1>12 DEF AfterGives, spent, Counting
<1>13. CASE AfterGivers(w)
  BY <1>1, <1>13 DEF AfterGivers, Counting
<1>14. CASE AfterMove(w)
  BY <1>1, <1>14 DEF AfterMove, Counting
<1>15. CASE Recheck(w)
  BY <1>1, <1>15 DEF Recheck, Counting
<1> QED  BY <1>2, <1>3, <1>4, <1>5, <1>6, <1>7, <1>8, <1>9, <1>10, <1>11, <1>12, <1>13, <1>14, <1>15 DEF WorkStep, RunStep

-----------------------------------------------------------------------------
(* Gate on its own.                                                        *)

WaitingInv == SafeInv /\ Reached /\ Ended

LEMMA StepWaiting ==
    ASSUME WaitingInv, GateStep
    PROVE  WaitingInv'
<1>1. SafeInv'
  BY StepSafe DEF WaitingInv
<1>2. Reached'
  BY HandleReached, SharedReached, WorkReached DEF WaitingInv, GateStep
<1>3. Ended'
  BY HandleEnded, SharedEnded, WorkEnded DEF WaitingInv, GateStep
<1> QED  BY <1>1, <1>2, <1>3 DEF WaitingInv

LEMMA StepCounting ==
    ASSUME SafeInv, Counting, GateStep
    PROVE  Counting'
BY HandleCounting, SharedCounting, WorkCounting DEF GateStep

LEMMA QuietWaiting ==
    ASSUME UNCHANGED vars
    PROVE  (WaitingInv => WaitingInv') /\ (Counting => Counting')
<1> USE Untyped DEF vars, gateVars, slotVars, lifeVars, valueVars
<1>1. SafeInv => TypeOK' /\ GiversCounted' /\ TaskPlaced'
  BY DEF SafeInv, TypeOK, GiversCounted, Live, TaskPlaced, Claims
<1>2. SafeInv => Carried' /\ OneClaim'
  BY ZenonT(30) DEF SafeInv, Carried, GiverCarries, WorkerCarries, OneClaim, Claims
<1>3. (Reached => Reached') /\ (Ended => Ended')
  BY DEF Reached, Ended
<1>4. Counting => Counting'
  BY DEF Counting, Spending
<1> QED  BY <1>1, <1>2, <1>3, <1>4 DEF WaitingInv, SafeInv

LEMMA NextGate ==
    ASSUME Next
    PROVE  GateStep
BY DEF Next, GateStep, HandleStep, SharedStep, WorkStep

\* A task just spawned, with the handles of `first` able to give to it
Fresh(first) ==
    /\ \E k \in Spawned : series = k[1] /\ counted = k[2]
    /\ written = FALSE
    /\ gate = "WAITING" /\ gives_left = Gives /\ givers = Cardinality(first)
    /\ state = "Pending" /\ task = "slot" /\ queue = 0 /\ runsLeft = Runs /\ released = FALSE
    /\ pc = [a \in Actors |-> IF a \in Givers \ first THEN "none" ELSE "idle"]
    /\ saw = [a \in Actors |-> "WAITING"] /\ to = [a \in Actors |-> "WAITING"]
    /\ then = [g \in Givers |-> "idle"] /\ mine = [g \in Givers |-> 0]
    /\ mail = 0 /\ accepted = 0 /\ handed = 0 /\ started = 0

LEMMA FreshWaiting ==
    ASSUME NEW first \in SUBSET Givers, first # {}, Fresh(first)
    PROVE  WaitingInv /\ (Gives # 0 /\ (\A k \in Spawned : k[2] => k[1]) => Counting)
<1>1. IsFiniteSet(first) /\ Cardinality(first) \in Nat \ {0}
  BY GateAssumption, FS_Subset, FS_CardinalityType, FS_EmptySet
<1>2. TypeOK
  BY <1>1, GateAssumption, ZenonT(30) DEF Fresh, TypeOK, Gates, Pcs
<1>3. Live = first
  BY GateAssumption DEF Live, Fresh, Actors
<1>4. Carried
  BY GateAssumption, ZenonT(30) DEF Carried, GiverCarries, WorkerCarries, Fresh, Actors, GiverPcs, WorkerPcs
<1>5. OneClaim /\ TaskPlaced
  BY GateAssumption, ZenonT(30) DEF OneClaim, TaskPlaced, Claims, Fresh, Actors, Resting, Settling, OnRun
<1>6. GiversCounted
  BY <1>3 DEF GiversCounted, Fresh
<1>7. Reached
  BY GateAssumption DEF Reached, Fresh, Actors, Settling
<1>8. Ended
  BY <1>1 DEF Ended, Fresh, Actors
<1>9. ASSUME Gives # 0, \A k \in Spawned : k[2] => k[1]  PROVE Counting
  <2>1. Spending = {}
    BY DEF Spending, Fresh, Actors
  <2>2. \A w \in Workers : pc[w] = "idle"
    BY GateAssumption DEF Fresh, Actors
  <2>3. counted => series
    BY <1>9, GateAssumption, ZenonT(30) DEF Fresh
  <2> QED  BY <1>9, <2>1, <2>2, <2>3, GateAssumption DEF Counting, Fresh
<1> QED  BY <1>2, <1>4, <1>5, <1>6, <1>7, <1>8, <1>9 DEF WaitingInv, SafeInv

LEMMA InitFresh ==
    ASSUME Init
    PROVE  \E first \in SUBSET Givers : first # {} /\ Fresh(first)
<1>1. PICK g \in Givers : pc = [a \in Actors |-> IF a \in Givers \ {g} THEN "none" ELSE "idle"]
  BY DEF Init
<1>2. Cardinality({g}) = 1
  BY FS_Singleton
<1>3. Fresh({g})
  BY <1>1, <1>2 DEF Init, Fresh
<1> QED  BY <1>3

LEMMA WaitingShows ==
    ASSUME WaitingInv
    PROVE  /\ TypeOK /\ StartFindsTask /\ ReleasedIsOver /\ NoGiveMissed /\ LastGiverEnds
           /\ Counting => GateInv
<1> USE DEF WaitingInv, SafeInv
<1>1. Workers \subseteq Actors
  BY DEF Actors
<1>2. StartFindsTask /\ ReleasedIsOver
  BY <1>1 DEF StartFindsTask, ReleasedIsOver, OneClaim, TaskPlaced, Claims
<1>3. NoGiveMissed
  BY DEF NoGiveMissed, Reached
<1>4. LastGiverEnds
  <2>1. SUFFICES ASSUME Quiet, givers = 0, ~written  PROVE released
    BY DEF LastGiverEnds
  <2>2. queue = 0 /\ \A a \in Actors : pc[a] \in {"none", "idle", "gone"} /\ ~Claims(a)
    BY <2>1 DEF Quiet, Claims, Resting, Settling, OnRun
  <2>3. gate = "FINISHED"
    BY <2>1, <2>2 DEF OneClaim, Ended, TypeOK, Gates
  <2> QED  BY <2>1, <2>2, <2>3 DEF Ended
<1>5. Counting => CountKept /\ SpentIsOver
  BY GateAssumption DEF Counting, CountKept, SpentIsOver, TypeOK, spent
<1> QED  BY <1>2, <1>3, <1>4, <1>5 DEF GateInv

\* For any number of handles, threads, runs and gives: the entry a give puts in a queue
\* finds the task in its slot, nothing runs or is queued once the running reference is
\* back, no accepted value misses its run, and whichever of the last handle's drop and
\* the end of the run comes second lets the task go (`give`, `after_run`, `let_go_waiting`)
THEOREM GateKept ==
    Spec => [](TypeOK /\ StartFindsTask /\ ReleasedIsOver /\ NoGiveMissed /\ LastGiverEnds)
<1>1. Init => WaitingInv
  BY InitFresh, FreshWaiting
<1>2. WaitingInv /\ [Next]_vars => WaitingInv'
  BY StepWaiting, NextGate, QuietWaiting
<1>3. WaitingInv => TypeOK /\ StartFindsTask /\ ReleasedIsOver /\ NoGiveMissed /\ LastGiverEnds
  BY WaitingShows
<1> QED  BY <1>1, <1>2, <1>3, PTL DEF Spec

\* Once no handle can give any more and every call is over, a task that was not written
\* off has been let go (the drop of the last handle, `after_run`, `let_go_waiting`)
THEOREM LastGiverHeard == Spec => []LastGiverEnds
BY GateKept, PTL

\* When only series count their gives, and are allowed one, no more than the count ever
\* start anything and a task that has spent it is over (`spend_give`, `after_run`)
THEOREM CountsKept ==
    ASSUME Gives # 0, \A k \in Spawned : k[2] => k[1]
    PROVE  Spec => []GateInv
<1> DEFINE Inv == WaitingInv /\ Counting
<1>1. Init => Inv
  BY InitFresh, FreshWaiting
<1>2. Inv /\ [Next]_vars => Inv'
  BY StepWaiting, StepCounting, NextGate, QuietWaiting DEF WaitingInv
<1>3. Inv => GateInv
  BY WaitingShows
<1> QED  BY <1>1, <1>2, <1>3, PTL DEF Spec

-----------------------------------------------------------------------------
(* Sets of tasks that give to the task.                                    *)

\* Where the thread of a task of the set can be while a round is with it, and what
\* is left to it once that round has been given
Bearing == {"copy", "give", "given", "lower"}
LeafPcs == {"unlinked", "run", "fill", "visited", "gone", "coming", "broken", "let_go", "out"} \cup Bearing
GatherTypeOK ==
    /\ linked \in BOOLEAN /\ set \in {Leaves, {}} /\ slots \in [Leaves -> Nat]
    /\ target \in BOOLEAN /\ broken \in BOOLEAN /\ giving \in Nat
    /\ lpc \in [Leaves -> LeafPcs] /\ outs \in [Leaves -> Nat]
    /\ gone \subseteq Leaves /\ lost \in Nat
    /\ ~linked => ~target /\ gone = {} /\ giving = 0 /\ lost = 0 /\ \A l \in Leaves : lpc[l] = "unlinked"

\* The handles of the set: the one `Gather` holds rests, and a task has a copy only
\* while it gives
GiveCalls == {"leave", "trigger", "gives", "move", "spend", "start", "finish"}
LeafHeld(l) ==
    /\ lpc[l] = "give" => pc[l] = "idle"
    /\ lpc[l] = "given" => pc[l] = "idle" \/ (pc[l] \in GiveCalls /\ then[l] = "idle")
    /\ lpc[l] = "lower" => pc[l] \in {"none", "gone"} \/ (pc[l] \in {"let_go", "finish"} /\ then[l] = "gone")
    /\ lpc[l] \notin {"give", "given", "lower"} => pc[l] \in {"none", "gone"}
HandlesHeld == linked => (target => pc[Target] = "idle") /\ \A l \in Leaves : LeafHeld(l)

\* One round at a time: the task bearing it has an empty slot, so no other can fill
RoundInv ==
    /\ \A l \in Leaves : lpc[l] \in Bearing \cup {"broken", "let_go"} => slots[l] = 0
    /\ \A l, k \in Leaves : lpc[l] \in Bearing /\ lpc[k] \in Bearing \cup {"broken", "let_go"} => l = k
    /\ giving = IF \E l \in Leaves : lpc[l] \in Bearing THEN 1 ELSE 0

\* Where tasks that have left are, and the one that hands on an empty set
LeavesPlaced ==
    /\ \A l \in Leaves : lpc[l] = "fill" => outs[l] # 0
    /\ \A l \in gone : lpc[l] \in {"gone", "coming", "let_go", "out"}
    /\ set = {} =>
         /\ gone = {} /\ \A l \in Leaves : slots[l] = 0
         /\ \A l \in Leaves : lpc[l] \in Bearing \cup {"unlinked", "broken", "let_go", "out"}
         /\ \A l, k \in Leaves : lpc[l] # "unlinked" /\ lpc[k] # "unlinked" => l = k

\* Once the target has been let go there is a task that fills its slot no more, and
\* until then one that is to let it go whenever no round can fill
TargetInv ==
    /\ lost = 0 \/ written
    /\ linked /\ ~target /\ ~written =>
         /\ \A l \in Leaves : lpc[l] \notin Bearing
         /\ \E l \in Leaves : slots[l] = 0 /\ (l \in gone \/ lpc[l] \in {"visited", "out"})
    /\ \A l \in gone : lpc[l] # "gone" => broken
    /\ \A l \in gone : target /\ slots[l] = 0 /\ lpc[l] = "out" =>
         \E k \in Leaves : lpc[k] \in Bearing \cup {"broken", "let_go"}
    /\ linked /\ set = {} =>
         /\ \A l \in Leaves : lpc[l] = "out" => ~target
         /\ pc[Source] # "idle" => \E l \in Leaves : lpc[l] = "out"
GatherInv == GatherTypeOK /\ HandlesHeld /\ RoundInv /\ LeavesPlaced /\ TargetInv

-----------------------------------------------------------------------------
(* A set that gives to the task.                                           *)

\* What the calls under way on the handles can do to handle b
LEMMA HandlesMove ==
    ASSUME TypeOK, TargetStep, NEW b \in Givers
    PROVE  /\ pc[b] \in {"none", "gone", "idle"} => pc'[b] = pc[b]
           /\ pc[b] \in GiveCalls /\ then[b] = "idle" =>
                pc'[b] = "idle" \/ (pc'[b] \in GiveCalls /\ then'[b] = "idle")
           /\ pc[b] \in {"let_go", "finish"} /\ then[b] = "gone" =>
                pc'[b] = "gone" \/ (pc'[b] \in {"let_go", "finish"} /\ then'[b] = "gone")
           /\ written' = written
<1> USE DEF Go, lifeVars, slotVars, gateVars, valueVars, Actors, GiveCalls, TypeOK
<1> USE Untyped
<1>1. ASSUME NEW g \in Givers, GiverStep(g)
      PROVE  /\ pc[b] \in {"none", "gone", "idle"} => pc'[b] = pc[b]
             /\ pc[b] \in GiveCalls /\ then[b] = "idle" =>
                  pc'[b] = "idle" \/ (pc'[b] \in GiveCalls /\ then'[b] = "idle")
             /\ pc[b] \in {"let_go", "finish"} /\ then[b] = "gone" =>
                  pc'[b] = "gone" \/ (pc'[b] \in {"let_go", "finish"} /\ then'[b] = "gone")
             /\ written' = written
  BY <1>1 DEF GiverStep, Leave, Trigger, TriggerGives, TriggerMove, Spend, EndGate, DropGiver
<1>2. ASSUME NEW a \in Actors, SharedStep(a)
      PROVE  /\ pc[b] \in {"none", "gone", "idle"} => pc'[b] = pc[b]
             /\ pc[b] \in GiveCalls /\ then[b] = "idle" =>
                  pc'[b] = "idle" \/ (pc'[b] \in GiveCalls /\ then'[b] = "idle")
             /\ pc[b] \in {"let_go", "finish"} /\ then[b] = "gone" =>
                  pc'[b] = "gone" \/ (pc'[b] \in {"let_go", "finish"} /\ then'[b] = "gone")
             /\ written' = written
  BY <1>2 DEF SharedStep, CommonStep, Start, StartRefused, FinishWaiting, LetGo, Close, After
<1>3. ASSUME NEW w \in Workers, WorkStep(w)
      PROVE  pc'[b] = pc[b] /\ then' = then /\ written' = written
  BY <1>3, GateAssumption DEF WorkStep, RunStep, Pop, Begin, EndTask, Prepare, Deliver, Panic, Publish, Again,
     AgainRefused, Rewait, AfterRun, AfterGives, AfterGivers, AfterMove, Recheck
<1> QED  BY <1>1, <1>2, <1>3 DEF TargetStep, SharedStep, WorkStep

\* Every step of the set is a step of the task's handles, or none of theirs
LEMMA GatherGate ==
    ASSUME SafeInv, GatherInv, GatherNext
    PROVE  GateStep \/ UNCHANGED vars
<1>1. CASE ~linked /\ Next
  BY <1>1, NextGate
<1>2. CASE linked /\ TargetStep
  BY <1>2 DEF TargetStep, GateStep, HandleStep, SharedStep, WorkStep
<1>3. CASE IntoPlain
  BY <1>3, GatherAssumption DEF IntoPlain, GateStep, HandleStep
<1>4. ASSUME NEW l \in Leaves, LeafStep(l)  PROVE GateStep \/ UNCHANGED vars
  <2>1. l \in Givers /\ Target \in Givers
    BY GatherAssumption
  <2>2. CASE Link(l) \/ Settle(l) \/ Publishes(l) \/ Fill(l) \/ Lower(l) \/ ReadBroken(l) \/ Visited(l)
             \/ Ends(l) \/ LeafGone(l) \/ StillComing(l)
    BY <2>2 DEF Link, Settle, Publishes, Fill, Lower, ReadBroken, Visited, Ends, LeafGone, StillComing
  <2>3. CASE CopyTarget(l)
    <3>1. CASE target
      <4>1. Target \in Live
        BY <2>1, <2>3, <3>1 DEF CopyTarget, At, GatherInv, HandlesHeld, Live
      <4>2. givers > 0
        BY <4>1, LiveCounted DEF SafeInv
      <4>3. pc[l] \in {"none", "gone"}
        BY <2>3 DEF CopyTarget, At, GatherInv, HandlesHeld, LeafHeld
      <4>4. Copied(l)
        BY <2>3, <3>1, <4>2, <4>3 DEF CopyTarget, Copied
      <4> QED  BY <2>1, <4>4 DEF GateStep, HandleStep
    <3>2. CASE ~target
      BY <2>3, <3>2 DEF CopyTarget, vars, gateVars
    <3> QED  BY <3>1, <3>2
  <2>4. CASE GiveRound(l)
    BY <2>1, <2>4 DEF GiveRound, GateStep, HandleStep
  <2>5. CASE DropCopy(l)
    BY <2>1, <2>5 DEF DropCopy, GateStep, HandleStep
  <2>6. CASE LetGoTarget(l)
    BY <2>1, <2>6 DEF LetGoTarget, GateStep, HandleStep
  <2>7. CASE Fail(l)
    BY <2>1, <2>7 DEF Fail, GateStep, HandleStep
  <2> QED  BY <1>4, <2>2, <2>3, <2>4, <2>5, <2>6, <2>7 DEF LeafStep, FillStep
<1> QED  BY <1>1, <1>2, <1>3, <1>4 DEF GatherNext

LEMMA LeafTyped ==
    ASSUME GatherTypeOK, RoundInv, NEW l \in Leaves, LeafStep(l)
    PROVE  GatherTypeOK'
<1> USE Untyped
<1>1. lpc[l] \in Bearing => giving = 1
  BY DEF RoundInv
<1> USE DEF GatherTypeOK, LeafPcs, Bearing, At, Move, Round
<1>2. CASE Link(l)
  BY <1>1, <1>2 DEF Link
<1>3. CASE Settle(l)
  BY <1>1, <1>3 DEF Settle
<1>4. CASE Publishes(l)
  BY <1>1, <1>4 DEF Publishes
<1>5. CASE Fill(l)
  BY <1>1, <1>5 DEF Fill
<1>6. CASE CopyTarget(l)
  BY <1>1, <1>6 DEF CopyTarget
<1>7. CASE GiveRound(l)
  BY <1>1, <1>7 DEF GiveRound
<1>8. CASE DropCopy(l)
  BY <1>1, <1>8 DEF DropCopy
<1>9. CASE Lower(l)
  BY <1>1, <1>9 DEF Lower
<1>10. CASE ReadBroken(l)
  BY <1>1, <1>10 DEF ReadBroken
<1>11. CASE LetGoTarget(l)
  BY <1>1, <1>11 DEF LetGoTarget
<1>12. CASE Visited(l)
  BY <1>1, <1>12 DEF Visited
<1>13. CASE Ends(l)
  BY <1>1, <1>13 DEF Ends
<1>14. CASE LeafGone(l)
  BY <1>1, <1>14 DEF LeafGone
<1>15. CASE StillComing(l)
  BY <1>1, <1>15 DEF StillComing
<1>16. CASE Fail(l)
  BY <1>1, <1>16 DEF Fail
<1> QED  BY <1>2, <1>3, <1>4, <1>5, <1>6, <1>7, <1>8, <1>9, <1>10, <1>11, <1>12, <1>13, <1>14, <1>15, <1>16 DEF LeafStep, FillStep

\* What a step of a task of the set does with rounds: nothing, fill its slot, take a full
\* round up, start with an empty set, have given its round, or be first to see it broken
Bears(l) == lpc[l] \in Bearing
Holds(l) == lpc[l] \in Bearing \cup {"broken", "let_go"}
RoundKind(l) ==
    \/ /\ (Bears(l)' <=> Bears(l)) /\ (Holds(l)' => Holds(l))
       /\ giving' = giving /\ slots' = slots
    \/ /\ ~Holds(l) /\ ~Holds(l)' /\ ~Bears(l) /\ ~Bears(l)'
       /\ giving' = giving /\ slots' = [slots EXCEPT ![l] = outs[l]]
    \/ /\ ~Holds(l) /\ Bears(l)' /\ \A k \in Leaves \ {l} : slots[k] # 0
       /\ giving' = giving + 1 /\ slots' = [k \in Leaves |-> 0]
    \/ /\ ~Holds(l) /\ Bears(l)' /\ \A k \in Leaves : lpc[k] = "unlinked"
       /\ giving' = giving + 1 /\ slots' = slots /\ slots[l] = 0
    \/ /\ Bears(l) /\ ~Bears(l)' /\ giving' = giving - 1 /\ slots' = slots
    \/ /\ ~Bears(l)' /\ giving = 0 /\ slots[l] = 0
       /\ giving' = giving /\ slots' = slots

LEMMA LeafKind ==
    ASSUME GatherTypeOK, LeavesPlaced, NEW l \in Leaves, LeafStep(l)
    PROVE  RoundKind(l) /\ \A k \in Leaves \ {l} : lpc'[k] = lpc[k]
<1> USE Untyped
<1>1. /\ lpc \in [Leaves -> LeafPcs] /\ (lpc[l] \in {"run", "fill"} => set = Leaves)
      /\ set = {} => slots[l] = 0
  BY DEF GatherTypeOK, LeavesPlaced, Bearing
<1> USE DEF At, Move, Round, RoundKind, Bears, Holds, Bearing
<1>2. CASE Link(l)
  BY <1>1, <1>2 DEF Link
<1>3. CASE Settle(l)
  BY <1>1, <1>3 DEF Settle
<1>4. CASE Publishes(l)
  BY <1>1, <1>4 DEF Publishes
<1>5. CASE Fill(l)
  <2>1. lpc[l] = "fill" /\ set = Leaves
    BY <1>1, <1>5 DEF Fill
  <2>2. CASE \A k \in set : [slots EXCEPT ![l] = outs[l]][k] # 0
    <3>1. \A k \in Leaves \ {l} : slots[k] # 0
      BY <2>1, <2>2 DEF GatherTypeOK
    <3> QED  BY <1>1, <1>5, <2>1, <2>2, <3>1 DEF Fill
  <2>3. CASE ~\A k \in set : [slots EXCEPT ![l] = outs[l]][k] # 0
    BY <1>1, <1>5, <2>1, <2>3 DEF Fill
  <2> QED  BY <2>2, <2>3
<1>6. CASE CopyTarget(l)
  BY <1>1, <1>6 DEF CopyTarget
<1>7. CASE GiveRound(l)
  BY <1>1, <1>7 DEF GiveRound
<1>8. CASE DropCopy(l)
  BY <1>1, <1>8 DEF DropCopy
<1>9. CASE Lower(l)
  BY <1>1, <1>9 DEF Lower
<1>10. CASE ReadBroken(l)
  BY <1>1, <1>10 DEF ReadBroken
<1>11. CASE LetGoTarget(l)
  BY <1>1, <1>11 DEF LetGoTarget
<1>12. CASE Visited(l)
  BY <1>1, <1>12 DEF Visited
<1>13. CASE Ends(l)
  BY <1>1, <1>13 DEF Ends
<1>14. CASE LeafGone(l)
  BY <1>1, <1>14 DEF LeafGone
<1>15. CASE StillComing(l)
  BY <1>1, <1>15 DEF StillComing
<1>16. CASE Fail(l)
  BY <1>1, <1>16 DEF Fail
<1> QED  BY <1>2, <1>3, <1>4, <1>5, <1>6, <1>7, <1>8, <1>9, <1>10, <1>11, <1>12, <1>13, <1>14, <1>15, <1>16 DEF LeafStep, FillStep

LEMMA LeafPlaces ==
    ASSUME GatherTypeOK, LeavesPlaced, NEW l \in Leaves, LeafStep(l)
    PROVE  LeavesPlaced'
<1> USE Untyped
<1>1. /\ lpc \in [Leaves -> LeafPcs] /\ gone \subseteq Leaves
      /\ lpc[l] \in {"run", "fill"} => set = Leaves
  BY DEF GatherTypeOK, LeavesPlaced, Bearing
<1> USE DEF At, Move, Round, Bearing, LeavesPlaced
<1>2. CASE Link(l)
  BY <1>1, <1>2 DEF Link
<1>3. CASE Settle(l)
  BY <1>1, <1>3 DEF Settle
<1>4. CASE Publishes(l)
  BY <1>1, <1>4 DEF Publishes, GatherTypeOK
<1>5. CASE Fill(l)
  BY <1>1, <1>5 DEF Fill
<1>6. CASE CopyTarget(l)
  BY <1>1, <1>6 DEF CopyTarget
<1>7. CASE GiveRound(l)
  BY <1>1, <1>7 DEF GiveRound
<1>8. CASE DropCopy(l)
  BY <1>1, <1>8 DEF DropCopy
<1>9. CASE Lower(l)
  BY <1>1, <1>9 DEF Lower
<1>10. CASE ReadBroken(l)
  BY <1>1, <1>10 DEF ReadBroken
<1>11. CASE LetGoTarget(l)
  BY <1>1, <1>11 DEF LetGoTarget
<1>12. CASE Visited(l)
  BY <1>1, <1>12 DEF Visited
<1>13. CASE Ends(l)
  BY <1>1, <1>13 DEF Ends
<1>14. CASE LeafGone(l)
  BY <1>1, <1>14 DEF LeafGone
<1>15. CASE StillComing(l)
  BY <1>1, <1>15 DEF StillComing
<1>16. CASE Fail(l)
  BY <1>1, <1>16 DEF Fail
<1> QED  BY <1>2, <1>3, <1>4, <1>5, <1>6, <1>7, <1>8, <1>9, <1>10, <1>11, <1>12, <1>13, <1>14, <1>15, <1>16 DEF LeafStep, FillStep

LEMMA LeafRounds ==
    ASSUME GatherTypeOK, RoundInv, LeavesPlaced, NEW l \in Leaves, LeafStep(l)
    PROVE  RoundInv'
<1> USE Untyped
<1>1. RoundKind(l) /\ \A k \in Leaves \ {l} : lpc'[k] = lpc[k]
  BY LeafKind
<1>2. \A k \in Leaves \ {l} : (Bears(k)' <=> Bears(k)) /\ (Holds(k)' <=> Holds(k))
  BY <1>1 DEF Bears, Holds
<1>3. \A k \in Leaves : (Bears(k) => Holds(k)) /\ (Bears(k)' => Holds(k)') /\ (lpc[k] = "unlinked" => ~Holds(k))
  BY DEF Bears, Holds, Bearing
<1> DEFINE B(k) == Bears(k)
           C(k) == Bears(k)'
           H(k) == Holds(k)
           I(k) == Holds(k)'
<1>4. /\ \A k \in Leaves : H(k) => slots[k] = 0
      /\ \A j, k \in Leaves : B(j) /\ H(k) => j = k
      /\ giving = IF \E k \in Leaves : B(k) THEN 1 ELSE 0
  BY DEF RoundInv, Bears, Holds
<1>5. /\ \A k \in Leaves \ {l} : (C(k) <=> B(k)) /\ (I(k) <=> H(k))
      /\ \A k \in Leaves : (B(k) => H(k)) /\ (C(k) => I(k)) /\ (lpc[k] = "unlinked" => ~H(k))
      /\ slots \in [Leaves -> Nat]
  BY <1>2, <1>3 DEF GatherTypeOK
<1>6. \/ (C(l) <=> B(l)) /\ (I(l) => H(l)) /\ giving' = giving /\ slots' = slots
      \/ ~H(l) /\ ~I(l) /\ ~B(l) /\ ~C(l) /\ giving' = giving /\ slots' = [slots EXCEPT ![l] = outs[l]]
      \/ /\ ~H(l) /\ C(l) /\ \A k \in Leaves \ {l} : slots[k] # 0
         /\ giving' = giving + 1 /\ slots' = [k \in Leaves |-> 0]
      \/ /\ ~H(l) /\ C(l) /\ \A k \in Leaves : lpc[k] = "unlinked"
         /\ giving' = giving + 1 /\ slots' = slots /\ slots[l] = 0
      \/ B(l) /\ ~C(l) /\ giving' = giving - 1 /\ slots' = slots
      \/ ~C(l) /\ giving = 0 /\ slots[l] = 0 /\ giving' = giving /\ slots' = slots
  BY <1>1 DEF RoundKind
<1>7. /\ \A k \in Leaves : I(k) => slots'[k] = 0
      /\ \A j, k \in Leaves : C(j) /\ I(k) => j = k
      /\ giving' = IF \E k \in Leaves : C(k) THEN 1 ELSE 0
  <2> HIDE DEF B, C, H, I
  <2>1. \A k \in Leaves : I(k) => slots'[k] = 0
    BY <1>4, <1>5, <1>6
  <2>2. \A j, k \in Leaves : C(j) /\ I(k) => j = k
    BY <1>4, <1>5, <1>6
  <2>3. giving' = IF \E k \in Leaves : C(k) THEN 1 ELSE 0
    BY <1>4, <1>5, <1>6
  <2> QED  BY <2>1, <2>2, <2>3
<1>8. /\ \A k \in Leaves : lpc'[k] \in Bearing \cup {"broken", "let_go"} => slots'[k] = 0
      /\ \A j, k \in Leaves : lpc'[j] \in Bearing /\ lpc'[k] \in Bearing \cup {"broken", "let_go"} => j = k
      /\ giving' = IF \E k \in Leaves : lpc'[k] \in Bearing THEN 1 ELSE 0
  BY <1>7 DEF Bears, Holds
<1> QED  BY <1>8 DEF RoundInv

LEMMA LeafHandles ==
    ASSUME TypeOK, GatherTypeOK, HandlesHeld, NEW l \in Leaves, LeafStep(l)
    PROVE  HandlesHeld'
<1> USE Untyped
<1>1. /\ l \in Givers /\ Target \in Givers /\ l # Target /\ Givers \subseteq Actors /\ Target \notin Leaves
      /\ pc \in [Actors -> Pcs] /\ then \in [Givers -> {"idle", "drop", "gone"}]
      /\ lpc \in [Leaves -> LeafPcs] /\ Leaves \subseteq Givers
  BY GatherAssumption DEF TypeOK, Actors, GatherTypeOK
<1> USE DEF At, Move, Round, HandlesHeld, LeafHeld, GiveCalls, Go, vars, gateVars, slotVars, lifeVars, valueVars
<1>2. CASE Link(l)
  BY <1>1, <1>2 DEF Link
<1>3. CASE Settle(l)
  BY <1>1, <1>3 DEF Settle
<1>4. CASE Publishes(l)
  BY <1>1, <1>4 DEF Publishes
<1>5. CASE Fill(l)
  BY <1>1, <1>5 DEF Fill
<1>6. CASE CopyTarget(l)
  BY <1>1, <1>6 DEF CopyTarget
<1>7. CASE GiveRound(l)
  BY <1>1, <1>7 DEF GiveRound, Look
<1>8. CASE DropCopy(l)
  BY <1>1, <1>8 DEF DropCopy, DropGiver
<1>9. CASE Lower(l)
  BY <1>1, <1>9 DEF Lower
<1>10. CASE ReadBroken(l)
  BY <1>1, <1>10 DEF ReadBroken
<1>11. CASE LetGoTarget(l)
  BY <1>1, <1>11 DEF LetGoTarget, DropGiver
<1>12. CASE Visited(l)
  BY <1>1, <1>12 DEF Visited
<1>13. CASE Ends(l)
  BY <1>1, <1>13 DEF Ends
<1>14. CASE LeafGone(l)
  BY <1>1, <1>14 DEF LeafGone
<1>15. CASE StillComing(l)
  BY <1>1, <1>15 DEF StillComing
<1>16. CASE Fail(l)
  BY <1>1, <1>16 DEF Fail, WriteOff
<1> QED  BY <1>2, <1>3, <1>4, <1>5, <1>6, <1>7, <1>8, <1>9, <1>10, <1>11, <1>12, <1>13, <1>14, <1>15, <1>16 DEF LeafStep, FillStep

LEMMA LeafTarget ==
    ASSUME TypeOK, GatherTypeOK, RoundInv, LeavesPlaced, TargetInv, NEW l \in Leaves, LeafStep(l)
    PROVE  TargetInv'
<1>1. /\ Source \in Actors /\ Source # Target /\ Source \notin Leaves /\ l \in Actors
      /\ pc \in [Actors -> Pcs] /\ lpc \in [Leaves -> LeafPcs] /\ slots \in [Leaves -> Nat] /\ gone \subseteq Leaves
      /\ lpc[l] \in {"run", "fill", "visited", "gone", "coming"} => set = Leaves
      /\ l \in gone => lpc[l] \in {"gone", "coming", "let_go", "out"}
      /\ lpc[l] = "fill" => outs[l] # 0
  BY GatherAssumption DEF TypeOK, Actors, GatherTypeOK, LeavesPlaced, Bearing
<1> USE DEF At, Move, Round, TargetInv, Bearing, Go, vars, gateVars, slotVars, lifeVars, valueVars
<1> USE Untyped
<1>2. CASE Link(l)
  BY <1>1, <1>2 DEF Link
<1>3. CASE Settle(l)
  BY <1>1, <1>3 DEF Settle, LeavesPlaced
<1>4. CASE Publishes(l)
  BY <1>1, <1>4 DEF Publishes
<1>5. CASE Fill(l)
  <2>1. /\ lpc[l] = "fill" /\ set = Leaves /\ l \notin gone /\ outs[l] # 0
        /\ linked' = linked /\ set' = set /\ gone' = gone /\ target' = target /\ written' = written
        /\ broken' = broken /\ lost' = lost /\ pc' = pc
    BY <1>1, <1>5 DEF Fill
  <2>2. CASE \A k \in set : [slots EXCEPT ![l] = outs[l]][k] # 0
    <3>1. lpc' = [lpc EXCEPT ![l] = "copy"] /\ slots' = [k \in Leaves |-> 0]
      BY <1>5, <2>2 DEF Fill
    <3>2. \A k \in Leaves \ {l} : slots[k] # 0
      BY <1>1, <2>1, <2>2
    <3>3. linked => target \/ written
      BY <1>1, <2>1, <3>2
    <3> QED  BY <1>1, <2>1, <3>1, <3>3
  <2>3. CASE ~\A k \in set : [slots EXCEPT ![l] = outs[l]][k] # 0
    <3>1. lpc' = [lpc EXCEPT ![l] = "visited"] /\ slots' = [slots EXCEPT ![l] = outs[l]]
      BY <1>5, <2>3 DEF Fill
    <3> QED  BY <1>1, <2>1, <3>1
  <2> QED  BY <2>2, <2>3
<1>6. CASE CopyTarget(l)
  BY <1>1, <1>6 DEF CopyTarget
<1>7. CASE GiveRound(l)
  BY <1>1, <1>7 DEF GiveRound, Look
<1>8. CASE DropCopy(l)
  BY <1>1, <1>8 DEF DropCopy, DropGiver
<1>9. CASE Lower(l)
  BY <1>1, <1>9 DEF Lower
<1>10. CASE ReadBroken(l)
  BY <1>1, <1>10 DEF ReadBroken
<1>11. CASE LetGoTarget(l)
  BY <1>1, <1>11 DEF LetGoTarget, DropGiver, RoundInv, LeavesPlaced
<1>12. CASE Visited(l)
  BY <1>1, <1>12 DEF Visited
<1>13. CASE Ends(l)
  BY <1>1, <1>13 DEF Ends
<1>14. CASE LeafGone(l)
  BY <1>1, <1>14 DEF LeafGone
<1>15. CASE StillComing(l)
  BY <1>1, <1>15 DEF StillComing, RoundInv, LeavesPlaced
<1>16. CASE Fail(l)
  BY <1>1, <1>16 DEF Fail, WriteOff
<1> QED  BY <1>2, <1>3, <1>4, <1>5, <1>6, <1>7, <1>8, <1>9, <1>10, <1>11, <1>12, <1>13, <1>14, <1>15, <1>16, ZenonT(30) DEF LeafStep, FillStep

\* The other steps leave the rounds alone
LEMMA RestGather ==
    ASSUME GatherTypeOK, RoundInv, LeavesPlaced, UNCHANGED gatherVars
    PROVE  GatherTypeOK' /\ RoundInv' /\ LeavesPlaced'
<1>1. GatherTypeOK'
  BY DEF gatherVars, GatherTypeOK
<1>2. RoundInv' /\ LeavesPlaced'
  BY DEF gatherVars, RoundInv, LeavesPlaced
<1> QED  BY <1>1, <1>2

LEMMA AloneGather ==
    ASSUME GatherInv, ~linked, UNCHANGED gatherVars
    PROVE  HandlesHeld' /\ TargetInv'
BY DEF GatherInv, GatherTypeOK, gatherVars, HandlesHeld, TargetInv

LEMMA CallsGather ==
    ASSUME TypeOK, GatherInv, linked, TargetStep, UNCHANGED gatherVars
    PROVE  HandlesHeld' /\ TargetInv'
<1>1. {Target, Source} \subseteq Givers /\ Leaves \subseteq Givers
  BY GatherAssumption
<1>2. HandlesHeld'
  BY <1>1, HandlesMove DEF GatherInv, HandlesHeld, LeafHeld, gatherVars
<1>3. written' = written /\ (pc[Source] = "idle" => pc'[Source] = "idle")
  BY <1>1, HandlesMove
<1>4. TargetInv'
  BY <1>3 DEF GatherInv, TargetInv, gatherVars
<1> QED  BY <1>2, <1>4

LEMMA PlainGather ==
    ASSUME TypeOK, GatherInv, IntoPlain
    PROVE  HandlesHeld' /\ TargetInv'
<1> USE Untyped
<1>1. Source \in Actors /\ Target # Source /\ Source \notin Leaves /\ Leaves \subseteq Givers
  BY GatherAssumption DEF Actors
<1>2. HandlesHeld'
  BY <1>1 DEF GatherInv, HandlesHeld, LeafHeld, gatherVars, IntoPlain, DropGiver, Go, TypeOK
<1>3. TargetInv'
  BY <1>1 DEF GatherInv, TargetInv, gatherVars, IntoPlain, DropGiver, slotVars, lifeVars
<1> QED  BY <1>2, <1>3

LEMMA NextGather ==
    ASSUME TypeOK, GatherInv, GatherNext
    PROVE  GatherInv'
<1>1. CASE ~linked /\ UNCHANGED gatherVars
  BY <1>1, RestGather, AloneGather DEF GatherInv
<1>2. CASE linked /\ TargetStep /\ UNCHANGED gatherVars
  BY <1>2, RestGather, CallsGather DEF GatherInv
<1>3. CASE IntoPlain
  BY <1>3, RestGather, PlainGather DEF GatherInv, IntoPlain
<1>4. ASSUME NEW l \in Leaves, LeafStep(l)  PROVE GatherInv'
  BY <1>4, LeafTyped, LeafHandles, LeafRounds, LeafPlaces, LeafTarget DEF GatherInv
<1> QED  BY <1>1, <1>2, <1>3, <1>4 DEF GatherNext

LEMMA InitGather ==
    ASSUME GatherInit
    PROVE  GatherInv /\ \E first \in SUBSET Givers : first # {} /\ Fresh(first)
<1> USE Untyped
<1>1. GatherTypeOK
  BY DEF GatherInit, GatherTypeOK, LeafPcs
<1>2. HandlesHeld
  BY GatherAssumption DEF GatherInit, HandlesHeld, LeafHeld, Actors
<1>3. RoundInv /\ LeavesPlaced
  BY DEF GatherInit, RoundInv, LeavesPlaced, Bearing
<1>4. TargetInv
  BY GatherAssumption DEF GatherInit, TargetInv, Actors
<1>5. PICK first \in IF linked THEN {{Target, Source}} ELSE {{l} : l \in Leaves} :
             pc = [a \in Actors |-> IF a \in Givers \ first THEN "none" ELSE "idle"]
  BY DEF GatherInit
<1>6. Cardinality({Target, Source}) = 2
  <2>1. {Target, Source} = {Target} \cup {Source} /\ Source \notin {Target}
    BY GatherAssumption
  <2>2. IsFiniteSet({Target}) /\ Cardinality({Target}) = 1
    BY FS_Singleton
  <2>3. Cardinality({Target} \cup {Source}) = 1 + 1
    BY <2>1, <2>2, FS_AddElement
  <2> QED  BY <2>1, <2>3
<1>7. first # {} /\ first \in SUBSET Givers /\ Cardinality(first) = IF linked THEN 2 ELSE 1
  <2>1. CASE linked
    BY <1>5, <1>6, <2>1, GatherAssumption
  <2>2. CASE ~linked
    <3>1. PICK l \in Leaves : first = {l}
      BY <1>5, <2>2
    <3>2. Cardinality({l}) = 1
      BY FS_Singleton
    <3> QED  BY <2>2, <3>1, <3>2, GatherAssumption
  <2> QED  BY <2>1, <2>2
<1>8. Fresh(first)
  BY <1>5, <1>7 DEF GatherInit, Fresh
<1> QED  BY <1>1, <1>2, <1>3, <1>4, <1>7, <1>8 DEF GatherInv

\* A task and the set it receives from, together
FedInv == WaitingInv /\ GatherInv

LEMMA StepFed ==
    ASSUME FedInv, [GatherNext]_allVars
    PROVE  FedInv' /\ (Counting => Counting')
<1>1. CASE UNCHANGED allVars
  <2>1. UNCHANGED vars /\ UNCHANGED gatherVars
    BY <1>1 DEF allVars
  <2>2. HandlesHeld' /\ TargetInv'
    BY <2>1 DEF FedInv, GatherInv, HandlesHeld, LeafHeld, TargetInv, gatherVars, vars, slotVars, lifeVars
  <2> QED  BY <2>1, <2>2, QuietWaiting, RestGather DEF FedInv, GatherInv
<1>2. CASE GatherNext
  <2>1. TypeOK /\ SafeInv
    BY DEF FedInv, WaitingInv, SafeInv
  <2>2. GateStep \/ UNCHANGED vars
    BY <1>2, <2>1, GatherGate DEF FedInv
  <2>3. WaitingInv' /\ (Counting => Counting')
    BY <2>1, <2>2, StepWaiting, StepCounting, QuietWaiting DEF FedInv
  <2> QED  BY <1>2, <2>1, <2>3, NextGather DEF FedInv
<1> QED  BY <1>1, <1>2

LEMMA FedShows ==
    ASSUME FedInv
    PROVE  RoundsReach
<1> USE DEF FedInv, GatherInv
<1>1. (lost = 0 \/ written) /\ giving <= 1
  BY DEF TargetInv, RoundInv
<1>2. ASSUME Settled, target, NEW l \in gone, slots[l] = 0  PROVE FALSE
  <2>1. lpc[l] = "out" /\ \A k \in Leaves : lpc[k] \in {"unlinked", "run", "out"}
    BY <1>2 DEF Settled, LeavesPlaced, GatherTypeOK
  <2> QED  BY <1>2, <2>1 DEF TargetInv, Bearing
<1>3. ASSUME Settled, target, linked, set = {}  PROVE pc[Source] = "idle"
  BY <1>3 DEF TargetInv
<1> QED  BY <1>1, <1>2, <1>3 DEF RoundsReach

\* As GateKept, with the task also receiving from a set of any size: and a round taken
\* out of the slots finds its target, one at a time, and the target is let go once a task
\* that owes its slot has left (`fill`, `leaf_gone`, `settle`)
THEOREM RoundsKept ==
    GatherSpec => [](/\ TypeOK /\ StartFindsTask /\ ReleasedIsOver /\ NoGiveMissed /\ LastGiverEnds
                     /\ RoundsReach)
<1>1. GatherInit => FedInv
  BY InitGather, FreshWaiting DEF FedInv
<1>2. FedInv /\ [GatherNext]_allVars => FedInv'
  BY StepFed
<1>3. FedInv => /\ TypeOK /\ StartFindsTask /\ ReleasedIsOver /\ NoGiveMissed /\ LastGiverEnds
                /\ RoundsReach
  BY WaitingShows, FedShows DEF FedInv
<1> QED  BY <1>1, <1>2, <1>3, PTL DEF GatherSpec

\* When only series count their gives, and are allowed one, no more than the count ever
\* As CountsKept, for a task that also receives from a set (`spend_give`, `after_run`)
THEOREM RoundsCounted ==
    ASSUME Gives # 0, \A k \in Spawned : k[2] => k[1]
    PROVE  GatherSpec => []GateInv
<1> DEFINE Fed == FedInv /\ Counting
<1>1. GatherInit => Fed
  BY InitGather, FreshWaiting DEF FedInv
<1>2. Fed /\ [GatherNext]_allVars => Fed'
  BY StepFed
<1>3. Fed => GateInv
  BY WaitingShows DEF FedInv
<1> QED  BY <1>1, <1>2, <1>3, PTL DEF GatherSpec

=============================================================================
