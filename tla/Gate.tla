-------------------------------- MODULE Gate --------------------------------
(***************************************************************************)
(* A task spawned with `wait_for`: its gate, its mailbox, the handles that *)
(* give to it and the thread that runs it.  Every load, store and exchange *)
(* of the gate's words is a step, since givers, the run's end, a cancel, a *)
(* write-off and the last handle's drop all meet there without a lock.     *)
(* What the slot itself does is TaskSlot's; here it is a state and a task. *)
(***************************************************************************)
EXTENDS Integers, FiniteSets

CONSTANTS
    Givers,     \* handles that can give
    Workers,    \* pool threads
    Spawned,    \* how the task may be spawned: whether a give starts a series rather
                \* than a single run, and whether the gives are limited
    Runs,       \* runs each series is allowed
    Gives,      \* the limit, when they are
    Attempts,   \* gives that may be tried (bound)
    Cancels, WriteOffs, Panics, Refusals    \* what else may happen

Actors == Givers \cup Workers

ASSUME GateAssumption ==
    /\ IsFiniteSet(Givers) /\ IsFiniteSet(Workers) /\ Givers \cap Workers = {}
    /\ Spawned \subseteq BOOLEAN \X BOOLEAN
    /\ Runs \in Nat \ {0} /\ Gives \in Nat /\ Attempts \in Nat
    /\ {Cancels, WriteOffs, Panics, Refusals} \subseteq BOOLEAN

VARIABLES
    series, counted,    \* how it was spawned
    written,    \* whether a copy has written the task off
    gate,       \* WAITING, QUEUED, RUNNING, PENDING or FINISHED
    gives_left, \* gives still taken
    givers,     \* handles that can still give
    mail,       \* the latest value left, numbered in the order they were
    state,      \* the slot's state
    task,       \* the task: in its "slot", "out" on a thread, or "gone"
    queue,      \* entries for the task in the pool's queues
    runsLeft,   \* runs left of the series
    released,   \* the slot's running reference has been given back
    pc, saw, to,    \* each thread: where, the gate it loaded, where it moves it
    then,       \* each giver: what it does once the call it is in is over
    mine,       \* the value each giver last left
    accepted,   \* the newest value a give was told is taken
    handed,     \* the newest value a run was handed
    started     \* gives that moved the gate

lifeVars == <<series, counted, written>>
gateVars == <<gate, gives_left, givers>>
slotVars == <<lifeVars, state, task, queue, runsLeft, released>>
valueVars == <<mail, mine, accepted, handed, started>>
vars == <<gateVars, slotVars, valueVars, pc, saw, to, then>>

Gates == {"WAITING", "QUEUED", "RUNNING", "PENDING", "FINISHED"}
Over == {"Cancelled", "Failed"}

Init ==
    /\ \E k \in Spawned : series = k[1] /\ counted = k[2]
    /\ written = FALSE
    /\ gate = "WAITING" /\ gives_left = Gives /\ givers = 1
    /\ state = "Pending" /\ task = "slot" /\ queue = 0 /\ runsLeft = Runs
    /\ released = FALSE
    /\ \E g \in Givers : pc = [a \in Actors |-> IF a \in Givers \ {g} THEN "none" ELSE "idle"]
    /\ saw = [a \in Actors |-> "WAITING"] /\ to = [a \in Actors |-> "WAITING"]
    /\ then = [g \in Givers |-> "idle"] /\ mine = [g \in Givers |-> 0]
    /\ mail = 0 /\ accepted = 0 /\ handed = 0 /\ started = 0

Go(a, p) == pc' = [pc EXCEPT ![a] = p]
After(a) == IF a \in Givers THEN then[a] ELSE "idle"
Newest(v, w) == IF v > w THEN v ELSE w
spent == counted /\ gives_left = 0

-----------------------------------------------------------------------------
(* `Executor::give`.                                                       *)

Look(g) ==
    /\ pc[g] = "idle" /\ mail + Cardinality({h \in Givers : pc[h] = "leave"}) < Attempts
    /\ gate # "FINISHED" /\ state \notin Over
    /\ Go(g, "leave") /\ then' = [then EXCEPT ![g] = "idle"]
    /\ UNCHANGED <<gateVars, slotVars, valueVars, saw, to>>

\* `Mailbox::replace`, before the gate is asked
Leave(g) ==
    /\ pc[g] = "leave"
    /\ mail' = mail + 1 /\ mine' = [mine EXCEPT ![g] = mail + 1]
    /\ Go(g, "trigger")
    /\ UNCHANGED <<gateVars, slotVars, accepted, handed, started, saw, to, then>>

\* Mutant: a give during a single run only replaces the value
TriggerReplaces(g) ==
    /\ pc[g] = "trigger"
    /\ saw' = [saw EXCEPT ![g] = gate]
    /\ \/ /\ gate = "WAITING" /\ to' = [to EXCEPT ![g] = "QUEUED"]
          /\ Go(g, "gives") /\ UNCHANGED accepted
       \/ /\ gate \in {"QUEUED", "PENDING", "RUNNING"}
          /\ accepted' = Newest(accepted, mine[g])
          /\ Go(g, "idle") /\ UNCHANGED to
       \/ gate = "FINISHED" /\ Go(g, "idle") /\ UNCHANGED <<to, accepted>>
    /\ UNCHANGED <<gateVars, slotVars, mail, mine, handed, started, then>>

\* `Gate::trigger`: the load, and what it decides
Trigger(g) ==
    /\ pc[g] = "trigger"
    /\ saw' = [saw EXCEPT ![g] = gate]
    /\ \/ /\ gate = "WAITING" \/ (gate = "RUNNING" /\ ~series)
          /\ to' = [to EXCEPT ![g] = IF gate = "WAITING" THEN "QUEUED" ELSE "PENDING"]
          /\ Go(g, "gives") /\ UNCHANGED accepted
       \/ /\ gate \in {"QUEUED", "PENDING"} \/ (gate = "RUNNING" /\ series)     \* Replaced
          /\ accepted' = Newest(accepted, mine[g])
          /\ Go(g, "idle") /\ UNCHANGED to
       \/ gate = "FINISHED" /\ Go(g, "idle") /\ UNCHANGED <<to, accepted>>      \* Closed
    /\ UNCHANGED <<gateVars, slotVars, mail, mine, handed, started, then>>

TriggerGives(g) ==
    /\ pc[g] = "gives"
    /\ Go(g, IF spent THEN "idle" ELSE "move")
    /\ UNCHANGED <<gateVars, slotVars, valueVars, saw, to, then>>

\* Mutant: a store rather than an exchange
TriggerMoveStore(g) ==
    /\ pc[g] = "move"
    /\ gate' = to[g] /\ Go(g, "spend")
    /\ accepted' = Newest(accepted, mine[g]) /\ started' = started + 1
    /\ UNCHANGED <<gives_left, givers, slotVars, mail, mine, handed, saw, to, then>>

TriggerMove(g) ==
    /\ pc[g] = "move"
    /\ \/ /\ gate = saw[g] /\ gate' = to[g] /\ Go(g, "spend")
          /\ accepted' = Newest(accepted, mine[g]) /\ started' = started + 1
       \/ gate # saw[g] /\ Go(g, "trigger") /\ UNCHANGED <<gate, accepted, started>>
    /\ UNCHANGED <<gives_left, givers, slotVars, mail, mine, handed, saw, to, then>>

\* `spend_give`
Spend(g) ==
    /\ pc[g] = "spend"
    /\ gives_left' = IF counted /\ gives_left > 0 THEN gives_left - 1 ELSE gives_left
    /\ Go(g, IF to[g] = "QUEUED" THEN "start" ELSE "idle")
    /\ UNCHANGED <<gate, givers, slotVars, valueVars, saw, to, then>>

-----------------------------------------------------------------------------
(* Starting what is owed, and letting the task go.                         *)

\* `start_waiting`, by the give or by the end of the run before
Start(a) ==
    /\ pc[a] = "start"
    /\ runsLeft' = Runs /\ queue' = queue + 1
    /\ Go(a, After(a))
    /\ UNCHANGED <<lifeVars, gateVars, valueVars, state, task, released,
                   saw, to, then>>

\* The pool takes nothing more, so the task is written off
StartRefused(a) ==
    /\ pc[a] = "start" /\ Refusals
    /\ runsLeft' = Runs /\ gate' = "FINISHED"
    /\ state' = IF state \in {"Pending", "Ready"} THEN "Failed" ELSE state
    /\ Go(a, "finish")
    /\ UNCHANGED <<lifeVars, gives_left, givers, valueVars, task, queue, released,
                   saw, to, then>>

\* `finish_waiting`
FinishWaiting(a) ==
    /\ pc[a] = "finish"
    /\ gate' = "FINISHED" /\ released' = TRUE
    /\ task' = IF task = "slot" THEN "gone" ELSE task
    /\ Go(a, After(a))
    /\ UNCHANGED <<lifeVars, gives_left, givers, valueVars, state, queue, runsLeft, saw, to, then>>

\* `let_go_waiting`, for a cancel or the last giver's drop
LetGo(a) ==
    /\ pc[a] = "let_go"
    /\ \/ /\ gate = "WAITING" /\ gate' = "FINISHED" /\ Go(a, "finish")
          /\ state' = IF state = "Pending" THEN "Failed" ELSE state
       \/ gate # "WAITING" /\ Go(a, After(a)) /\ UNCHANGED <<gate, state>>
    /\ UNCHANGED <<lifeVars, gives_left, givers, valueVars, task, queue, runsLeft, released,
                   saw, to, then>>

\* A handle's clone can give too
Clone(g, h) ==
    /\ pc[g] = "idle" /\ pc[h] = "none" /\ Go(h, "idle")
    /\ givers' = givers + 1
    /\ UNCHANGED <<gate, gives_left, slotVars, valueVars, saw, to, then>>

\* `HandleKind::dropped`: the last handle that could give lets the task go
DropGiver(g) ==
    /\ pc[g] \in {"idle", "drop"}
    /\ givers' = givers - 1 /\ then' = [then EXCEPT ![g] = "gone"]
    /\ Go(g, IF givers = 1 THEN "let_go" ELSE "gone")
    /\ UNCHANGED <<gate, gives_left, slotVars, valueVars, saw, to>>

\* `TaskHandle::cancel`: `stop`, `stopped`, then the handle's own drop
Cancel(g) ==
    /\ Cancels /\ pc[g] = "idle" /\ state \notin Over
    /\ state' = "Cancelled" /\ then' = [then EXCEPT ![g] = "drop"]
    /\ Go(g, "let_go")
    /\ UNCHANGED <<lifeVars, gateVars, valueVars, task, queue, runsLeft, released, saw, to>>

\* `write_off`, by whatever was to give a copy that panicked
WriteOff(g) ==
    /\ WriteOffs /\ pc[g] = "idle" /\ written' = TRUE
    /\ state' = IF state \in Over THEN state ELSE "Failed"
    /\ then' = [then EXCEPT ![g] = "drop"] /\ Go(g, "close")
    /\ UNCHANGED <<series, counted, gateVars, valueVars, task, queue, runsLeft, released, saw, to>>

\* `close_waiting`, by a write-off or by a run's end that found no giver
Close(a) ==
    /\ pc[a] = "close"
    /\ \/ gate = "WAITING" /\ gate' = "FINISHED" /\ Go(a, "finish")
       \/ gate # "WAITING" /\ Go(a, IF a \in Givers THEN "end" ELSE "idle") /\ UNCHANGED gate
    /\ UNCHANGED <<gives_left, givers, slotVars, valueVars, saw, to, then>>

\* The end of a write-off that found a run under way: `gate.finish`
EndGate(g) ==
    /\ pc[g] = "end"
    /\ gate' = "FINISHED" /\ Go(g, "drop")
    /\ UNCHANGED <<gives_left, givers, slotVars, valueVars, saw, to, then>>

-----------------------------------------------------------------------------
(* `run`.                                                                  *)

Pop(w) ==
    /\ pc[w] = "idle" /\ queue > 0
    /\ queue' = queue - 1
    /\ task' = IF task = "slot" THEN "out" ELSE task
    /\ Go(w, IF task = "slot" THEN "begin" ELSE "idle")
    /\ UNCHANGED <<lifeVars, gateVars, valueVars, state, runsLeft, released,
                   saw, to, then>>

\* A run that ends the task: `close_extras`, the task dropped, `release`
EndTask(w) ==
    /\ gate' = "FINISHED" /\ task' = "gone" /\ released' = TRUE
    /\ Go(w, "idle")

Begin(w) ==
    /\ pc[w] = "begin"
    /\ \/ /\ state \in {"Pending", "Ready"} /\ state' = "Running" /\ Go(w, "prepare")
          /\ UNCHANGED <<gate, task, released>>
       \/ state \in Over /\ EndTask(w) /\ UNCHANGED state
    /\ UNCHANGED <<lifeVars, gives_left, givers, valueVars, queue, runsLeft, saw, to, then>>

\* `Gated::prepare`: the gate first, then the latest value
Prepare(w) ==
    /\ pc[w] = "prepare"
    /\ gate' = IF gate = "QUEUED" THEN "RUNNING" ELSE gate
    /\ Go(w, "deliver")
    /\ UNCHANGED <<gives_left, givers, slotVars, valueVars, saw, to, then>>

Deliver(w) ==
    /\ pc[w] = "deliver"
    /\ handed' = mail /\ Go(w, "publish")
    /\ UNCHANGED <<gateVars, slotVars, mail, mine, accepted, started, saw, to, then>>

Panic(w) ==
    /\ pc[w] = "publish" /\ Panics
    /\ state' = IF state = "Running" THEN "Failed" ELSE state
    /\ EndTask(w)
    /\ UNCHANGED <<lifeVars, gives_left, givers, valueVars, queue, runsLeft, saw, to, then>>

Publish(w) ==
    /\ pc[w] = "publish"
    /\ \/ /\ state = "Running" /\ state' = "Ready" /\ Go(w, "count")
          /\ UNCHANGED <<gate, task, released>>
       \/ state # "Running" /\ EndTask(w) /\ UNCHANGED state
    /\ UNCHANGED <<lifeVars, gives_left, givers, valueVars, queue, runsLeft, saw, to, then>>

\* `count_run`: the next run of the series, or `rewait`
Again(w) ==
    /\ pc[w] = "count" /\ series /\ runsLeft > 1
    /\ runsLeft' = runsLeft - 1 /\ task' = "slot" /\ queue' = queue + 1
    /\ Go(w, "idle")
    /\ UNCHANGED <<lifeVars, gateVars, valueVars, state, released,
                   saw, to, then>>

AgainRefused(w) ==
    /\ pc[w] = "count" /\ series /\ runsLeft > 1 /\ Refusals
    /\ runsLeft' = runsLeft - 1 /\ task' = "slot"
    /\ state' = IF state = "Ready" THEN "Failed" ELSE state
    /\ gate' = "FINISHED" /\ released' = TRUE /\ Go(w, "idle")
    /\ UNCHANGED <<lifeVars, gives_left, givers, valueVars, queue, saw, to, then>>

Rewait(w) ==
    /\ pc[w] = "count" /\ (series => runsLeft = 1)
    /\ runsLeft' = IF series THEN 0 ELSE runsLeft
    /\ task' = "slot" /\ Go(w, "after")
    /\ UNCHANGED <<lifeVars, gateVars, valueVars, state, queue, released,
                   saw, to, then>>

\* `Gate::after_run`: the load, and what it decides
AfterRun(w) ==
    /\ pc[w] = "after"
    /\ saw' = [saw EXCEPT ![w] = gate]
    /\ \/ gate = "PENDING" /\ to' = [to EXCEPT ![w] = "QUEUED"] /\ Go(w, "after_move")
       \/ gate \in {"QUEUED", "RUNNING"} /\ Go(w, "after_gives") /\ UNCHANGED to
       \/ gate = "WAITING" /\ Go(w, "idle") /\ UNCHANGED to
       \/ gate = "FINISHED" /\ Go(w, "finish") /\ UNCHANGED to
    /\ UNCHANGED <<gateVars, slotVars, valueVars, then>>

AfterGives(w) ==
    /\ pc[w] = "after_gives"
    /\ IF spent
         THEN to' = [to EXCEPT ![w] = "FINISHED"] /\ Go(w, "after_move")
         ELSE Go(w, "after_givers") /\ UNCHANGED to
    /\ UNCHANGED <<gateVars, slotVars, valueVars, saw, then>>

AfterGivers(w) ==
    /\ pc[w] = "after_givers"
    /\ to' = [to EXCEPT ![w] = IF givers = 0 THEN "FINISHED" ELSE "WAITING"]
    /\ Go(w, "after_move")
    /\ UNCHANGED <<gateVars, slotVars, valueVars, saw, then>>

AfterMove(w) ==
    /\ pc[w] = "after_move"
    /\ \/ /\ gate = saw[w] /\ gate' = to[w]
          /\ Go(w, CASE to[w] = "QUEUED" -> "start"
                     [] to[w] = "FINISHED" -> "finish"
                     [] OTHER -> "recheck")
       \/ gate # saw[w] /\ Go(w, "after") /\ UNCHANGED gate
    /\ UNCHANGED <<gives_left, givers, slotVars, valueVars, saw, to, then>>

\* Mutant: the givers are not looked at again
RecheckNot(w) ==
    /\ pc[w] = "recheck"
    /\ Go(w, "idle")
    /\ UNCHANGED <<gateVars, slotVars, valueVars, saw, to, then>>

\* The last giver may have gone between the look and the move
Recheck(w) ==
    /\ pc[w] = "recheck"
    /\ Go(w, IF givers = 0 THEN "close" ELSE "idle")
    /\ UNCHANGED <<gateVars, slotVars, valueVars, saw, to, then>>

-----------------------------------------------------------------------------
GiverStep(g) ==
    \/ Leave(g) \/ Trigger(g) \/ TriggerGives(g) \/ TriggerMove(g) \/ Spend(g)
    \/ EndGate(g) \/ (pc[g] = "drop" /\ DropGiver(g))
CommonStep(a) == Start(a) \/ FinishWaiting(a) \/ LetGo(a) \/ Close(a)
RunStep(w) ==
    \/ Pop(w) \/ Begin(w) \/ Prepare(w) \/ Deliver(w) \/ Publish(w)
    \/ Again(w) \/ Rewait(w)
    \/ AfterRun(w) \/ AfterGives(w) \/ AfterGivers(w) \/ AfterMove(w) \/ Recheck(w)

Next ==
    \/ \E g \in Givers : GiverStep(g) \/ Look(g) \/ DropGiver(g) \/ Cancel(g) \/ WriteOff(g)
    \/ \E g, h \in Givers : Clone(g, h)
    \/ \E a \in Actors : CommonStep(a) \/ StartRefused(a)
    \/ \E w \in Workers : RunStep(w) \/ Panic(w) \/ AgainRefused(w)

Spec == Init /\ [][Next]_vars

-----------------------------------------------------------------------------
(* Properties.                                                             *)

Pcs == {"none", "idle", "gone", "drop", "leave", "trigger", "gives", "move", "spend", "start",
        "finish", "let_go", "close", "end", "begin", "prepare", "deliver", "publish", "count",
        "after", "after_gives", "after_givers", "after_move", "recheck"}

\* Types: what the gate's words hold and where each thread can be in `give` and `run`
TypeOK ==
    /\ series \in BOOLEAN /\ counted \in BOOLEAN /\ written \in BOOLEAN
    /\ gate \in Gates /\ gives_left \in Nat /\ givers \in Nat
    /\ state \in {"Pending", "Running", "Ready"} \cup Over
    /\ task \in {"slot", "out", "gone"} /\ queue \in Nat /\ runsLeft \in Nat
    /\ released \in BOOLEAN
    /\ pc \in [Actors -> Pcs] /\ saw \in [Actors -> Gates] /\ to \in [Actors -> Gates]
    /\ then \in [Givers -> {"idle", "drop", "gone"}] /\ mine \in [Givers -> Nat]
    /\ mail \in Nat /\ accepted \in Nat /\ handed \in Nat /\ started \in Nat

OnRun == {"begin", "prepare", "deliver", "publish", "count"}

\* `rewait`: "a give that starts the next run always finds it there".  An entry
\* is queued once, and only while the task is in its slot with no run under way
StartFindsTask ==
    /\ queue <= 1
    /\ queue = 1 => task = "slot" /\ \A w \in Workers : pc[w] \notin OnRun

\* A give during a single run owes the task one more (`TaskHandle::give`): by
\* the time nothing is owed, every value a give was told is taken has reached a
\* run, itself or under a newer one
NoGiveMissed ==
    gate = "WAITING" /\ state \notin Over /\ ~series => accepted <= handed

\* Once the running reference is given back nothing runs the task again and no
\* give starts anything (`close_extras`, `finish_waiting`)
ReleasedIsOver ==
    released => gate = "FINISHED" /\ queue = 0 /\ \A w \in Workers : pc[w] \notin OnRun

\* `TaskHandle::give`: "Only a give that starts something counts against the
\* task's `count`", and no more than that many ever do
CountKept == counted => started <= Gives

\* Once no thread is inside a call and nothing is queued
Quiet == queue = 0 /\ \A a \in Actors : pc[a] \in {"none", "idle", "gone"}

\* A task that has spent its count is over: with every call done it is not left
\* waiting for a give it would refuse
SpentIsOver ==
    spent /\ gate = "WAITING" => ~Quiet

\* `Gate::after_run` and `let_go_waiting`: whichever of the last giver's drop
\* and the end of the run comes second, the task is let go, cancelled, failed or
\* not, unless a write-off had closed its gate
LastGiverEnds == Quiet /\ givers = 0 /\ ~written => released

\* A waiting task that has gone round any number of gives is where its gate says: an
\* entry in a queue has a task to find, a task let go stays so, a series keeps to its
\* count, and one that has spent it is over (`Gate`, `rewait`, `finish_waiting`)
GateInv == TypeOK /\ StartFindsTask /\ ReleasedIsOver /\ CountKept /\ SpentIsOver

\* `let_go_waiting`: "A task with a run or series under way is let go when it
\* ends", for a cancel
CancelLetsGo == Quiet /\ state = "Cancelled" => released

\* `write_off`: "One mid run is let go when the run ends"
WrittenOffLetGo == Quiet /\ state = "Failed" => released
=============================================================================
