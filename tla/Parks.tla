------------------------------- MODULE Parks -------------------------------
(***************************************************************************)
(* A task that gives its thread back while it waits, and the manager that  *)
(* comes for it: parks (park_task, wake_parked, unpark), the waits between *)
(* the runs of a timed repeat and before a delayed one (wait_for, fire),   *)
(* run timeouts (time_run, timed_out), and the manager's own life          *)
(* (executor_loop, supervise, recover_waits, orphaned, shutdown_now).      *)
(*                                                                         *)
(* One slot. The kernel's queue holds at most one watch, one timer on the  *)
(* slot's schedule ident, which a park's deadline, a wait and a schedule's *)
(* clock share, and one on its timeout ident. Each goes off at any moment  *)
(* once it is there, all but a clock only once, and outlives a manager     *)
(* that dies, but not one that gives up. What the manager had fetched dies *)
(* with it.                                                                *)
(*                                                                         *)
(* A schedule's slot goes through the same manager: module Series.         *)
(*                                                                         *)
(* The states of the slot and its output are TaskSlot's business, so a     *)
(* wake of its listeners and the reads they do are left out.               *)
(***************************************************************************)
EXTENDS Integers, FiniteSets, Sequences, Functions

CONSTANTS
    Workers,       \* pool threads
    Limit,         \* RESTART_LIMIT: deaths the supervisor puts up with
    Scenes         \* what the task is and what goes wrong

ASSUME ParksAssumption ==
    /\ Limit \in Nat
    /\ Workers \cap {"manager", "spawner", "canceller", "closer"} = {}
    /\ \A s \in Scenes :
         /\ s.kind \in {"once", "every", "series"}
         /\ {s.delay, s.timed, s.timeout, s.cancel, s.stop, s.panics, s.until} \subseteq BOOLEAN
         /\ {s.parks, s.runs, s.faults} \subseteq Nat

VARIABLES
    scene,     \* the scenario this behaviour follows
    pc,        \* what each actor is about to do
    st,        \* TaskData::state
    task,      \* the boxed task: in the slot, in a run's hands, or dropped
    parked,    \* TaskData::parked
    armed,     \* TaskData::armed
    word,      \* TaskData::run_deadline, as the number of the run it is for
    held,      \* the executor's reference on the slot
    pins,      \* other listeners: a thread's across a registration, a series run's
    handle,    \* the spawner's handle
    extras,    \* whether what close_extras ends is still open
    pool,      \* entries for the task in the pool's queues
    closed,    \* the pool takes no more
    kq,        \* what is on the manager's queue
    alive,     \* EXECUTOR_KQUEUE_ID and the queue behind it: up, DEAD_KQUEUE_ID, closed
    batch,     \* events the manager has fetched and not dealt with
    deaths,    \* times the manager has died
    life,      \* LIFECYCLE
    ran,       \* runs begun
    waits      \* parks made

slotVars == <<st, task, parked, armed, word, held, pins, handle, extras>>
queueVars == <<pool, closed, kq, alive, batch, deaths, life, ran, waits>>
vars == <<scene, pc, slotVars, queueVars>>

Actors == Workers \cup {"manager", "spawner", "canceller", "closer"}

\* Nobody is left in the slot, so an id finds nothing there
Gone == ~held /\ pins = {} /\ ~handle

Over == {"cancelled", "timedout", "failed"}

Go(a, to) == pc' = [pc EXCEPT ![a] = to]

Repeats == scene.kind # "once"

NoEvents == [watch |-> FALSE, timer |-> "none", tout |-> 0]

ParksInit ==
    /\ scene \in Scenes
    /\ pc = [a \in Actors |-> CASE a = "manager" -> "listen"
                                [] a = "spawner" -> "spawn"
                                [] OTHER -> "idle"]
    /\ st = "pending" /\ task = "slot" /\ parked = FALSE /\ armed = FALSE /\ word = 0
    /\ held = TRUE /\ pins = {} /\ handle = TRUE /\ extras = TRUE
    /\ pool = 0 /\ closed = FALSE /\ kq = NoEvents /\ alive = "up" /\ batch = <<>>
    /\ deaths = 0 /\ life = "running" /\ ran = 0 /\ waits = 0

----------------------------------------------------------------------------
(* Shared pieces. *)

\* A registration on the manager's queue. Nobody registers once the id is gone, but
\* whoever loaded it before can until the queue is closed
Register(a, field, value, then, refused) ==
    \/ alive # "closed" /\ kq' = [kq EXCEPT ![field] = value] /\ Go(a, then)
    \/ alive # "up" /\ UNCHANGED kq /\ Go(a, refused)

Unregister(field, value) == kq' = IF alive = "up" THEN [kq EXCEPT ![field] = value] ELSE kq

\* queue: whether the pool takes the task
Queue(a, then, refused) ==
    \/ ~closed /\ pool' = pool + 1 /\ Go(a, then)
    \/ closed /\ UNCHANGED pool /\ Go(a, refused)

\* close_extras, drop the task, and release
CloseAndRelease == extras' = FALSE /\ task' = "gone" /\ held' = FALSE

----------------------------------------------------------------------------
(* Spawning: queued, or armed for its start delay. *)

Spawn ==
    /\ pc["spawner"] = "spawn" /\ scene.kind # "series"
    /\ \/ /\ ~scene.delay /\ Queue("spawner", "done", "lost")
          /\ UNCHANGED armed
       \/ /\ scene.delay /\ armed' = TRUE /\ Go("spawner", "arm")
          /\ UNCHANGED pool
    /\ UNCHANGED <<scene, st, task, parked, word, held, pins, handle, extras,
                   closed, kq, alive, batch, deaths, life, ran, waits>>

\* A timed repeat goes back in its slot and waits its interval out
Rearm(w) ==
    /\ pc[w] = "rearm"
    /\ task' = "slot" /\ armed' = TRUE /\ Go(w, "arm")
    /\ UNCHANGED <<scene, st, parked, word, held, pins, handle, extras>> /\ UNCHANGED queueVars

\* arm_timer, for either of them
ArmTimer(a) ==
    /\ pc[a] = "arm"
    /\ Register(a, "timer", "wait", IF a = "spawner" THEN "done" ELSE "idle", "disarm")
    /\ UNCHANGED <<scene, slotVars, pool, closed, alive, batch, deaths, life, ran, waits>>

Disarm(a) ==
    /\ pc[a] = "disarm"
    /\ armed' = FALSE /\ Go(a, "lost")
    /\ UNCHANGED <<scene, st, task, parked, word, held, pins, handle, extras>> /\ UNCHANGED queueVars

\* Nothing is left to run it: the ends of create and of run
Lost(a) ==
    /\ pc[a] = "lost" /\ scene.kind # "series"
    /\ IF a = "spawner" THEN st' = "failed" /\ UNCHANGED extras
       ELSE st' = (IF st = "ready" THEN "failed" ELSE st) /\ extras' = FALSE
    /\ held' = FALSE /\ Go(a, IF a = "spawner" THEN "done" ELSE "idle")
    /\ UNCHANGED <<scene, task, parked, armed, word, pins, handle>> /\ UNCHANGED queueVars

----------------------------------------------------------------------------
(* A run. *)

Pop(w) ==
    /\ pc[w] = "idle" /\ pool > 0
    /\ pool' = pool - 1 /\ Go(w, "claim")
    /\ UNCHANGED <<scene, slotVars, closed, kq, alive, batch, deaths, life, ran, waits>>

\* claim: the task, unless the slot is empty or somebody has it
Claim(w) ==
    /\ pc[w] = "claim"
    /\ IF Gone \/ task # "slot" THEN Go(w, "idle") /\ UNCHANGED task
       ELSE Go(w, "begin") /\ task' = "run"
    /\ UNCHANGED <<scene, st, parked, armed, word, held, pins, handle, extras>> /\ UNCHANGED queueVars

\* begin: a first run, the next run of a repeat, a task back from its park, or one
\* that was stopped meanwhile
Begin(w) ==
    /\ pc[w] = "begin"
    /\ \/ /\ st = "pending" \/ (st = "ready" /\ Repeats)
          /\ st' = "running" /\ ran' = ran + 1
          /\ Go(w, IF scene.timeout THEN "time" ELSE "step")
          /\ UNCHANGED <<task, held, extras>>
       \/ /\ st = "running" /\ Go(w, "step")
          /\ UNCHANGED <<st, task, held, extras, ran>>
       \/ /\ st \in Over \/ (st = "ready" /\ ~Repeats)
          /\ CloseAndRelease /\ Go(w, "idle")
          /\ UNCHANGED <<st, ran>>
    /\ UNCHANGED <<scene, parked, armed, word, pins, handle, pool, closed, kq, alive, batch, deaths, life, waits>>

\* time_run: the word, then the timer that carries it
TimeRun(w) ==
    /\ pc[w] = "time"
    /\ word' = ran /\ Go(w, "timer")
    /\ UNCHANGED <<scene, st, task, parked, armed, held, pins, handle, extras>> /\ UNCHANGED queueVars

ArmTimeout(w) ==
    /\ pc[w] = "timer"
    /\ Register(w, "tout", word, "step", "step")
    /\ UNCHANGED <<scene, slotVars, pool, closed, alive, batch, deaths, life, ran, waits>>

\* task.run: it parks, finishes or panics. park_task pins the slot, puts the task
\* back, and says it is parked
Step(w) ==
    /\ pc[w] = "step"
    /\ \/ /\ waits < scene.parks
          /\ waits' = waits + 1 /\ pins' = pins \cup {w}
          /\ task' = "slot" /\ parked' = TRUE
          /\ Go(w, IF scene.timed THEN "watch_timer" ELSE "watch")
       \/ /\ Go(w, "untime") /\ UNCHANGED <<task, parked, pins, waits>>
       \/ /\ scene.panics /\ Go(w, "panicked") /\ UNCHANGED <<task, parked, pins, waits>>
    /\ UNCHANGED <<scene, st, armed, word, held, handle, extras, pool, closed, kq, alive, batch, deaths, life, ran>>

\* untime_run: the word, then the timer, for a run that ended either way
Untime(w) ==
    /\ pc[w] \in {"untime", "panicked"}
    /\ word' = 0
    /\ IF word # 0 THEN Unregister("tout", 0) ELSE UNCHANGED kq
    /\ Go(w, IF pc[w] = "untime" THEN "settle" ELSE "fell")
    /\ UNCHANGED <<scene, st, task, parked, armed, held, pins, handle, extras,
                   pool, closed, alive, batch, deaths, life, ran, waits>>

\* The end of a run that finished, unless a stop got there first
Settle(w) ==
    /\ pc[w] = "settle"
    /\ IF st = "running" THEN st' = "ready" /\ Go(w, "after") /\ UNCHANGED <<task, held, extras>>
       ELSE CloseAndRelease /\ Go(w, "idle") /\ UNCHANGED st
    /\ UNCHANGED <<scene, parked, armed, word, pins, handle>> /\ UNCHANGED queueVars

\* A one shot is over. A repeat counts the run, and goes round again or is over
After(w) ==
    /\ pc[w] = "after"
    /\ IF Repeats /\ ran < scene.runs THEN Go(w, "rearm") /\ UNCHANGED <<task, held, extras>>
       ELSE CloseAndRelease /\ Go(w, "idle")
    /\ UNCHANGED <<scene, st, parked, armed, word, pins, handle>> /\ UNCHANGED queueVars

Fell(w) ==
    /\ pc[w] = "fell"
    /\ st' = (IF st = "running" THEN "failed" ELSE st)
    /\ CloseAndRelease /\ Go(w, "idle")
    /\ UNCHANGED <<scene, parked, armed, word, pins, handle>> /\ UNCHANGED queueVars

----------------------------------------------------------------------------
(* Parking, and taking a park down. *)

\* watch_park: the deadline first, so a watch that fires at once finds it there to
\* take down
WatchTimer(w) ==
    /\ pc[w] = "watch_timer"
    /\ Register(w, "timer", "park", "watch", "unpark")
    /\ UNCHANGED <<scene, slotVars, pool, closed, alive, batch, deaths, life, ran, waits>>

Watch(w) ==
    /\ pc[w] = "watch"
    /\ Register(w, "watch", TRUE, "check", "unpark")
    /\ UNCHANGED <<scene, slotVars, pool, closed, alive, batch, deaths, life, ran, waits>>

\* A cancel that landed before the park was there for it to find
Check(w) ==
    /\ pc[w] = "check"
    /\ Go(w, IF st # "running" THEN "unpark" ELSE "unpin")
    /\ UNCHANGED <<scene, slotVars>> /\ UNCHANGED queueVars

\* Where an actor goes once the park is dealt with, or is somebody else's
Onward(a) ==
    CASE a \in Workers -> "unpin"
      [] a = "manager" -> IF alive = "closed" THEN "out" ELSE "handle"
      [] a = "canceller" -> "done"
      [] a = "closer" -> "stopped"

\* unpark: claim_parked, for whoever comes first
Unpark(a) ==
    /\ pc[a] = "unpark"
    /\ parked' = FALSE
    /\ Go(a, IF parked THEN "unwatch" ELSE Onward(a))
    /\ UNCHANGED <<scene, st, task, armed, word, held, pins, handle, extras>> /\ UNCHANGED queueVars

\* unwatch_park with neither half fired
Unwatch(a) ==
    /\ pc[a] = "unwatch"
    /\ kq' = IF alive = "up"
             THEN [kq EXCEPT !.watch = FALSE, !.timer = IF scene.timed THEN "none" ELSE @]
             ELSE kq
    /\ Go(a, "take_down")
    /\ UNCHANGED <<scene, slotVars, pool, closed, alive, batch, deaths, life, ran, waits>>

\* take_down: the task is dropped, and one still running settles failed
TakeDown(a) ==
    /\ pc[a] = "take_down"
    /\ task' = (IF task = "slot" THEN "gone" ELSE task)
    /\ Go(a, "let_go")
    /\ UNCHANGED <<scene, st, parked, armed, word, held, pins, handle, extras>> /\ UNCHANGED queueVars

LetGo(a) ==
    /\ pc[a] = "let_go"
    /\ st' = (IF st = "running" THEN "failed" ELSE st) /\ held' = FALSE
    /\ Go(a, Onward(a))
    /\ UNCHANGED <<scene, task, parked, armed, word, pins, handle, extras>> /\ UNCHANGED queueVars

Unpin(w) ==
    /\ pc[w] = "unpin"
    /\ pins' = pins \ {w} /\ Go(w, "idle")
    /\ UNCHANGED <<scene, st, task, parked, armed, word, held, handle, extras>> /\ UNCHANGED queueVars

WorkerStep(w) ==
    \/ Pop(w) \/ Claim(w) \/ Begin(w) \/ TimeRun(w) \/ ArmTimeout(w) \/ Step(w)
    \/ Untime(w) \/ Settle(w) \/ After(w) \/ Fell(w) \/ Rearm(w)
    \/ WatchTimer(w) \/ Watch(w) \/ Check(w) \/ Unpin(w)

TakeDownStep(a) == Unpark(a) \/ Unwatch(a) \/ TakeDown(a) \/ LetGo(a)
WaitStep(a) == ArmTimer(a) \/ Disarm(a) \/ Lost(a)

----------------------------------------------------------------------------
(* The manager. *)

\* What may have gone off
Fired == (IF kq.watch THEN {"watch"} ELSE {}) \cup (IF kq.timer # "none" THEN {"timer"} ELSE {})
         \cup (IF kq.tout # 0 THEN {"tout"} ELSE {})

Event(f) == CASE f = "timer" -> [what |-> kq.timer, word |-> 0]
              [] f = "tout" -> [what |-> "tout", word |-> kq.tout]
              [] OTHER -> [what |-> f, word |-> 0]

\* kevent: some of what has gone off, in any order. All but a clock are one shot
Fetch(fs) ==
    /\ pc["manager"] = "listen" /\ fs # {} /\ fs \subseteq Fired
    /\ kq' = [kq EXCEPT !.watch = @ /\ "watch" \notin fs,
                        !.timer = IF "timer" \in fs /\ @ # "clock" THEN "none" ELSE @,
                        !.tout = IF "tout" \in fs THEN 0 ELSE @]
    /\ \E order \in Bijection(1..Cardinality(fs), fs) : batch' = [i \in DOMAIN order |-> Event(order[i])]
    /\ Go("manager", "fetched")
    /\ UNCHANGED <<scene, slotVars, pool, closed, alive, deaths, life, ran, waits>>

Listen == \E fs \in SUBSET {"watch", "timer", "tout"} : Fetch(fs)

\* A stopping manager returns with what it fetched, and the fault the tests inject
\* kills it there
Fetched ==
    /\ pc["manager"] = "fetched"
    /\ \/ life # "running" /\ Go("manager", "out") /\ batch' = <<>> /\ UNCHANGED deaths
       \/ life = "running" /\ Go("manager", "handle") /\ UNCHANGED <<batch, deaths>>
       \/ /\ life = "running" /\ deaths < scene.faults
          /\ Go("manager", "dead") /\ batch' = <<>> /\ deaths' = deaths + 1
    /\ UNCHANGED <<scene, slotVars, pool, closed, kq, alive, life, ran, waits>>

\* The end of the batch, or a wake by a shutdown
Again ==
    /\ \/ pc["manager"] = "handle" /\ batch = <<>>
       \/ pc["manager"] = "listen" /\ life # "running"
    /\ Go("manager", IF life = "running" THEN "listen" ELSE "out")
    /\ UNCHANGED <<scene, slotVars>> /\ UNCHANGED queueVars

Handling(what) == pc["manager"] = "handle" /\ batch # <<>> /\ Head(batch).what \in what

\* Mutant: the park is read and not taken
WakeParkedReading ==
    /\ Handling({"watch", "park"})
    /\ IF Gone \/ ~parked THEN Go("manager", "handle") /\ batch' = Tail(batch)
       ELSE Go("manager", "half") /\ UNCHANGED batch
    /\ UNCHANGED <<scene, slotVars, pool, closed, kq, alive, deaths, life, ran, waits>>

\* wake_parked: one left from an earlier park finds nothing to take
WakeParked ==
    /\ Handling({"watch", "park"})
    /\ parked' = (parked /\ Gone)
    /\ IF Gone \/ ~parked THEN Go("manager", "handle") /\ batch' = Tail(batch)
       ELSE Go("manager", "half") /\ UNCHANGED batch
    /\ UNCHANGED <<scene, st, task, armed, word, held, pins, handle, extras,
                   pool, closed, kq, alive, deaths, life, ran, waits>>

\* unwatch_park: the half that did not fire
Half ==
    /\ pc["manager"] = "half"
    /\ kq' = IF alive # "up" THEN kq
             ELSE IF Head(batch).what = "watch" THEN [kq EXCEPT !.timer = IF scene.timed THEN "none" ELSE @]
             ELSE [kq EXCEPT !.watch = FALSE]
    /\ batch' = Tail(batch) /\ Go("manager", "queue")
    /\ UNCHANGED <<scene, slotVars, pool, closed, alive, deaths, life, ran, waits>>

\* queue, for a park and for a restarted manager
Requeue ==
    /\ pc["manager"] = "queue"
    /\ Queue("manager", "handle", "take_down")
    /\ UNCHANGED <<scene, slotVars, closed, kq, alive, batch, deaths, life, ran, waits>>

\* fire: a wait that is over. Only whoever takes the wake queues the task
Fire ==
    /\ Handling({"wait"}) /\ scene.kind # "series"
    /\ batch' = Tail(batch)
    /\ armed' = (armed /\ Gone)
    /\ Go("manager", IF Gone \/ ~armed THEN "handle" ELSE "fire")
    /\ UNCHANGED <<scene, st, task, parked, word, held, pins, handle, extras,
                   pool, closed, kq, alive, deaths, life, ran, waits>>

FireQueue ==
    /\ pc["manager"] = "fire"
    /\ Queue("manager", "handle", "misfire")
    /\ UNCHANGED <<scene, slotVars, closed, kq, alive, batch, deaths, life, ran, waits>>

Misfire ==
    /\ pc["manager"] = "misfire"
    /\ st' = (IF st \in {"ready", "pending"} THEN "failed" ELSE st)
    /\ extras' = FALSE /\ held' = FALSE /\ Go("manager", "handle")
    /\ UNCHANGED <<scene, task, parked, armed, word, pins, handle>> /\ UNCHANGED queueVars

\* timed_out: a timer left from a run that has ended does nothing
TimedOut ==
    /\ Handling({"tout"})
    /\ Go("manager", IF Gone \/ Head(batch).word # word THEN "handle" ELSE "overdue")
    /\ batch' = Tail(batch)
    /\ UNCHANGED <<scene, slotVars, pool, closed, kq, alive, deaths, life, ran, waits>>

\* A parked run is taken down before anyone hears that it timed out
Overdue ==
    /\ pc["manager"] = "overdue"
    /\ parked' = FALSE
    /\ Go("manager", IF parked THEN "overdue_parked" ELSE "overdue_running")
    /\ UNCHANGED <<scene, st, task, armed, word, held, pins, handle, extras>> /\ UNCHANGED queueVars

OverdueParked ==
    /\ pc["manager"] = "overdue_parked"
    /\ task' = (IF task = "slot" THEN "gone" ELSE task)
    /\ kq' = IF alive = "up"
             THEN [kq EXCEPT !.watch = FALSE, !.timer = IF scene.timed THEN "none" ELSE @]
             ELSE kq
    /\ Go("manager", "overdue_end")
    /\ UNCHANGED <<scene, st, parked, armed, word, held, pins, handle, extras,
                   pool, closed, alive, batch, deaths, life, ran, waits>>

OverdueEnd ==
    /\ pc["manager"] = "overdue_end"
    /\ st' = (IF st = "running" THEN "timedout" ELSE st)
    /\ extras' = (extras /\ st # "running") /\ held' = FALSE
    /\ Go("manager", "handle")
    /\ UNCHANGED <<scene, task, parked, armed, word, pins, handle>> /\ UNCHANGED queueVars

OverdueRunning ==
    /\ pc["manager"] = "overdue_running"
    /\ st' = (IF st = "running" THEN "timedout" ELSE st)
    /\ Go("manager", IF st = "running" THEN "unpark" ELSE "handle")
    /\ UNCHANGED <<scene, task, parked, armed, word, held, pins, handle, extras>> /\ UNCHANGED queueVars

ManagerStep ==
    \/ Fetched \/ Again \/ WakeParked \/ Half \/ Requeue \/ Fire \/ FireQueue \/ Misfire
    \/ TimedOut \/ Overdue \/ OverdueParked \/ OverdueEnd \/ OverdueRunning

----------------------------------------------------------------------------
(* The manager's own life. *)

\* supervise: the manager starts again, or the supervisor gives up on it
Supervise ==
    /\ pc["manager"] = "dead"
    /\ \/ life # "running" /\ Go("manager", "out") /\ UNCHANGED alive
       \/ life = "running" /\ deaths <= Limit /\ Go("manager", "recover") /\ UNCHANGED alive
       \/ life = "running" /\ deaths > Limit /\ Go("manager", "give_up") /\ alive' = "down"
    /\ UNCHANGED <<scene, slotVars, pool, closed, kq, batch, deaths, life, ran, waits>>

\* recover_waits: the run's timeout
Recover ==
    /\ pc["manager"] = "recover"
    /\ IF ~Gone /\ word # 0 THEN Register("manager", "tout", word, "recover_park", "recover_park")
       ELSE Go("manager", "recover_park") /\ UNCHANGED kq
    /\ UNCHANGED <<scene, slotVars, pool, closed, alive, batch, deaths, life, ran, waits>>

\* A park is queued, to look for itself
RecoverPark ==
    /\ pc["manager"] = "recover_park"
    /\ parked' = (parked /\ Gone)
    /\ Go("manager", IF parked /\ ~Gone THEN "recover_watch" ELSE "recover_wait")
    /\ UNCHANGED <<scene, st, task, armed, word, held, pins, handle, extras>> /\ UNCHANGED queueVars

RecoverWatch ==
    /\ pc["manager"] = "recover_watch"
    /\ kq' = IF alive = "up"
             THEN [kq EXCEPT !.watch = FALSE, !.timer = IF scene.timed THEN "none" ELSE @]
             ELSE kq
    /\ Go("manager", "queue")
    /\ UNCHANGED <<scene, slotVars, pool, closed, alive, batch, deaths, life, ran, waits>>

\* Mutant: a wait the dead manager had fetched is not armed again
RecoverWaitNot ==
    /\ pc["manager"] = "recover_wait" /\ Go("manager", "handle")
    /\ UNCHANGED <<scene, slotVars>> /\ UNCHANGED queueVars

\* A wait is armed again, whether or not it was lost
RecoverWait ==
    /\ pc["manager"] = "recover_wait"
    /\ IF armed /\ ~Gone THEN Register("manager", "timer", "wait", "handle", "handle")
       ELSE Go("manager", "handle") /\ UNCHANGED kq
    /\ UNCHANGED <<scene, slotVars, pool, closed, alive, batch, deaths, life, ran, waits>>

\* shutdown: the queue goes, and everything on it
GiveUp ==
    /\ pc["manager"] = "give_up"
    /\ alive' = "closed" /\ kq' = NoEvents /\ Go("manager", "orphan")
    /\ UNCHANGED <<scene, slotVars, pool, closed, batch, deaths, life, ran, waits>>

\* orphaned: what the queue was driving is written off
Orphan ==
    /\ pc["manager"] = "orphan" /\ scene.kind # "series"
    /\ IF parked /\ ~Gone THEN Go("manager", "unpark") /\ UNCHANGED <<st, held, extras>>
       ELSE /\ Go("manager", "out")
            /\ IF ~Gone /\ (scene.kind = "every" \/ armed) /\ st # "running"
               THEN /\ st' = (IF st = "pending" THEN "failed" ELSE st)
                    /\ extras' = FALSE /\ held' = FALSE
               ELSE UNCHANGED <<st, held, extras>>
    /\ UNCHANGED <<scene, task, parked, armed, word, pins, handle>> /\ UNCHANGED queueVars

SupervisorStep == Supervise \/ Recover \/ RecoverPark \/ RecoverWatch \/ RecoverWait \/ GiveUp \/ Orphan

----------------------------------------------------------------------------
(* Stopping the task, and the runtime. *)

\* stop: from wherever it is, and then out of its park
Cancel ==
    /\ scene.cancel /\ pc["canceller"] = "idle" /\ pc["spawner"] = "done"
    /\ handle /\ st \notin Over
    /\ st' = "cancelled" /\ Go("canceller", "unpark")
    /\ UNCHANGED <<scene, task, parked, armed, word, held, pins, handle, extras>> /\ UNCHANGED queueVars

DropHandle ==
    /\ handle /\ pc["spawner"] = "done" /\ pc["canceller"] \in {"idle", "done"}
    /\ handle' = FALSE
    /\ UNCHANGED <<scene, pc, st, task, parked, armed, word, held, pins, extras>> /\ UNCHANGED queueVars

\* shutdown_now: the pool closes, the manager's id goes, and it is woken
StopRuntime ==
    /\ scene.stop /\ life = "running" /\ pc["closer"] = "idle"
    /\ life' = "stopping" /\ Go("closer", "close")
    /\ UNCHANGED <<scene, slotVars, pool, closed, kq, alive, batch, deaths, ran, waits>>

ClosePool ==
    /\ pc["closer"] = "close"
    /\ closed' = TRUE /\ Go("closer", "swap")
    /\ UNCHANGED <<scene, slotVars, pool, kq, alive, batch, deaths, life, ran, waits>>

SwapManager ==
    /\ pc["closer"] = "swap"
    /\ alive' = (IF alive = "up" THEN "down" ELSE alive) /\ Go("closer", "join")
    /\ UNCHANGED <<scene, slotVars, pool, closed, kq, batch, deaths, life, ran, waits>>

\* The supervisor closes the queue once the manager is out, and the pool runs what
\* it has
Join ==
    /\ pc["closer"] = "join" /\ pc["manager"] = "out"
    /\ alive' = "closed" /\ kq' = NoEvents /\ Go("closer", "drain")
    /\ UNCHANGED <<scene, slotVars, pool, closed, batch, deaths, life, ran, waits>>

Drain ==
    /\ pc["closer"] = "drain" /\ scene.kind # "series"
    /\ pool = 0 /\ \A w \in Workers : pc[w] = "idle"
    /\ Go("closer", "sweep")
    /\ UNCHANGED <<scene, slotVars>> /\ UNCHANGED queueVars

\* Everything still holding a reference
Sweep ==
    /\ pc["closer"] = "sweep" /\ scene.kind # "series"
    /\ IF Gone THEN Go("closer", "stopped") /\ UNCHANGED <<st, armed, held, extras>>
       ELSE /\ armed' = FALSE
            /\ IF parked THEN Go("closer", "unpark") /\ UNCHANGED <<st, held, extras>>
               ELSE /\ Go("closer", "stopped")
                    /\ IF st = "running" THEN UNCHANGED <<st, held, extras>>
                       ELSE /\ st' = (IF st = "pending" THEN "failed" ELSE st)
                            /\ extras' = FALSE /\ held' = FALSE
    /\ UNCHANGED <<scene, task, parked, word, pins, handle>> /\ UNCHANGED queueVars

Stopped ==
    /\ pc["closer"] = "stopped" /\ life = "stopping"
    /\ life' = "stopped" /\ UNCHANGED pc
    /\ UNCHANGED <<scene, slotVars, pool, closed, kq, alive, batch, deaths, ran, waits>>

CloserStep == ClosePool \/ SwapManager \/ Join \/ Drain \/ Sweep \/ Stopped

ParksNext ==
    \/ Spawn \/ Cancel \/ DropHandle \/ StopRuntime \/ CloserStep
    \/ \E w \in Workers : WorkerStep(w)
    \/ \E a \in Actors : TakeDownStep(a) \/ WaitStep(a)
    \/ Listen \/ ManagerStep \/ SupervisorStep

\* Threads run. The timers on the queue go off. What a park watches need not happen
ParksFair ==
    /\ \A w \in Workers : WF_vars(WorkerStep(w) \/ TakeDownStep(w) \/ WaitStep(w))
    /\ WF_vars(ManagerStep \/ SupervisorStep \/ TakeDownStep("manager"))
    /\ WF_vars(Spawn \/ WaitStep("spawner")) /\ WF_vars(TakeDownStep("canceller"))
    /\ WF_vars(CloserStep \/ TakeDownStep("closer"))
    /\ WF_vars(Fetch({"timer"})) /\ WF_vars(Fetch({"tout"}))

ParksSpec == ParksInit /\ [][ParksNext]_vars /\ ParksFair

----------------------------------------------------------------------------
(* Properties. *)

InRun == {"begin", "time", "timer", "step", "untime", "panicked", "settle", "after", "fell", "rearm"}

\* One thread has the task, it has it out of its slot, no park is left lying for a
\* task that is running, and no run, park or end of a take-down is in a slot that has
\* been given back: claim_parked and claim_armed let one waker queue the task, however
\* many events, restarts and stops come for it. A timeout that has only looked at its
\* word holds nothing, and may find the slot gone (claim_parked, park_task's listener,
\* timed_out)
RunsAlone ==
    /\ \A w, x \in Workers : pc[w] \in InRun /\ pc[x] \in InRun => w = x
    /\ (\E w \in Workers : pc[w] \in InRun) => task = "run" /\ ~parked
    /\ parked => task = "slot"
    /\ \A a \in Actors : pc[a] \in InRun \cup {"watch", "watch_timer", "check", "let_go", "overdue_end"} => ~Gone

Quiet == pc["manager"] = "listen" /\ \A a \in Actors \ {"manager"} : pc[a] \in {"idle", "done"}

\* Nothing is stranded. When everyone is at rest, a task that is not over has
\* something coming for it: an entry in the pool, the watch of its park, or the timer
\* of its wait, and a run with a timeout has its timer, whatever the manager lost
\* with a batch (wait_for's arm before the timer, watch_park, recover_waits)
NoneWaiting ==
    Quiet /\ alive = "up" /\ held /\ st \notin Over =>
        \/ pool > 0
        \/ parked /\ kq.watch /\ (scene.timed => kq.timer = "park") /\ kq.tout = word
        \/ armed /\ kq.timer = "wait"
        \/ scene.kind = "series" /\ kq.timer = "clock"

\* shutdown_now leaves nothing behind: no reference, no park and no wait for the next
\* manager to find, and nothing that will never settle, once a spawn and a
\* cancel that had already begun are through (the sweep, and the order of
\* closing the pool, the manager and the threads)
StoppedClean ==
    life = "stopped" /\ pc["spawner"] = "done" /\ pc["canceller"] \in {"idle", "done"} =>
        ~held /\ pool = 0 /\ (Gone \/ (~parked /\ ~armed /\ st \notin {"pending", "running"}))

\* No task waits for what will not come, while the runtime is up or once it has stopped
NoneStranded == NoneWaiting /\ StoppedClean

\* A task that is over is still held, or a run with a timeout is still going, with a
\* manager to see to it
RunOwed == (st \in Over /\ held) \/ (st = "running" /\ word # 0 /\ alive = "up")

=============================================================================
