------------------------------ MODULE TaskSlot ------------------------------
(***************************************************************************)
(* One slot of the task table, from `create` to `destroy`: the state word  *)
(* every thread exchanges on, the reference count that keeps the slot, the *)
(* reader count that guards the output, and the output itself.             *)
(*                                                                         *)
(* The module covers a task whose `step` is the default one (it never      *)
(* parks), with no run timeout and no gate: one that runs once, or one     *)
(* that repeats at once.  Each action is one atomic operation of the code  *)
(* (a load, an exchange, a fetch-add, a store) together with the           *)
(* thread-local work around it, so threads interleave where they do in the *)
(* program.                                                                *)
(***************************************************************************)
EXTENDS Integers, FiniteSets

CONSTANTS
    Handles,    \* the task's handles; each is used by one thread at a time
    Takers,     \* the handles whose owner moves the output out (`take`)
    Workers,    \* pool threads that may pick the task up
    Reaper,     \* whoever clears up: a sweep after a death, or a shutdown
    Repeats,    \* whether the task is `Repeating` rather than `Once`
    Runs,       \* runs the task is allowed (`TaskSetup::runs`); 1 for `Once`
    Deaths,     \* how many pool threads may go down inside a run
    Polling,    \* whether handles also use the `try_` and timed calls
    Shutdown    \* whether the runtime is shut down

ASSUME SlotAssumption ==
    /\ IsFiniteSet(Handles) /\ IsFiniteSet(Workers)
    /\ Handles \cap Workers = {}
    /\ Reaper \notin Handles \cup Workers
    /\ Takers \subseteq Handles
    /\ Repeats \in BOOLEAN /\ Polling \in BOOLEAN /\ Shutdown \in BOOLEAN
    /\ Runs \in Nat \ {0}
    /\ ~Repeats => Runs = 1
    /\ Deaths \in Nat

VARIABLES
    state,      \* the state word
    listeners,  \* handles, plus one for the executor
    readers,    \* threads inside `enter_read` .. `leave_read`
    filled,     \* whether the payload holds an output
    held,       \* whether the executor's reference is still owed
    task,       \* whether the boxed task is in the slot
    repeats,    \* `kind().repeats()`, until `finish_series`
    runsLeft,   \* runs left
    bits,       \* which run's output the payload's bytes are; 0 before any
    fate,       \* what became of each run's output
    queue,      \* entries naming this slot in the pool's queues
    pool,       \* "open", "closed", or "gone" once no worker is left
    deaths,     \* pool threads that may still go down
    pc,         \* where each thread is
    op,         \* the call each handle's owner is inside
    seen        \* the state each handle's owner last loaded

counters == <<listeners, readers, runsLeft, deaths>>
slotVars == <<filled, held, task, repeats, bits, fate>>
vars == <<state, counters, slotVars, queue, pool, pc, op, seen>>

Actors == Handles \cup Workers \cup {Reaper}
States == {"Free", "Pending", "Running", "Ready", "Taken", "Cancelled", "Failed"}
Joins == {"join", "join_with_timeout", "try_join"}
Takes == {"take", "take_with_timeout", "try_take"}
Ops == Joins \cup Takes \cup {"none", "cancel"}
Fates == {"unwritten", "live", "gone", "twice"}
HandlePc == {"none", "idle", "submit", "push", "refuse", "wake_failed",
             "release", "unref", "wait", "block", "blocked", "enter", "check",
             "leave_bad", "lost", "clone", "leave", "claim_result", "spin",
             "empty", "read", "stop", "stop_cas", "stopped", "drop", "gone"}
WorkerPc == {"idle", "claim", "begin", "recycle", "exec", "fill", "publish",
             "wake", "after", "rearm", "submit", "push", "give_up", "panicked",
             "wake_failed", "release", "unref", "dead"}
ReaperPc == {"idle", "fail", "set_failed", "wake_failed", "release", "unref"}

terminal(s) == s \notin {"Pending", "Running"}

-----------------------------------------------------------------------------
Init ==
    /\ state = "Free" /\ listeners = 0 /\ readers = 0
    /\ filled = FALSE /\ held = FALSE /\ task = FALSE
    /\ repeats = Repeats /\ runsLeft = Runs
    /\ bits = 0 /\ fate = [r \in 1..Runs |-> "unwritten"]
    /\ queue = 0 /\ pool = "open" /\ deaths = Deaths
    /\ pc = [a \in Actors |-> IF a \in Handles THEN "none" ELSE "idle"]
    /\ op = [h \in Handles |-> "none"]
    /\ seen = [h \in Handles |-> "Free"]

Go(a, to) == pc' = [pc EXCEPT ![a] = to]

\* `wake`: every thread asleep on the state word looks at it again
WakeAll(a, to) ==
    pc' = [b \in Actors |-> IF b = a THEN to
                            ELSE IF pc[b] = "blocked" THEN "wait" ELSE pc[b]]

\* One more owner for run r's output: the first is the only one it may have
Own(f, r) ==
    [f EXCEPT ![r] = IF @ = "live" THEN "gone" ELSE "twice"]

-----------------------------------------------------------------------------
(* Spawning, and the references on the slot.                               *)

\* `create`, up to the submit: the slot is filled in while no other thread
\* can see it, with one reference for the handle and one for the executor
Create(h) ==
    /\ \A a \in Handles : pc[a] = "none"
    /\ state' = "Pending" /\ listeners' = 2 /\ held' = TRUE /\ task' = TRUE
    /\ Go(h, "submit")
    /\ UNCHANGED <<readers, runsLeft, deaths, filled, repeats, bits, fate,
                   queue, pool, op, seen>>

\* `POOL.submit` looks at the pool first ...
Submit(a) ==
    /\ pc[a] = "submit"
    /\ Go(a, IF pool = "open" THEN "push"
             ELSE IF a \in Handles THEN "refuse" ELSE "give_up")
    /\ UNCHANGED <<state, counters, slotVars, queue, pool, op, seen>>

\* ... and pushes afterwards
Push(a) ==
    /\ pc[a] = "push"
    /\ queue' = queue + 1
    /\ Go(a, "idle")
    /\ UNCHANGED <<state, counters, slotVars, pool, op, seen>>

\* `create` turned away: it settles the task itself
Refuse(h) ==
    /\ pc[h] = "refuse"
    /\ state' = "Failed"
    /\ Go(h, "wake_failed")
    /\ UNCHANGED <<counters, slotVars, queue, pool, op, seen>>

\* Mutant: the settling thread forgets the listeners asleep on the state
WakeFailedNobody(a) ==
    /\ pc[a] = "wake_failed"
    /\ Go(a, "release")
    /\ UNCHANGED <<state, counters, slotVars, queue, pool, op, seen>>

\* The `wake` every path into `Failed` ends with, before it releases
WakeFailed(a) ==
    /\ pc[a] = "wake_failed"
    /\ WakeAll(a, "release")
    /\ UNCHANGED <<state, counters, slotVars, queue, pool, op, seen>>

\* Mutant: whoever arrives gives the reference back, first or not
ReleaseAgain(a) ==
    /\ pc[a] = "release"
    /\ held' = FALSE
    /\ Go(a, IF state # "Free" THEN "unref" ELSE "idle")
    /\ UNCHANGED <<state, counters, filled, task, repeats, bits, fate, queue,
                   pool, op, seen>>

\* `release`: only the first to swap `held` gives the reference back
Release(a) ==
    /\ pc[a] = "release"
    /\ held' = (held /\ state = "Free")
    /\ Go(a, IF state # "Free" /\ held THEN "unref" ELSE "idle")
    /\ UNCHANGED <<state, counters, filled, task, repeats, bits, fate, queue,
                   pool, op, seen>>

\* `drop_listener`: the last one out destroys the slot
DropListener ==
    /\ listeners' = listeners - 1
    /\ IF listeners = 1
         THEN /\ state' = "Free"
              /\ task' = FALSE
              /\ fate' = IF filled THEN Own(fate, bits) ELSE fate
         ELSE UNCHANGED <<state, task, fate>>

Unref(a) ==
    /\ pc[a] = "unref"
    /\ DropListener
    /\ Go(a, "idle")
    /\ UNCHANGED <<readers, runsLeft, deaths, filled, held, repeats, bits,
                   queue, pool, op, seen>>

DropHandle(h) ==
    /\ pc[h] \in {"idle", "drop"}
    /\ DropListener
    /\ Go(h, "gone")
    /\ UNCHANGED <<readers, runsLeft, deaths, filled, held, repeats, bits,
                   queue, pool, op, seen>>

\* Mutant: a cloned handle is not counted
CloneHandleUncounted(h, g) ==
    /\ pc[h] = "idle" /\ pc[g] = "none"
    /\ Go(g, "idle")
    /\ UNCHANGED <<state, counters, slotVars, queue, pool, op, seen>>

CloneHandle(h, g) ==
    /\ pc[h] = "idle" /\ pc[g] = "none"
    /\ listeners' = listeners + 1
    /\ Go(g, "idle")
    /\ UNCHANGED <<state, readers, runsLeft, deaths, slotVars, queue, pool, op,
                   seen>>

-----------------------------------------------------------------------------
(* Reading, taking and cancelling through a handle.                        *)

callVars == <<counters, slotVars, queue, pool>>

\* The owner of h makes a call.  `join`, `take` and `cancel` use the handle up
Call(h) ==
    /\ pc[h] = "idle"
    /\ \E o \in Ops \ {"none"} :
         /\ o \in Takes => h \in Takers
         /\ o \in {"try_join", "try_take", "join_with_timeout",
                   "take_with_timeout"} => Polling
         /\ op' = [op EXCEPT ![h] = o]
         /\ Go(h, CASE o = "cancel"   -> "stop"
                    [] o = "try_join" -> "enter"
                    [] o = "try_take" -> "claim_result"
                    [] OTHER          -> "wait")
    /\ UNCHANGED <<state, callVars, seen>>

\* Where the call of h goes once it has its answer
Finish(h) == IF op[h] \in {"join", "take", "cancel"} THEN "drop" ELSE "idle"

\* `wait_until`: load the state, and answer if it is terminal
Wait(h) ==
    /\ pc[h] = "wait"
    /\ seen' = [seen EXCEPT ![h] = state]
    /\ Go(h, IF ~terminal(state) THEN "block"
             ELSE IF state # "Ready" THEN Finish(h)
             ELSE IF op[h] \in Joins THEN "enter" ELSE "claim_result")
    /\ UNCHANGED <<state, callVars, op>>

\* `address_lock::wait`: the kernel compares before it puts the thread to sleep
Block(h) ==
    /\ pc[h] = "block"
    /\ Go(h, IF state = seen[h] THEN "blocked" ELSE "wait")
    /\ UNCHANGED <<state, callVars, op, seen>>

\* A deadline of the caller's own passes, wherever the wait is
GiveUpWait(h) ==
    /\ pc[h] \in {"block", "blocked"}
    /\ op[h] \in {"join_with_timeout", "take_with_timeout"}
    /\ Go(h, "idle")
    /\ UNCHANGED <<state, callVars, op, seen>>

\* `enter_read`: count first, look second
EnterRead(h) ==
    /\ pc[h] = "enter"
    /\ readers' = readers + 1
    /\ Go(h, "check")
    /\ UNCHANGED <<state, listeners, runsLeft, deaths, slotVars, queue, pool,
                   op, seen>>

CheckRead(h) ==
    /\ pc[h] = "check"
    /\ Go(h, IF state = "Ready" THEN "clone" ELSE "leave_bad")
    /\ UNCHANGED <<state, callVars, op, seen>>

\* The clone itself, which takes as long as the user's `Clone` does
CloneOutput(h) ==
    /\ pc[h] = "clone"
    /\ Go(h, "leave")
    /\ UNCHANGED <<state, callVars, op, seen>>

LeaveRead(h) ==
    /\ pc[h] \in {"leave", "leave_bad"}
    /\ readers' = readers - 1
    /\ Go(h, IF pc[h] = "leave" THEN Finish(h) ELSE "lost")
    /\ UNCHANGED <<state, listeners, runsLeft, deaths, slotVars, queue, pool,
                   op, seen>>

\* `lost`: a race with a repeat's next run is tried again, the rest is an error
Lost(h) ==
    /\ pc[h] = "lost"
    /\ \/ /\ state \in {"Pending", "Running", "Ready"}
          /\ op[h] \notin {"try_join", "try_take"}
          /\ Go(h, "wait")
       \/ /\ \/ state \notin {"Pending", "Running", "Ready"}
             \/ op[h] \notin {"join", "take"}
          /\ Go(h, Finish(h))
    /\ UNCHANGED <<state, callVars, op, seen>>

\* `claim_result`: win the move to `Taken`, then wait the readers out
ClaimResult(h) ==
    /\ pc[h] = "claim_result"
    /\ IF state = "Ready" THEN state' = "Taken" /\ Go(h, "spin")
                          ELSE state' = state /\ Go(h, "lost")
    /\ UNCHANGED <<callVars, op, seen>>

SpinReaders(h) ==
    /\ pc[h] = "spin" /\ readers = 0
    /\ Go(h, "empty")
    /\ UNCHANGED <<state, callVars, op, seen>>

\* Mutant: the taker leaves the slot believing it still owns the output
EmptyNot(h) ==
    /\ pc[h] = "empty"
    /\ Go(h, "read")
    /\ UNCHANGED <<state, callVars, op, seen>>

Empty(h) ==
    /\ pc[h] = "empty"
    /\ filled' = FALSE
    /\ Go(h, "read")
    /\ UNCHANGED <<state, counters, held, task, repeats, bits, fate, queue,
                   pool, op, seen>>

\* `ptr::read`: the bytes move out to the caller
ReadOut(h) ==
    /\ pc[h] = "read"
    /\ fate' = Own(fate, bits)
    /\ Go(h, Finish(h))
    /\ UNCHANGED <<state, counters, filled, held, task, repeats, bits, queue,
                   pool, op, seen>>

\* `stop`: load the state and the kind ...
Stop(h) ==
    /\ pc[h] = "stop"
    /\ seen' = [seen EXCEPT ![h] = state]
    /\ Go(h, IF state \in {"Cancelled", "Failed", "Free"}
                  \/ (state = "Taken" /\ ~repeats)
               THEN "drop" ELSE "stop_cas")
    /\ UNCHANGED <<state, callVars, op>>

\* ... then exchange, going round again if the state has moved
StopCas(h) ==
    /\ pc[h] = "stop_cas"
    /\ IF state = seen[h] THEN state' = "Cancelled" /\ Go(h, "stopped")
                          ELSE state' = state /\ Go(h, "stop")
    /\ UNCHANGED <<callVars, op, seen>>

Stopped(h) ==
    /\ pc[h] = "stopped"
    /\ WakeAll(h, "drop")
    /\ UNCHANGED <<state, callVars, op, seen>>

-----------------------------------------------------------------------------
(* `run`, on a pool thread.                                                *)

Pop(w) ==
    /\ pc[w] = "idle" /\ queue > 0 /\ pool \in {"open", "closed"}
    /\ queue' = queue - 1
    /\ Go(w, "claim")
    /\ UNCHANGED <<state, counters, slotVars, pool, op, seen>>

\* Mutant: the task is loaded out of the slot rather than swapped out
ClaimLoad(w) ==
    /\ pc[w] = "claim"
    /\ Go(w, IF state # "Free" /\ task THEN "begin" ELSE "idle")
    /\ UNCHANGED <<state, callVars, op, seen>>

\* Only the first swap gets the task
Claim(w) ==
    /\ pc[w] = "claim"
    /\ IF state # "Free" /\ task THEN task' = FALSE /\ Go(w, "begin")
                                 ELSE task' = task /\ Go(w, "idle")
    /\ UNCHANGED <<state, counters, filled, held, repeats, bits, fate, queue,
                   pool, op, seen>>

\* `begin`: into `Running` from `Pending`, or from a settled run of a repeat.
\* A task stopped meanwhile is dropped unrun.  A failed exchange changes
\* nothing, so the exchanges it tries in turn are one step
Begin(w) ==
    /\ pc[w] = "begin"
    /\ \/ /\ state = "Pending"
          /\ state' = "Running" /\ Go(w, "exec")
       \/ /\ repeats /\ state \in {"Ready", "Taken"}
          /\ state' = "Running" /\ Go(w, "recycle")
       \/ /\ state # "Pending" /\ ~(repeats /\ state \in {"Ready", "Taken"})
          /\ state' = state /\ Go(w, "release")
    /\ UNCHANGED <<callVars, op, seen>>

\* Mutant: the old output goes without waiting for the reads of it
RecycleAtOnce(w) ==
    /\ pc[w] = "recycle"
    /\ filled' = FALSE
    /\ fate' = IF filled THEN Own(fate, bits) ELSE fate
    /\ Go(w, "exec")
    /\ UNCHANGED <<state, counters, held, task, repeats, bits, queue, pool,
                   op, seen>>

\* Mutant: the old output is written over rather than dropped
RecycleLeaky(w) ==
    /\ pc[w] = "recycle" /\ readers = 0
    /\ filled' = FALSE
    /\ Go(w, "exec")
    /\ UNCHANGED <<state, counters, held, task, repeats, bits, fate, queue,
                   pool, op, seen>>

\* `recycle`: wait the readers out, then drop the output nobody took
Recycle(w) ==
    /\ pc[w] = "recycle" /\ readers = 0
    /\ filled' = FALSE
    /\ fate' = IF filled THEN Own(fate, bits) ELSE fate
    /\ Go(w, "exec")
    /\ UNCHANGED <<state, counters, held, task, repeats, bits, queue, pool,
                   op, seen>>

\* The task's own `run`: it writes its output, panics, or takes its thread
\* down with it
Exec(w) ==
    /\ pc[w] = "exec"
    /\ \/ /\ bits' = Runs - runsLeft + 1
          /\ fate' = [fate EXCEPT ![bits'] = "live"]
          /\ Go(w, "fill")
          /\ deaths' = deaths
       \/ /\ Go(w, "panicked")
          /\ UNCHANGED <<bits, fate, deaths>>
       \/ /\ deaths > 0 /\ deaths' = deaths - 1
          /\ Go(w, "dead")
          /\ UNCHANGED <<bits, fate>>
    /\ UNCHANGED <<state, listeners, readers, runsLeft, filled, held, task,
                   repeats, queue, pool, op, seen>>

Fill(w) ==
    /\ pc[w] = "fill"
    /\ filled' = TRUE
    /\ Go(w, "publish")
    /\ UNCHANGED <<state, counters, held, task, repeats, bits, fate, queue,
                   pool, op, seen>>

\* Mutant: a run stores `Ready` rather than exchanging it for `Running`
PublishStore(w) ==
    /\ pc[w] = "publish"
    /\ state' = "Ready"
    /\ Go(w, "wake")
    /\ UNCHANGED <<callVars, op, seen>>

\* A task cancelled mid run leaves its output for the last listener out
Publish(w) ==
    /\ pc[w] = "publish"
    /\ IF state = "Running" THEN state' = "Ready" /\ Go(w, "wake")
                            ELSE state' = state /\ Go(w, "release")
    /\ UNCHANGED <<callVars, op, seen>>

WakeReady(w) ==
    /\ pc[w] = "wake"
    /\ WakeAll(w, "after")
    /\ UNCHANGED <<state, callVars, op, seen>>

\* A repeat counts the run and checks its `until`, which may have passed at
\* any run; `finish_series` moves the kind on before the reference goes
After(w) ==
    /\ pc[w] = "after"
    /\ IF ~repeats
         THEN Go(w, "release") /\ UNCHANGED <<runsLeft, repeats>>
         ELSE /\ runsLeft' = runsLeft - 1
              /\ \/ repeats' = FALSE /\ Go(w, "release")
                 \/ runsLeft' # 0 /\ repeats' = TRUE /\ Go(w, "rearm")
    /\ UNCHANGED <<state, listeners, readers, deaths, filled, held, task, bits,
                   fate, queue, pool, op, seen>>

Rearm(w) ==
    /\ pc[w] = "rearm"
    /\ task' = TRUE
    /\ Go(w, "submit")
    /\ UNCHANGED <<state, counters, filled, held, repeats, bits, fate, queue,
                   pool, op, seen>>

\* The pool will not take the next run, or the run panicked: `Failed`, unless
\* somebody has moved the state first
Settle(w) ==
    /\ \/ pc[w] = "give_up" /\ state = "Ready"
       \/ pc[w] = "panicked" /\ state = "Running"
    /\ state' = "Failed"
    /\ Go(w, "wake_failed")
    /\ UNCHANGED <<callVars, op, seen>>

SettleLost(w) ==
    /\ \/ pc[w] = "give_up" /\ state # "Ready"
       \/ pc[w] = "panicked" /\ state # "Running"
    /\ Go(w, "release")
    /\ UNCHANGED <<state, callVars, op, seen>>

-----------------------------------------------------------------------------
(* `fail`, for a thread that died and for what a shutdown finds.           *)

\* A sweep finds the dead thread and fails the task it held
Recover(w) ==
    /\ pc[w] = "dead" /\ pc[Reaper] = "idle"
    /\ pc' = [pc EXCEPT ![w] = "idle", ![Reaper] = "fail"]
    /\ UNCHANGED <<state, callVars, op, seen>>

Fail ==
    /\ pc[Reaper] = "fail"
    /\ Go(Reaper, IF terminal(state) THEN "release" ELSE "set_failed")
    /\ UNCHANGED <<state, callVars, op, seen>>

\* A plain store, after a separate look at the state
SetFailed ==
    /\ pc[Reaper] = "set_failed"
    /\ state' = "Failed"
    /\ Go(Reaper, "wake_failed")
    /\ UNCHANGED <<callVars, op, seen>>

\* `shutdown_now`: close the pool, wait for what is queued to run and for
\* every thread to leave, then write off what is left
Close ==
    /\ Shutdown /\ pool = "open"
    /\ pool' = "closed"
    /\ UNCHANGED <<state, counters, slotVars, queue, pc, op, seen>>

StopAll ==
    /\ pool = "closed" /\ queue = 0
    /\ \A w \in Workers : pc[w] = "idle"
    /\ pool' = "gone"
    /\ UNCHANGED <<state, counters, slotVars, queue, pc, op, seen>>

Drain ==
    /\ pool = "gone" /\ queue > 0 /\ pc[Reaper] = "idle"
    /\ queue' = queue - 1
    /\ Go(Reaper, "fail")
    /\ UNCHANGED <<state, counters, slotVars, pool, op, seen>>

Sweep ==
    /\ pool = "gone" /\ queue = 0 /\ pc[Reaper] = "idle"
    /\ pool' = "swept"
    /\ Go(Reaper, IF state \in {"Free", "Running"} THEN "idle" ELSE "fail")
    /\ UNCHANGED <<state, counters, slotVars, queue, op, seen>>

-----------------------------------------------------------------------------
HandleStep(h) ==
    \/ Submit(h) \/ Push(h) \/ Refuse(h) \/ WakeFailed(h) \/ Release(h) \/ Unref(h)
    \/ Wait(h) \/ Block(h) \/ EnterRead(h) \/ CheckRead(h) \/ CloneOutput(h)
    \/ LeaveRead(h) \/ Lost(h) \/ ClaimResult(h) \/ SpinReaders(h) \/ Empty(h)
    \/ ReadOut(h) \/ Stop(h) \/ StopCas(h) \/ Stopped(h)

RunStep(w) ==
    \/ Pop(w) \/ Claim(w) \/ Begin(w) \/ Recycle(w) \/ Exec(w) \/ Fill(w)
    \/ Publish(w) \/ WakeReady(w) \/ After(w) \/ Rearm(w) \/ Submit(w) \/ Push(w)
    \/ Settle(w) \/ SettleLost(w) \/ WakeFailed(w) \/ Release(w) \/ Unref(w)

ReaperStep ==
    \/ \E w \in Workers : Recover(w)
    \/ Fail \/ SetFailed \/ WakeFailed(Reaper) \/ Release(Reaper) \/ Unref(Reaper)
    \/ StopAll \/ Drain \/ Sweep

Next ==
    \/ \E h \in Handles : Create(h) \/ Call(h) \/ GiveUpWait(h) \/ DropHandle(h)
    \/ \E h, g \in Handles : CloneHandle(h, g)
    \/ \E h \in Handles : HandleStep(h)
    \/ \E w \in Workers : RunStep(w)
    \/ ReaperStep
    \/ Close

\* A thread inside a call or a run keeps going, a queued task is picked up, and
\* a death or a shutdown is followed through.  Nothing obliges a user to call
Fairness ==
    /\ \A h \in Handles : WF_vars(HandleStep(h))
    /\ \A w \in Workers : WF_vars(RunStep(w))
    /\ WF_vars(ReaperStep)

Spec == Init /\ [][Next]_vars /\ Fairness

-----------------------------------------------------------------------------
(* What the slot of a one-shot task looks like from outside.               *)

phaseOf == CASE state \in {"Pending", "Running"}  -> "owed"
             [] state = "Ready"                   -> "ready"
             [] state = "Taken"                   -> "taken"
             [] state \in {"Cancelled", "Failed"} -> "over"
             [] OTHER                             -> "empty"

outputOf == CASE fate[1] = "unwritten" -> "none"
              [] fate[1] = "live"      -> "slot"
              [] fate[1] = "gone"      -> "gone"
              [] OTHER                 -> "twice"

Promise == INSTANCE TaskPromise WITH phase <- phaseOf, output <- outputOf

-----------------------------------------------------------------------------
(* Properties.                                                             *)

\* Types: what the slot's words hold, and where each kind of thread can be in the calls of
\* `Executor` and `run`
TypeOK ==
    /\ state \in States /\ listeners \in Nat /\ readers \in Nat
    /\ filled \in BOOLEAN /\ held \in BOOLEAN /\ task \in BOOLEAN
    /\ repeats \in BOOLEAN /\ runsLeft \in 0..Runs /\ bits \in 0..Runs
    /\ fate \in [1..Runs -> Fates]
    /\ queue \in Nat /\ pool \in {"open", "closed", "gone", "swept"}
    /\ deaths \in 0..Deaths
    /\ pc \in [Actors -> HandlePc \cup WorkerPc \cup ReaperPc]
    /\ \A h \in Handles : pc[h] \in HandlePc
    /\ \A w \in Workers : pc[w] \in WorkerPc
    /\ pc[Reaper] \in ReaperPc
    /\ op \in [Handles -> Ops] /\ seen \in [Handles -> States]

\* The handles that count towards `listeners`, and the threads between winning
\* `claim_release` and giving the reference back
Live == {h \in Handles : pc[h] \notin {"none", "gone"}}
Releasing == {a \in Actors : pc[a] = "unref"}
Reading == {h \in Handles : pc[h] \in {"check", "clone", "leave", "leave_bad"}}

\* A worker inside `run` with the boxed task in its hands
Running(w) == pc[w] \notin {"idle", "claim", "release", "unref", "submit", "push",
                            "give_up", "wake_failed", "dead"}

\* The reference count (`drop_listener`, `claim_release`): the slot is not
\* emptied while a handle is live, a run holds the task or has yet to settle
\* it, or a dead thread's task has yet to be failed
SlotOutlivesUse ==
    state = "Free" =>
        /\ Live = {} /\ Releasing = {}
        /\ \A w \in Workers : ~Running(w) /\ pc[w] \notin {"dead", "give_up"}

\* `destroy`: "nothing may touch the slot afterwards".  An empty slot's state
\* only moves when a new task is put in it
EmptySlotUntouched == [][state = "Free" => state' = "Pending"]_state

\* `claim` hands the boxed task to one run at a time
OneRunAtATime ==
    /\ \A v, w \in Workers : Running(v) /\ Running(w) => v = w
    /\ task => \A w \in Workers : ~Running(w)

\* `claim_result`, `recycle` and `destroy` between them give each output one
\* owner: it is moved out to one caller or dropped in place, never both
OutputOwnedOnce == \A r \in 1..Runs : fate[r] # "twice"

\* `enter_read` against `claim_result` and `recycle`: while a clone is under
\* way the bytes under it are an output nobody has moved out or dropped
ClonesReadLive == \A h \in Handles : pc[h] = "clone" => bits # 0 /\ fate[bits] = "live"

\* `destroy` leaves nothing behind: once the slot is empty every output that
\* was written has been moved out or dropped
NoOutputLeaks == state = "Free" => \A r \in 1..Runs : fate[r] # "live"

\* `TaskHandle::cancel`: "Every other listener's read returns `Cancelled` from
\* here on"
CancelSticks == [][state = "Cancelled" => state' \in {"Cancelled", "Free"}]_state

\* A one-shot task's slot implements TaskPromise: whatever its threads do, its
\* handles see a task that settles once, gives its output away once, and is
\* cleared only when that is done
KeepsPromise == Promise!Spec

\* A `join` or `take` asleep on the state word is woken (`wake` on every path
\* that settles the task)
WaitersReturn == \A h \in Handles : pc[h] = "blocked" ~> pc[h] # "blocked"

-----------------------------------------------------------------------------
(* The inductive invariant behind the reference count.                     *)

\* Where a thread is when it carries the job of running or settling the task,
\* and with it the duty to give the executor's reference back
DutyPc == {"submit", "push", "refuse", "wake_failed", "release", "claim", "begin",
           "recycle", "exec", "fill", "publish", "wake", "after", "rearm",
           "give_up", "panicked", "dead", "fail", "set_failed"}
OnDuty(a) == pc[a] \in DutyPc

\* `listeners` is the live handles, the executor's reference while `held` says
\* it is owed, and the references won from `held` but not yet given back
RefsCounted ==
    /\ listeners = Cardinality(Live) + Cardinality(Releasing) + (IF held THEN 1 ELSE 0)
    /\ state = "Free" => listeners = 0

ReadersCounted == readers = Cardinality(Reading)

\* While the pool has threads, the duty is in one place: with one thread, or in
\* one queue entry.  Whoever has it, the executor's reference is still there
DutyUnique ==
    IF pool \in {"open", "closed"}
      THEN /\ queue \in {0, 1}
           /\ queue = 1 => held /\ \A a \in Actors : ~OnDuty(a)
           /\ \A a \in Actors : OnDuty(a) => held
           /\ \A a, b \in Actors : OnDuty(a) /\ OnDuty(b) => a = b
      ELSE \A w \in Workers : pc[w] = "idle"

\* Nothing has begun before the first handle exists
NotStarted ==
    (\A h \in Handles : pc[h] = "none") =>
        /\ state = "Free" /\ ~held /\ queue = 0 /\ ~task /\ listeners = 0
        /\ runsLeft = Runs
        /\ pc[Reaper] = "idle" /\ \A w \in Workers : pc[w] = "idle"

\* A run in progress or to come has a run left to count
RunsRemain ==
    runsLeft = 0 =>
        /\ queue = 0
        /\ \A h \in Handles : pc[h] \notin {"submit", "push"}
        /\ \A w \in Workers : pc[w] \in {"idle", "release", "unref"}

\* Only the run holds the task, and only while the slot does not
TaskHeldOnce == \A w \in Workers : Running(w) => ~task

\* The inductive invariant: what `listeners`, `readers`, `held`, `task` and the
\* queue say is what the threads are really doing
SlotInv ==
    /\ RefsCounted /\ ReadersCounted /\ DutyUnique
    /\ NotStarted /\ RunsRemain /\ TaskHeldOnce

-----------------------------------------------------------------------------
(* The inductive invariant behind a one-shot task's output.                *)

\* Where a thread is before the run it carries has written an output
BeforeWrite == {"submit", "push", "refuse", "claim", "begin", "exec", "panicked",
                "dead", "set_failed"}

\* No output is out yet, for readers or for takers
Unseen == state \notin {"Ready", "Taken"}

\* A one-shot task's output, from nowhere through the slot to its one owner: it
\* is in the slot exactly from `fill` until the caller that won `Taken` empties
\* it or the last listener drops it, and no clone is under way by then
OneShotInv ==
    /\ ~repeats
    /\ \A w \in Workers : pc[w] \notin {"recycle", "rearm", "submit", "push", "give_up"}
    /\ \A a \in Actors : pc[a] \in BeforeWrite => Unseen /\ ~filled
    /\ queue > 0 => Unseen /\ ~filled
    /\ state = "Pending" => ~filled /\ \A w \in Workers : pc[w] \notin {"exec", "fill"}
    /\ state = "Running" /\ pc[Reaper] = "fail" => ~filled
    /\ \A w \in Workers : /\ pc[w] = "fill" => Unseen /\ ~filled /\ fate[1] = "live" /\ bits = 1
                          /\ pc[w] = "publish" => Unseen /\ filled
    /\ listeners > 0 /\ filled => fate[1] = "live" /\ bits = 1
    /\ listeners = 0 => fate[1] # "live"
    /\ state = "Ready" => filled
    /\ \A h \in Handles :
         /\ pc[h] \in {"spin", "empty"} => state = "Taken" /\ filled
         /\ pc[h] = "read" => state = "Taken" /\ ~filled /\ fate[1] = "live" /\ bits = 1
         /\ pc[h] = "clone" => filled /\ \A g \in Handles : pc[g] # "empty"
         /\ pc[h] = "stop_cas" => seen[h] \notin {"Taken", "Free"}
    /\ \A g, h \in Handles :
         pc[g] \in {"spin", "empty", "read"} /\ pc[h] \in {"spin", "empty", "read"} => g = h
    /\ fate[1] = "live" => \/ filled
                           \/ \E h \in Handles : pc[h] = "read"
                           \/ \E w \in Workers : pc[w] = "fill"
    /\ (\A h \in Handles : pc[h] = "none") => ~filled /\ fate[1] = "unwritten"
    /\ fate[1] # "twice"

=============================================================================
