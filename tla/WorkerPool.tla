----------------------------- MODULE WorkerPool -----------------------------
(***************************************************************************)
(* The worker pool: slots with a thread behind them or not, the queues the *)
(* threads take from, parking and waking, helping inside a task, growing   *)
(* and reaping, threads that die and whoever clears up after them, and the *)
(* shutdown.  Workers and sleep threads share ThreadSlot, so both are here *)
(* as two kinds of slot.  The two shared queues are lines (BandedFifo);    *)
(* rotating starts are a choice of the next slot, and the manager's counts *)
(* of ticks are a choice of whether the time has come.                     *)
(***************************************************************************)
EXTENDS Integers, FiniteSets, Sequences, SequencesExt

CONSTANTS
    Slots,          \* slots of each kind, [{"work", "sleep"} -> Nat] (MAX_WORKERS)
    SleepTarget, Ceiling,
    Cap,            \* LOCAL_QUEUE
    NumTasks,       \* tasks spawned in all (bound)
    Scenarios       \* what a behaviour starts from: `floor`, `target`, the depth to help at,
                    \* the tasks spawned, those that want a sleep thread, and the events that may happen, once each
                    \* (bound): a death, a refused start, a rerun, a tick of the
                    \* manager, a reap, the supervisor giving up, a shutdown

Kinds == {"work", "sleep"}
Events == {"death", "refuse", "rerun", "reap", "tick", "give_up", "stop"}
SlotsOf(k) == {<<k, i>> : i \in 1..Slots[k]}
Threads == SlotsOf("work") \cup SlotsOf("sleep")
Kind(s) == s[1]
Tasks == 1..NumTasks
Actors == Threads \cup {<<"caller", 0>>, <<"manager", 0>>, <<"healer", 0>>, <<"stopper", 0>>}
Caller == <<"caller", 0>>
Manager == <<"manager", 0>>
Healer == <<"healer", 0>>
Stopper == <<"stopper", 0>>

ASSUME PoolAssumption ==
    /\ Slots \in [Kinds -> Nat] /\ Cap \in Nat \ {0}
    /\ Ceiling \in Nat /\ SleepTarget \in 1..Ceiling
    /\ NumTasks \in Nat
    /\ Scenarios \subseteq [floor : 1..Ceiling, target : 1..Ceiling, depth : Nat, tasks : 0..NumTasks, blocking : SUBSET Tasks, may : SUBSET Events]

VARIABLES
    state,          \* each slot's WorkerState
    live, highest, parked,  \* per kind: slots counted, the walk limit, threads parked
    owed,           \* per kind: slots given back and not counted out yet
    queue,          \* per kind: the shared queue and the blocking queue
    ring, lifo,     \* each worker's own ring and LIFO slot
    lifo_filled,    \* LIFO slots counted full
    mark,           \* where each task says it is queued
    st,             \* "new", "pending", "running", "done" or "failed"
    scene,          \* the scenario
    frames,         \* the notes of what a thread holds: `current`, then `nested`
    dead,           \* deaths not recovered yet
    stopped,        \* the pool is shut
    managed,        \* the manager has a queue to work from
    summons,        \* recovery threads on their way
    chance,         \* of each event, whether it may happen or was
    pc,             \* each actor's calls under way, innermost first
    job, todo, at, res  \* an actor's task, slots to visit, slot or start, last answer

places == <<queue, ring, lifo, lifo_filled, mark>>
counts == <<live, highest, parked, owed>>
health == <<dead, stopped, managed, summons, chance>>
runs == <<st, frames>>
args == <<job, todo, at, res>>
vars == <<state, counts, places, runs, scene, health, pc, args>>

NoTask == 0
Floor == scene.floor
Target == scene.target
HelpDepth == scene.depth
Nowhere == <<"work", 0, 0>>
Home(t) == IF t \in scene.blocking THEN "sleep" ELSE "work"
alive(s) == state[s] \in {"Starting", "Idle", "Running", "Parked", "Stopping"}
Walked(k) == {s \in SlotsOf(k) : s[2] <= highest[k]}
Settled(t) == st[t] \in {"done", "failed"}

\* `init` has opened the pool and started the floor
FirstUp == {s \in SlotsOf("work") : s[2] <= Floor}

Init ==
    /\ scene \in Scenarios
    /\ state = [s \in Threads |-> IF s \in FirstUp THEN "Starting" ELSE "Empty"]
    /\ live = [k \in Kinds |-> IF k = "work" THEN Floor ELSE 0] /\ highest = live
    /\ parked = [k \in Kinds |-> 0] /\ owed = [k \in Kinds |-> 0]
    /\ queue = [k \in Kinds |-> <<>>]
    /\ ring = [s \in SlotsOf("work") |-> <<>>] /\ lifo = [s \in SlotsOf("work") |-> NoTask]
    /\ lifo_filled = 0 /\ mark = [t \in Tasks |-> "nowhere"]
    /\ st = [t \in Tasks |-> IF t <= scene.tasks THEN "new" ELSE "failed"]
    /\ frames = [s \in Threads |-> <<>>]
    /\ dead = 0 /\ stopped = FALSE /\ managed = TRUE /\ summons = 0
    /\ chance = [c \in Events |-> IF c \in scene.may THEN "may" ELSE "never"]
    /\ pc = [a \in Actors |-> IF a \in FirstUp THEN <<"up">> ELSE <<>>]
    /\ job = [a \in Actors |-> NoTask] /\ todo = [a \in Actors |-> {}]
    /\ at = [a \in Actors |-> Nowhere] /\ res = [a \in Actors |-> FALSE]

At(a, l) == pc[a] # <<>> /\ Head(pc[a]) = l
Go(a, l) == pc' = [pc EXCEPT ![a] = <<l>> \o Tail(@)]
Call(a, l, c) == pc' = [pc EXCEPT ![a] = <<l, c>> \o Tail(@)]
Back(a) == pc' = [pc EXCEPT ![a] = Tail(@)]
Answer(a, r) == res' = [res EXCEPT ![a] = r]
Leaves(a) == at' = [at EXCEPT ![a] = Nowhere]
Forget(a) ==
    /\ job' = [job EXCEPT ![a] = NoTask] /\ todo' = [todo EXCEPT ![a] = {}]
    /\ at' = [at EXCEPT ![a] = Nowhere] /\ res' = [res EXCEPT ![a] = FALSE]
Visit(a, S) == todo' = [todo EXCEPT ![a] = S]
Add(f, k, n) == [f EXCEPT ![k] = @ + n]
Happens(c) == chance[c] = "may" /\ chance' = [chance EXCEPT ![c] = "was"]
Backlog(w) == Len(ring[w]) + (IF lifo[w] = NoTask THEN 0 ELSE 1)
Less(n) == IF n = 0 THEN 0 ELSE n - 1

\* `injector.push`, of a sequence of tasks
Pushed(k, ts) == [queue EXCEPT ![k] = @ \o ts]
Marked(ts, m) == [t \in Tasks |-> IF t \in ToSet(ts) THEN m ELSE mark[t]]

-----------------------------------------------------------------------------
(* `submit` and `offload`, which differ in what brings an empty pool back, *)
(* and in a blocking task starting a thread when no parked one was woken.  *)

Submit(a) ==
    /\ At(a, "submit")
    /\ IF stopped THEN Answer(a, FALSE) /\ Back(a)
       ELSE /\ UNCHANGED res
            /\ IF dead # 0 THEN Call(a, "sweep", "room") ELSE Go(a, "room")
    /\ UNCHANGED <<state, counts, places, runs, scene, health, job, todo, at>>

\* A start is asked for: its kind, its limit, and the slot it is at
StartCall(a, k, limit, c) == at' = [at EXCEPT ![a] = <<k, limit, 0>>] /\ Call(a, "start", c)

Room(a) ==
    /\ At(a, "room")
    /\ LET k == Home(job[a]) IN
       CASE live[k] > 0 -> Go(a, "push") /\ UNCHANGED at
         [] live[k] = 0 /\ k = "work" -> Call(a, "floor", "room2") /\ UNCHANGED at
         [] OTHER -> StartCall(a, k, SleepTarget, "room2")
    /\ UNCHANGED <<state, counts, places, runs, scene, health, job, todo, res>>

Room2(a) ==
    /\ At(a, "room2")
    /\ LET k == Home(job[a]) IN
       IF (k = "work" /\ live[k] > 0) \/ (k = "sleep" /\ res[a])
       THEN Go(a, "push") /\ UNCHANGED res
       ELSE Answer(a, FALSE) /\ Back(a)
    /\ UNCHANGED <<state, counts, places, runs, scene, health, job, todo, at>>

Push(a) ==
    /\ At(a, "push")
    /\ queue' = Pushed(Home(job[a]), <<job[a]>>) /\ mark' = [mark EXCEPT ![job[a]] = "shared"]
    /\ Go(a, "rouse")
    /\ UNCHANGED <<state, counts, ring, lifo, lifo_filled, runs, scene, health, args>>

\* The parked count is read after the task is queued
Rouse(a) ==
    /\ At(a, "rouse")
    /\ LET k == Home(job[a]) IN
       \/ /\ parked[k] # 0
          /\ Visit(a, Walked(k)) /\ Call(a, "wake", IF k = "work" THEN "queued" ELSE "roused")
          /\ UNCHANGED <<at, res>>
       \/ /\ parked[k] = 0 /\ k = "work" /\ Answer(a, TRUE) /\ Back(a) /\ UNCHANGED <<todo, at>>
       \/ /\ parked[k] = 0 /\ k = "sleep" /\ StartCall(a, k, SleepTarget, "queued") /\ UNCHANGED <<todo, res>>
    /\ UNCHANGED <<state, counts, places, runs, scene, health, job>>

Roused(a) ==
    /\ At(a, "roused")
    /\ IF ~res[a] THEN StartCall(a, "sleep", SleepTarget, "queued") ELSE Back(a) /\ UNCHANGED at
    /\ UNCHANGED <<state, counts, places, runs, scene, health, job, todo, res>>

Queued(a) ==
    /\ At(a, "queued")
    /\ Answer(a, TRUE) /\ Back(a)
    /\ UNCHANGED <<state, counts, places, runs, scene, health, job, todo, at>>

\* `wake_one` and `wake_sleep`: each slot in turn, until one is taken out of its
\* park
Wake(a) ==
    /\ At(a, "wake")
    /\ \/ /\ todo[a] = {} /\ Answer(a, FALSE) /\ Back(a) /\ UNCHANGED <<state, todo>>
       \/ \E s \in todo[a] :
            IF state[s] = "Parked"
            THEN /\ state' = [state EXCEPT ![s] = "Idle"]
                 /\ Answer(a, TRUE) /\ Back(a) /\ Visit(a, {})
            ELSE Visit(a, todo[a] \ {s}) /\ UNCHANGED <<state, pc, res>>
    /\ UNCHANGED <<counts, places, runs, scene, health, job, at>>

-----------------------------------------------------------------------------
(* `submit_local`: the LIFO slot, the ring, or the shared queue.           *)

SubmitLocal(w) ==
    /\ At(w, "local")
    /\ LET t == job[w] IN
       \/ /\ stopped /\ Answer(w, FALSE) /\ Back(w)
          /\ UNCHANGED <<ring, lifo, mark>>
       \/ /\ ~stopped /\ lifo[w] = NoTask
          /\ lifo' = [lifo EXCEPT ![w] = t] /\ mark' = [mark EXCEPT ![t] = "local"]
          /\ Go(w, "filled") /\ UNCHANGED <<ring, res>>
       \/ /\ ~stopped /\ lifo[w] # NoTask /\ Len(ring[w]) < Cap
          /\ ring' = [ring EXCEPT ![w] = Append(@, t)] /\ mark' = [mark EXCEPT ![t] = "local"]
          /\ Go(w, "rouse") /\ UNCHANGED <<lifo, res>>
       \/ /\ ~stopped /\ lifo[w] # NoTask /\ Len(ring[w]) >= Cap
          /\ Go(w, "submit") /\ UNCHANGED <<ring, lifo, mark, res>>
    /\ UNCHANGED <<state, counts, queue, lifo_filled, runs, scene, health, job, todo, at>>

\* Counted once it is in, so a take can land in between
Filled(w) ==
    /\ At(w, "filled")
    /\ lifo_filled' = lifo_filled + 1 /\ Go(w, "rouse")
    /\ UNCHANGED <<state, counts, queue, ring, lifo, mark, runs, scene, health, args>>

-----------------------------------------------------------------------------
(* `start_one` and `start_sleep`.                                          *)

Start(a) ==
    /\ At(a, "start")
    /\ LET k == at[a][1] IN
       IF stopped \/ live[k] >= at[a][2]
       THEN Answer(a, FALSE) /\ Back(a) /\ Leaves(a)
       ELSE Go(a, "reserve") /\ at' = [at EXCEPT ![a][3] = 1] /\ UNCHANGED res
    /\ UNCHANGED <<state, counts, places, runs, scene, health, job, todo>>

\* Counted before the claim, and against the limit.  A slot that was lost moves
\* the reach of the search on, so it ends only with the slots
Reserve(a) ==
    /\ At(a, "reserve")
    /\ LET k == at[a][1] IN
       IF at[a][3] > Slots[k] \/ live[k] >= at[a][2]
       THEN Answer(a, FALSE) /\ Back(a) /\ Leaves(a) /\ UNCHANGED live
       ELSE live' = Add(live, k, 1) /\ Go(a, "claim") /\ UNCHANGED <<at, res>>
    /\ UNCHANGED <<state, highest, parked, owed, places, runs, scene, health, job, todo>>

Claim(a) ==
    /\ At(a, "claim")
    /\ LET k == at[a][1]
           s == <<k, at[a][3]>>
       IN  IF state[s] = "Empty"
           THEN /\ state' = [state EXCEPT ![s] = "Starting"]
                /\ highest' = [highest EXCEPT ![k] = IF @ < s[2] THEN s[2] ELSE @]
                /\ Go(a, "spawn") /\ UNCHANGED <<live, at>>
           ELSE /\ live' = [live EXCEPT ![k] = Less(@)]
                /\ at' = [at EXCEPT ![a][3] = @ + 1]
                /\ Go(a, "reserve") /\ UNCHANGED <<state, highest>>
    /\ UNCHANGED <<parked, owed, places, runs, scene, health, job, todo, res>>

Spawn(a) ==
    /\ At(a, "spawn")
    /\ LET s == <<at[a][1], at[a][3]>> IN
       /\ pc' = [pc EXCEPT ![a] = Tail(@), ![s] = <<"up">>]
       /\ Answer(a, TRUE) /\ Leaves(a)
    /\ UNCHANGED <<state, counts, places, runs, scene, health, job, todo>>

\* A refused spawn frees the slot and tries the next one
SpawnRefused(a) ==
    /\ At(a, "spawn") /\ Happens("refuse")
    /\ LET s == <<at[a][1], at[a][3]>> IN
       /\ state' = [state EXCEPT ![s] = "Empty"]
       /\ live' = [live EXCEPT ![s[1]] = Less(@)]
       /\ at' = [at EXCEPT ![a][3] = @ + 1]
    /\ Go(a, "reserve")
    /\ UNCHANGED <<highest, parked, owed, places, runs, scene, dead, stopped, managed,
                   summons, job, todo, res>>

\* `ensure_floor`
EnsureFloor(a) ==
    /\ At(a, "floor")
    /\ IF stopped \/ live["work"] >= Floor
       THEN Back(a) /\ UNCHANGED at
       ELSE StartCall(a, "work", Target, "floored")
    /\ UNCHANGED <<state, counts, places, runs, scene, health, job, todo, res>>

Floored(a) ==
    /\ At(a, "floored")
    /\ IF res[a] THEN Go(a, "floor") ELSE Back(a)
    /\ Answer(a, FALSE)
    /\ UNCHANGED <<state, counts, places, runs, scene, health, job, todo, at>>

-----------------------------------------------------------------------------
(* `sweep_all`, `sweep_one`, `recover`, `recover_sleep`.                   *)

\* One of those who see a thread dead clears up after it
ClaimRecovery(a, s) ==
    /\ state' = [state EXCEPT ![s] = "Recovering"] /\ dead' = Less(dead)
    /\ at' = [at EXCEPT ![a] = <<s[1], 0, s[2]>>]

\* The slots are walked until none reads dead
Sweep(a) ==
    /\ At(a, "sweep")
    /\ LET fallen == {s \in Walked("work") \cup Walked("sleep") : state[s] = "Dead"} IN
       IF fallen = {} THEN Back(a) /\ UNCHANGED <<state, dead, at>>
       ELSE \E s \in fallen : ClaimRecovery(a, s) /\ Call(a, "recover", "sweep")
    /\ UNCHANGED <<counts, places, runs, scene, stopped, managed, summons, chance,
                   job, todo, res>>

\* What a worker leaves in its LIFO slot and its ring, less what somebody ran
\* already
Leftover(s) ==
    IF Kind(s) = "sleep" THEN <<>>
    ELSE SelectSeq(<<lifo[s]>> \o ring[s], LAMBDA t : t # NoTask /\ mark[t] = "local")

\* They go to the shared queue
HandBack(s) ==
    /\ queue' = Pushed("work", Leftover(s)) /\ mark' = Marked(Leftover(s), "shared")
    /\ IF Kind(s) = "sleep" THEN UNCHANGED <<ring, lifo, lifo_filled>>
       ELSE /\ ring' = [ring EXCEPT ![s] = <<>>] /\ lifo' = [lifo EXCEPT ![s] = NoTask]
            /\ lifo_filled' = lifo_filled - (IF lifo[s] = NoTask THEN 0 ELSE 1)

Noted(s) == {frames[s][i].task : i \in DOMAIN frames[s]}
Failed(S) == [t \in Tasks |-> IF t \in S /\ ~Settled(t) THEN "failed" ELSE st[t]]

Recover(a) ==
    /\ At(a, "recover")
    /\ LET s == <<at[a][1], at[a][3]>> IN
       /\ HandBack(s)
       /\ st' = Failed(Noted(s)) /\ frames' = [frames EXCEPT ![s] = <<>>]
       /\ state' = [state EXCEPT ![s] = "Empty"] /\ owed' = Add(owed, s[1], 1)
    /\ Back(a) /\ Leaves(a)
    /\ UNCHANGED <<live, highest, parked, scene, health, job, todo, res>>

\* `left` and `sleep_left`, after the slot is empty
Left(k) ==
    /\ owed[k] > 0
    /\ owed' = Add(owed, k, -1) /\ live' = [live EXCEPT ![k] = Less(@)]
    /\ UNCHANGED <<state, highest, parked, places, runs, scene, health, pc, args>>

-----------------------------------------------------------------------------
(* A thread's loop: `Worker::run`, `SleepThread::run`, `find_work`.        *)

Up(s) ==
    /\ At(s, "up")
    /\ state' = [state EXCEPT ![s] = IF @ = "Starting" THEN "Idle" ELSE @]
    /\ Go(s, "loop")
    /\ UNCHANGED <<counts, places, runs, scene, health, args>>

Loop(s) ==
    /\ At(s, "loop")
    /\ Go(s, CASE state[s] = "Stopping" -> "leave"
               [] Kind(s) = "sleep" -> "blocking"
               [] Backlog(s) = 0 -> "shared"
               [] OTHER -> "lifo")
    /\ Forget(s)
    /\ UNCHANGED <<state, counts, places, runs, scene, health>>

\* A claimed task is noted before anything else: held for the loop, or nested
\* inside the task a worker is helping from
Hold(s, t) == frames' = [frames EXCEPT ![s] = Append(@, [task |-> t, on |-> NoTask, counted |-> FALSE])]
Take(s, t) ==
    /\ Hold(s, t)
    /\ st' = IF frames[s] # <<>> /\ st[t] = "pending" THEN [st EXCEPT ![t] = "running"] ELSE st
    /\ Go(s, IF frames[s] = <<>> THEN "begin" ELSE "run")

\* Mutant: an entry is taken at its word, whoever ran the task meanwhile
LocalAnyway(t) == TRUE

\* `claim_queued(QUEUED_LOCAL)`
Local(t) == mark[t] = "local"

\* `take_lifo` on worker v: the slot is emptied and counted out, and its task
\* taken if nobody ran it already; if not, the search goes on at `next`
TakeLifo(w, v, next) ==
    LET t == lifo[v] IN
    /\ lifo' = [lifo EXCEPT ![v] = NoTask]
    /\ lifo_filled' = lifo_filled - (IF t = NoTask THEN 0 ELSE 1)
    /\ IF t # NoTask /\ Local(t)
       THEN Take(w, t) /\ mark' = [mark EXCEPT ![t] = "nowhere"]
       ELSE Go(w, next) /\ UNCHANGED <<frames, st, mark>>

\* Past its streak, a worker looks here only after everything else
FindLifo(w) ==
    /\ At(w, "lifo")
    /\ \/ TakeLifo(w, w, "ring")
       \/ Go(w, "ring") /\ UNCHANGED <<lifo, lifo_filled, frames, st, mark>>
    /\ UNCHANGED <<state, counts, queue, ring, scene, health, args>>

\* `Worker::pop`: an entry whose task was run already is stepped over
PopRing(w, next) ==
    /\ UNCHANGED <<lifo, lifo_filled>>
    /\ IF ring[w] = <<>> THEN Go(w, next) /\ UNCHANGED <<ring, frames, st, mark>>
       ELSE /\ ring' = [ring EXCEPT ![w] = Tail(@)]
            /\ IF Local(Head(ring[w]))
               THEN Take(w, Head(ring[w])) /\ mark' = [mark EXCEPT ![Head(ring[w])] = "nowhere"]
               ELSE UNCHANGED <<frames, st, mark, pc>>

FindRing(w) ==
    /\ At(w, "ring") /\ PopRing(w, "shared")
    /\ UNCHANGED <<state, counts, queue, scene, health, args>>

Lesser(m, n) == IF m < n THEN m ELSE n

Peers(w) == Walked("work") \ {w}
\* With nothing found, a worker inside a task goes back to its wait, one outside
\* looks for the dead and parks
Rest(w) == IF frames[w] = <<>> THEN "sweep_one" ELSE "run"

\* The ring is topped up with a share of what is queued.  A band another
\* thread is turning over is not waited for
FindShared(w) ==
    /\ At(w, "shared")
    /\ \/ /\ queue["work"] = <<>> \/ \E v \in SlotsOf("work") \ {w} : At(v, "shared")
          /\ Go(w, IF lifo[w] # NoTask THEN "lifo2" ELSE IF Peers(w) # {} THEN "steal" ELSE Rest(w))
          /\ Visit(w, Peers(w)) /\ UNCHANGED <<queue, ring, frames, st, mark>>
       \/ /\ queue["work"] # <<>>
          /\ LET t == Head(queue["work"])
                 rest == Tail(queue["work"])
                 share == Len(rest) \div (IF live["work"] = 0 THEN 1 ELSE live["work"])
                 room == Lesser(share - Backlog(w), Cap - Len(ring[w]))
                 extra == SubSeq(rest, 1, IF room < 0 THEN 0 ELSE room)
             IN  /\ queue' = [queue EXCEPT !["work"] = SubSeq(rest, Len(extra) + 1, Len(rest))]
                 /\ ring' = [ring EXCEPT ![w] = @ \o extra]
                 /\ mark' = [Marked(extra, "local") EXCEPT ![t] = "nowhere"]
                 /\ Take(w, t) /\ UNCHANGED todo
    /\ UNCHANGED <<state, counts, lifo, lifo_filled, scene, health, job, at, res>>

FindLifo2(w) ==
    /\ At(w, "lifo2")
    /\ TakeLifo(w, w, "steal") /\ Visit(w, Peers(w))
    /\ UNCHANGED <<state, counts, queue, ring, scene, health, job, at, res>>

\* Half a live peer's ring moves over, what does not fit going to the shared
\* queue; then its LIFO slot is tried
Steal(w) ==
    /\ At(w, "steal")
    /\ \/ /\ todo[w] = {}
          /\ Go(w, Rest(w))
          /\ UNCHANGED <<queue, ring, mark, todo, at>>
       \/ \E v \in todo[w] :
            IF ~alive(v)
            THEN Visit(w, todo[w] \ {v}) /\ UNCHANGED <<queue, ring, mark, pc, at>>
            ELSE LET n == Len(ring[v])
                     take == IF n = 1 THEN 1 ELSE n \div 2
                     fit == Lesser(take, Cap - Len(ring[w]))
                     over == SelectSeq(SubSeq(ring[v], fit + 1, take), Local)
                 IN  /\ ring' = [ring EXCEPT ![v] = SubSeq(@, take + 1, n),
                                             ![w] = @ \o SubSeq(ring[v], 1, fit)]
                     /\ queue' = Pushed("work", over) /\ mark' = Marked(over, "shared")
                     /\ at' = [at EXCEPT ![w] = <<v[1], 0, v[2]>>]
                     /\ Go(w, IF take > 0 THEN "stolen" ELSE "steal_lifo")
                     /\ Visit(w, todo[w] \ {v})
    /\ UNCHANGED <<state, counts, lifo, lifo_filled, runs, scene, health, job, res>>

Stolen(w) ==
    /\ At(w, "stolen") /\ PopRing(w, "steal_lifo")
    /\ UNCHANGED <<state, counts, queue, scene, health, args>>

StealLifo(w) ==
    /\ At(w, "steal_lifo") /\ TakeLifo(w, <<"work", at[w][3]>>, "steal")
    /\ UNCHANGED <<state, counts, queue, ring, scene, health, args>>

FindBlocking(s) ==
    /\ At(s, "blocking")
    /\ IF queue["sleep"] = <<>> THEN Go(s, "park") /\ UNCHANGED <<queue, mark, frames, st>>
       ELSE LET t == Head(queue["sleep"]) IN
            /\ queue' = [queue EXCEPT !["sleep"] = Tail(@)]
            /\ mark' = [mark EXCEPT ![t] = "nowhere"] /\ Take(s, t)
    /\ UNCHANGED <<state, counts, ring, lifo, lifo_filled, scene, health, args>>

\* Lost to a stop, the task goes back to its queue
Begin(s) ==
    /\ At(s, "begin")
    /\ LET t == frames[s][1].task IN
       IF state[s] = "Idle"
       THEN /\ state' = [state EXCEPT ![s] = "Running"]
            /\ st' = IF st[t] = "pending" THEN [st EXCEPT ![t] = "running"] ELSE st
            /\ Go(s, "run") /\ UNCHANGED <<queue, mark, frames>>
       ELSE /\ frames' = [frames EXCEPT ![s] = <<>>]
            /\ queue' = Pushed(Kind(s), <<t>>) /\ mark' = [mark EXCEPT ![t] = "shared"]
            /\ Go(s, "leave") /\ UNCHANGED <<state, st>>
    /\ UNCHANGED <<counts, ring, lifo, lifo_filled, scene, health, args>>

-----------------------------------------------------------------------------
(* Inside a task: it finishes, goes round again, spawns, or waits for what *)
(* it spawned (`wait_until`, `help`, `Patience`).                          *)

Top(s) == frames[s][Len(frames[s])]
Depth(s) == Len(frames[s]) - 1
PutDown(s) == frames' = [frames EXCEPT ![s] = SubSeq(@, 1, Len(@) - 1)]
SetTop(s, f) == frames' = [frames EXCEPT ![s][Len(frames[s])] = f]
AfterRun(s) == Go(s, IF Depth(s) = 0 THEN "end" ELSE "run")

Finish(s) ==
    /\ At(s, "run") /\ Top(s).on = NoTask
    /\ st' = [st EXCEPT ![Top(s).task] = IF @ = "running" THEN "done" ELSE @]
    /\ PutDown(s) /\ AfterRun(s)
    /\ UNCHANGED <<state, counts, places, scene, health, args>>

\* A repeat is queued again before the thread puts it down
Again(s) ==
    /\ At(s, "run") /\ Top(s).on = NoTask /\ st[Top(s).task] = "running"
    /\ Happens("rerun")
    /\ st' = [st EXCEPT ![Top(s).task] = "pending"]
    /\ job' = [job EXCEPT ![s] = Top(s).task] /\ Call(s, "submit", "requeued")
    /\ UNCHANGED <<state, counts, places, frames, scene, dead, stopped, managed, summons, todo, at, res>>

Requeued(s) ==
    /\ At(s, "requeued")
    /\ st' = IF res[s] THEN st ELSE Failed({job[s]})
    /\ PutDown(s) /\ AfterRun(s)
    /\ UNCHANGED <<state, counts, places, scene, health, args>>

SpawnChild(s, t) ==
    /\ At(s, "run") /\ Top(s).on = NoTask /\ st[Top(s).task] = "running" /\ st[t] = "new"
    /\ st' = [st EXCEPT ![t] = "pending"] /\ job' = [job EXCEPT ![s] = t]
    /\ SetTop(s, [Top(s) EXCEPT !.on = t])
    /\ Call(s, IF Kind(s) = "work" /\ t \notin scene.blocking THEN "local" ELSE "submit", "spawned")
    /\ UNCHANGED <<state, counts, places, scene, health, todo, at, res>>

\* A spawn nobody will come for settles now
Spawned(a) ==
    /\ At(a, "spawned")
    /\ st' = IF res[a] THEN st ELSE Failed({job[a]})
    /\ pc' = [pc EXCEPT ![a] = IF a = Caller THEN <<>> ELSE <<"run">>] /\ Forget(a)
    /\ UNCHANGED <<state, counts, places, frames, scene, health>>

\* A task waits on one somebody else spawned, never in a circle
Await(s, t) ==
    /\ At(s, "run") /\ Top(s).on = NoTask /\ st[Top(s).task] = "running"
    /\ t > Top(s).task /\ st[t] \in {"pending", "running"} /\ SetTop(s, [Top(s) EXCEPT !.on = t])
    /\ UNCHANGED <<state, counts, places, st, scene, health, pc, args>>

WaitOver(s) ==
    /\ At(s, "run") /\ Top(s).on # NoTask /\ Settled(Top(s).on)
    /\ SetTop(s, [Top(s) EXCEPT !.on = NoTask, !.counted = FALSE])
    /\ UNCHANGED <<state, counts, places, st, scene, health, pc, args>>

Waiting(w) == At(w, "run") /\ Kind(w) = "work" /\ Top(w).on # NoTask /\ ~Settled(Top(w).on)

\* The task waited on is run right here, if it is still in a local queue
RunAwaited(w) ==
    /\ Waiting(w) /\ Depth(w) < HelpDepth
    /\ LET t == Top(w).on IN
       /\ mark[t] = "local"
       /\ mark' = [mark EXCEPT ![t] = "nowhere"]
       /\ Hold(w, t) /\ st' = [st EXCEPT ![t] = IF @ = "pending" THEN "running" ELSE @]
    /\ UNCHANGED <<state, counts, queue, ring, lifo, lifo_filled, scene, health, pc, args>>

HasQueued == queue["work"] # <<>> \/ \E w \in Walked("work") : Backlog(w) > 0

\* `help_once`; a look that finds nothing changes nothing
HelpOnce(w) ==
    /\ Waiting(w) /\ Depth(w) < HelpDepth /\ HasQueued
    /\ IF Depth(w) < HelpDepth \div 2
       THEN Go(w, "lifo") /\ UNCHANGED <<lifo, lifo_filled, frames, st, mark>>
       ELSE lifo[w] # NoTask /\ TakeLifo(w, w, "run")
    /\ UNCHANGED <<state, counts, queue, ring, scene, health, args>>

Counted(w) == {i \in DOMAIN frames[w] : frames[w][i].counted}
\* `blocked`: waits too deep to take queued work
BlockedIn == {<<w, i>> \in SlotsOf("work") \X (1..(HelpDepth + 1)) :
                 pc[w] # <<>> /\ i \in Counted(w)}

\* `Patience::slice`: too deep to take queued work, so counted as blocked; once
\* every worker is, and work is queued, one is started to take it
Slice(w) ==
    /\ Waiting(w) /\ Depth(w) >= HelpDepth \div 2
    /\ SetTop(w, [Top(w) EXCEPT !.counted = TRUE])
    /\ IF Cardinality(BlockedIn) + (IF Top(w).counted THEN 0 ELSE 1) >= live["work"] /\ HasQueued
       THEN StartCall(w, "work", Ceiling, "run") /\ pc' = [pc EXCEPT ![w] = <<"start", "run">>]
       ELSE ~Top(w).counted /\ UNCHANGED <<pc, at>>
    /\ UNCHANGED <<state, counts, places, st, scene, health, job, todo, res>>

EndTask(s) ==
    /\ At(s, "end")
    /\ state' = [state EXCEPT ![s] = IF @ = "Running" THEN "Idle" ELSE @]
    /\ Go(s, "loop")
    /\ UNCHANGED <<counts, places, runs, scene, health, args>>

-----------------------------------------------------------------------------
(* Parking, leaving and dying.                                             *)

\* On its way to a park a worker looks at one slot of each kind
SweepOne(w) ==
    /\ At(w, "sweep_one")
    /\ \/ Go(w, "park") /\ UNCHANGED <<state, dead, at>>
       \/ \E s \in Walked("work") \cup Walked("sleep") :
            state[s] = "Dead" /\ ClaimRecovery(w, s) /\ Call(w, "recover", "park")
    /\ UNCHANGED <<counts, places, runs, scene, stopped, managed, summons, chance,
                   job, todo, res>>

\* Announced before the last look
Park(s) ==
    /\ At(s, "park")
    /\ parked' = Add(parked, Kind(s), 1) /\ Go(s, "parking")
    /\ UNCHANGED <<state, live, highest, owed, places, runs, scene, health, args>>

Parking(s) ==
    /\ At(s, "parking")
    /\ IF state[s] = "Idle"
       THEN state' = [state EXCEPT ![s] = "Parked"] /\ Go(s, "look") /\ UNCHANGED parked
       ELSE parked' = Add(parked, Kind(s), -1) /\ Go(s, "loop") /\ UNCHANGED state
    /\ UNCHANGED <<live, highest, owed, places, runs, scene, health, args>>

HasWork(s) ==
    IF Kind(s) = "sleep" THEN queue["sleep"] # <<>>
    ELSE queue["work"] # <<>> \/ Backlog(s) > 0 \/ lifo_filled > 0

Unparked(s) == [state EXCEPT ![s] = IF @ = "Parked" THEN "Idle" ELSE @]

\* Mutant: it sleeps without the last look
LookNot(s) ==
    /\ At(s, "look") /\ Go(s, "asleep")
    /\ UNCHANGED <<state, counts, places, runs, scene, health, args>>

\* The last look
Look(s) ==
    /\ At(s, "look")
    /\ IF HasWork(s)
       THEN state' = Unparked(s) /\ parked' = Add(parked, Kind(s), -1) /\ Go(s, "loop")
       ELSE Go(s, "asleep") /\ UNCHANGED <<state, parked>>
    /\ UNCHANGED <<live, highest, owed, places, runs, scene, health, args>>

Wakes(s) ==
    /\ At(s, "asleep")
    /\ parked' = Add(parked, Kind(s), -1) /\ Go(s, "awake")
    /\ UNCHANGED <<state, live, highest, owed, places, runs, scene, health, args>>

Awake(s) ==
    /\ At(s, "awake") /\ state' = Unparked(s) /\ Go(s, "loop")
    /\ UNCHANGED <<counts, places, runs, scene, health, args>>

\* `PoolThread::left`: what is left in its own queues goes to the shared one,
\* then the slot is given back
Leave(s) ==
    /\ At(s, "leave") /\ HandBack(s) /\ Go(s, "release")
    /\ UNCHANGED <<state, counts, runs, scene, health, args>>

Release(s) ==
    /\ At(s, "release")
    /\ state' = [state EXCEPT ![s] = "Empty"] /\ owed' = Add(owed, Kind(s), 1)
    /\ pc' = [pc EXCEPT ![s] = <<>>]
    /\ UNCHANGED <<live, highest, parked, places, runs, scene, health, args>>

\* The thread comes apart between tasks or inside one: counted first, then its
\* slot reads dead, then it sends for help, which may be refused
Die(s) ==
    /\ At(s, "loop") \/ At(s, "run")
    /\ Happens("death")
    /\ dead' = dead + 1
    /\ pc' = [pc EXCEPT ![s] = <<"dying">>]
    /\ UNCHANGED <<state, counts, places, runs, scene, stopped, managed, summons, args>>

Dying(s) ==
    /\ At(s, "dying")
    /\ state' = [state EXCEPT ![s] = "Dead"] /\ pc' = [pc EXCEPT ![s] = <<>>]
    /\ \/ summons' = summons + 1 /\ UNCHANGED chance
       \/ Happens("refuse") /\ UNCHANGED summons
    /\ UNCHANGED <<counts, places, runs, scene, dead, stopped, managed, args>>

\* The thread the dying one sent for, or a worker's wait that finds no manager:
\* `heal`
Summoned ==
    /\ pc[Healer] = <<>>
    /\ \/ summons > 0 /\ summons' = summons - 1
       \/ /\ ~managed /\ dead # 0 /\ \E w \in SlotsOf("work") : Waiting(w)
          /\ UNCHANGED summons
    /\ pc' = [pc EXCEPT ![Healer] = <<"sweep", "heal">>]
    /\ UNCHANGED <<state, counts, places, runs, scene, dead, stopped, managed, chance, args>>

Heal ==
    /\ At(Healer, "heal")
    /\ IF stopped THEN Back(Healer) ELSE Call(Healer, "floor", "heal_sleeps")
    /\ UNCHANGED <<state, counts, places, runs, scene, health, args>>

HealSleeps ==
    /\ At(Healer, "heal_sleeps")
    /\ IF queue["sleep"] = <<>> THEN Go(Healer, "stranded") /\ UNCHANGED at
       ELSE StartCall(Healer, "sleep", SleepTarget, "stranded")
    /\ UNCHANGED <<state, counts, places, runs, scene, health, job, todo, res>>

\* Nothing could be started and nobody is left to try again
Stranded(a) ==
    /\ At(a, "stranded")
    /\ IF live["work"] = 0 /\ ~managed THEN Go(a, "close") ELSE Back(a)
    /\ Forget(a)
    /\ UNCHANGED <<state, counts, places, runs, scene, health>>

-----------------------------------------------------------------------------
(* The manager's `tick`, and its supervisor giving up.                     *)

Tick ==
    /\ pc[Manager] = <<>> /\ managed /\ Happens("tick")
    /\ pc' = [pc EXCEPT ![Manager] = <<"sweep", "floor", "balance">>]
    /\ UNCHANGED <<state, counts, places, runs, scene, dead, stopped, managed, summons, args>>

SumBacklog(S, less) ==
    MapThenSumSet(LAMBDA w : IF Backlog(w) > less THEN Backlog(w) - less ELSE 0, S)

AliveWork == {w \in Walked("work") : alive(w)}

\* As many parked workers are woken as there is work to spare.  `job` holds what
\* is left to place
Balance ==
    /\ At(Manager, "balance")
    /\ LET spare == Len(queue["work"]) + SumBacklog(AliveWork, 1) IN
       IF parked["work"] = 0 \/ spare = 0
       THEN /\ Go(Manager, IF queue["sleep"] = <<>> THEN "grow" ELSE "wake_sleeps")
            /\ job' = [job EXCEPT ![Manager] = Len(queue["sleep"])] /\ UNCHANGED todo
       ELSE /\ Go(Manager, "balance_wake") /\ Visit(Manager, Walked("work"))
            /\ job' = [job EXCEPT ![Manager] = spare]
    /\ UNCHANGED <<state, counts, places, runs, scene, health, at, res>>

BalanceWake ==
    /\ At(Manager, "balance_wake")
    /\ IF todo[Manager] = {} \/ job[Manager] = 0
       THEN /\ Go(Manager, IF queue["sleep"] = <<>> THEN "grow" ELSE "wake_sleeps") /\ Visit(Manager, {})
            /\ job' = [job EXCEPT ![Manager] = Len(queue["sleep"])] /\ UNCHANGED state
       ELSE LET w == CHOOSE w \in todo[Manager] : \A v \in todo[Manager] : w[2] <= v[2] IN
            /\ Visit(Manager, todo[Manager] \ {w})
            /\ IF state[w] = "Parked"
               THEN state' = [state EXCEPT ![w] = "Idle"] /\ job' = [job EXCEPT ![Manager] = @ - 1]
               ELSE UNCHANGED <<state, job>>
            /\ UNCHANGED pc
    /\ UNCHANGED <<counts, places, runs, scene, health, at, res>>

\* `balance_blocking`: parked sleep threads first, new ones up to the target,
\* and past it only when every one of them is in a task
WakeSleeps ==
    /\ At(Manager, "wake_sleeps")
    /\ IF job[Manager] > 0 /\ parked["sleep"] # 0
       THEN Visit(Manager, Walked("sleep")) /\ Call(Manager, "wake", "woken")
       ELSE Go(Manager, "start_sleeps") /\ UNCHANGED todo
    /\ UNCHANGED <<state, counts, places, runs, scene, health, job, at, res>>

Woken ==
    /\ At(Manager, "woken")
    /\ IF res[Manager] THEN job' = [job EXCEPT ![Manager] = @ - 1] /\ Go(Manager, "wake_sleeps")
       ELSE Go(Manager, "start_sleeps") /\ UNCHANGED job
    /\ UNCHANGED <<state, counts, places, runs, scene, health, todo, at, res>>

StartSleeps ==
    /\ At(Manager, "start_sleeps")
    /\ IF job[Manager] > 0 THEN StartCall(Manager, "sleep", SleepTarget, "started")
       ELSE Go(Manager, "over_sleeps") /\ UNCHANGED at
    /\ UNCHANGED <<state, counts, places, runs, scene, health, job, todo, res>>

Started ==
    /\ At(Manager, "started")
    /\ IF res[Manager] THEN job' = [job EXCEPT ![Manager] = @ - 1] /\ Go(Manager, "start_sleeps")
       ELSE Go(Manager, "over_sleeps") /\ UNCHANGED job
    /\ UNCHANGED <<state, counts, places, runs, scene, health, todo, at, res>>

\* Whether it has lasted long enough to earn a thread, or several, is a choice
OverSleeps ==
    /\ At(Manager, "over_sleeps")
    /\ LET aliveSleeps == {s \in Walked("sleep") : alive(s)} IN
       \/ /\ job[Manager] > 0 /\ live["sleep"] >= SleepTarget
          /\ \A s \in aliveSleeps : state[s] = "Running"
          /\ \E more \in {"over_sleeps", "grow"} : StartCall(Manager, "sleep", Ceiling, more)
       \/ Go(Manager, "grow") /\ UNCHANGED at
    /\ UNCHANGED <<state, counts, places, runs, scene, health, job, todo, res>>

\* Work waits, nobody free is there to take it and somebody is stuck: below the
\* target, or with stuck workers in the kernel making up the difference (which
\* may start several), or with every worker stuck
Grow ==
    /\ At(Manager, "grow")
    /\ LET pending == Len(queue["work"]) + SumBacklog(AliveWork, 0)
           busy == {w \in AliveWork : state[w] = "Running"}
           idle == \E w \in AliveWork : state[w] \in {"Starting", "Idle", "Parked"} /\ Backlog(w) = 0
       IN  \/ /\ live["work"] < Ceiling /\ pending > 0 /\ ~idle /\ busy # {}
              /\ \/ live["work"] - Cardinality(busy) < Target
                 \/ live["work"] < Target
                 \/ busy = AliveWork
              /\ \E more \in {"grow", "reap"} : StartCall(Manager, "work", Ceiling, more)
           \/ Go(Manager, "reap") /\ UNCHANGED at
    /\ UNCHANGED <<state, counts, places, runs, scene, health, job, todo, res>>

\* `reap` and `reap_sleeps` pick a thread that has been parked long enough
Reap ==
    /\ At(Manager, "reap")
    /\ \/ \E s \in Threads :
            /\ state[s] = "Parked" /\ Happens("reap")
            /\ IF Kind(s) = "work" THEN Backlog(s) = 0 /\ live["work"] > Floor
               ELSE queue["sleep"] = <<>>
            /\ at' = [at EXCEPT ![Manager] = <<s[1], 0, s[2]>>]
            /\ Go(Manager, "reap_stop")
            /\ UNCHANGED <<job, todo, res>>
       \/ Back(Manager) /\ Forget(Manager) /\ UNCHANGED chance
    /\ UNCHANGED <<state, counts, places, runs, scene, dead, stopped, managed, summons>>

\* `ThreadSlot::stop`, of any state with a thread behind it
StopOf(s) == IF alive(s) THEN "Stopping" ELSE state[s]

ReapStop ==
    /\ At(Manager, "reap_stop")
    /\ LET s == <<at[Manager][1], at[Manager][3]>> IN state' = [state EXCEPT ![s] = StopOf(s)]
    /\ Back(Manager) /\ Forget(Manager)
    /\ UNCHANGED <<counts, places, runs, scene, health>>

\* `shutdown`: no manager from here.  The pool carries on if it can
GiveUp ==
    /\ pc[Manager] = <<>> /\ managed /\ Happens("give_up")
    /\ managed' = FALSE
    /\ pc' = [pc EXCEPT ![Manager] = <<"sweep", "floor", "stranded">>]
    /\ UNCHANGED <<state, counts, places, runs, scene, dead, stopped, summons, args>>

-----------------------------------------------------------------------------
(* `write_off_pool` and `shutdown_now`.                                    *)

Close(a) ==
    /\ At(a, "close")
    /\ stopped' = TRUE
    /\ Call(a, "sweep", "drain")
    /\ UNCHANGED <<state, counts, places, runs, scene, dead, managed, summons, chance, args>>

Drain(a) ==
    /\ At(a, "drain")
    /\ LET ts == ToSet(queue["work"]) \cup ToSet(queue["sleep"]) IN
       /\ queue' = [k \in Kinds |-> <<>>]
       /\ mark' = [t \in Tasks |-> IF t \in ts THEN "nowhere" ELSE mark[t]]
       /\ st' = Failed(ts)
    /\ Go(a, "walk")
    /\ UNCHANGED <<state, counts, ring, lifo, lifo_filled, frames, scene, health, args>>

\* The task table is walked: what is running ends by itself
Walk(a) ==
    /\ At(a, "walk")
    /\ st' = Failed({t \in Tasks : st[t] = "pending"})
    /\ IF a = Stopper THEN Go(a, "over") ELSE Back(a)
    /\ UNCHANGED <<state, counts, places, frames, scene, health, args>>

Shutdown ==
    /\ pc[Stopper] = <<>> /\ Happens("stop")
    /\ stopped' = TRUE /\ managed' = FALSE
    /\ pc' = [pc EXCEPT ![Stopper] = <<"join">>]
    /\ UNCHANGED <<state, counts, places, runs, scene, dead, summons, args>>

HasAnyTask ==
    \/ \E k \in Kinds : queue[k] # <<>> \/ \E s \in Walked(k) : state[s] = "Running"
    \/ \E w \in AliveWork : Backlog(w) > 0

\* The supervisor is joined, then everything queued is waited for
Join ==
    /\ At(Stopper, "join") /\ pc[Manager] = <<>> /\ ~HasAnyTask
    /\ Go(Stopper, "stop_all") /\ Visit(Stopper, Walked("work") \cup Walked("sleep"))
    /\ UNCHANGED <<state, counts, places, runs, scene, health, job, at, res>>

StopAll ==
    /\ At(Stopper, "stop_all")
    /\ IF todo[Stopper] = {} THEN Call(Stopper, "sweep", "all_gone") /\ UNCHANGED <<state, todo>>
       ELSE \E s \in todo[Stopper] :
              /\ Visit(Stopper, todo[Stopper] \ {s})
              /\ state' = [state EXCEPT ![s] = StopOf(s)] /\ UNCHANGED pc
    /\ UNCHANGED <<counts, places, runs, scene, health, job, at, res>>

\* Asked again every time round, until no thread is counted
AllGone ==
    /\ At(Stopper, "all_gone")
    /\ IF live["work"] = 0 /\ live["sleep"] = 0 THEN Go(Stopper, "drain") /\ UNCHANGED todo
       ELSE Go(Stopper, "stop_all") /\ Visit(Stopper, Walked("work") \cup Walked("sleep"))
    /\ UNCHANGED <<state, counts, places, runs, scene, health, job, at, res>>

\* A task is spawned from outside
SpawnTask(t) ==
    /\ pc[Caller] = <<>> /\ st[t] = "new" /\ \A u \in Tasks : u < t => st[u] # "new"
    /\ st' = [st EXCEPT ![t] = "pending"] /\ job' = [job EXCEPT ![Caller] = t]
    /\ pc' = [pc EXCEPT ![Caller] = <<"submit", "spawned">>]
    /\ UNCHANGED <<state, counts, places, frames, scene, health, todo, at, res>>

SubmitStep(a) ==
    \/ Submit(a) \/ Room(a) \/ Room2(a) \/ Push(a) \/ Rouse(a) \/ Roused(a) \/ Queued(a)
    \/ Wake(a) \/ Spawned(a)
StartStep(a) == Start(a) \/ Reserve(a) \/ Claim(a) \/ Spawn(a) \/ EnsureFloor(a) \/ Floored(a)
ClearStep(a) == Sweep(a) \/ Recover(a) \/ Stranded(a) \/ Close(a) \/ Drain(a) \/ Walk(a)
FindStep(w) ==
    \/ SubmitLocal(w) \/ Filled(w) \/ FindLifo(w) \/ FindRing(w) \/ FindShared(w) \/ FindLifo2(w)
    \/ Steal(w) \/ Stolen(w) \/ StealLifo(w) \/ SweepOne(w)
    \/ RunAwaited(w) \/ HelpOnce(w) \/ Slice(w)
ThreadStep(s) ==
    \/ Up(s) \/ Loop(s) \/ Begin(s) \/ Finish(s) \/ Again(s) \/ Requeued(s) \/ WaitOver(s)
    \/ EndTask(s) \/ Park(s) \/ Parking(s) \/ Look(s) \/ Leave(s) \/ Release(s) \/ Dying(s)
    \/ Awake(s) \/ \E t \in Tasks : SpawnChild(s, t) \/ Await(s, t)
ManagerStep ==
    \/ Balance \/ BalanceWake \/ WakeSleeps \/ Woken \/ StartSleeps \/ Started \/ OverSleeps
    \/ Grow \/ Reap \/ ReapStop

Next ==
    \/ \E t \in Tasks : SpawnTask(t)
    \/ \E a \in Actors : SubmitStep(a) \/ StartStep(a) \/ SpawnRefused(a) \/ ClearStep(a)
    \/ \E w \in SlotsOf("work") : FindStep(w)
    \/ \E s \in Threads : ThreadStep(s) \/ FindBlocking(s) \/ Wakes(s) \/ Die(s)
    \/ \E k \in Kinds : Left(k)
    \/ Tick \/ ManagerStep \/ GiveUp
    \/ Summoned \/ Heal \/ HealSleeps
    \/ Shutdown \/ Join \/ StopAll \/ AllGone

Spec == Init /\ [][Next]_vars

-----------------------------------------------------------------------------
(* Properties.                                                             *)

AtAny(a, S) == pc[a] # <<>> /\ Head(pc[a]) \in S

\* The counts the pool decides by are exact at every step: a slot is counted
\* from before it is claimed until after it is given back, whoever gives it back,
\* never past the ceiling, and a thread is counted parked from before its last
\* look until it is awake (worker_pool.rs `start_one`, `left`; thread_slot.rs
\* `park`)
CountsHold ==
    \A k \in Kinds :
        /\ live[k] = Cardinality({s \in SlotsOf(k) : state[s] # "Empty"}) + owed[k]
                        + Cardinality({a \in Actors : At(a, "claim") /\ at[a][1] = k})
        /\ live[k] <= Ceiling
        /\ parked[k] = Cardinality({s \in SlotsOf(k) : AtAny(s, {"parking", "look", "asleep"})})

\* Threads that are inside task t and have not handed it on
Holders(t) ==
    {<<s, i>> \in Threads \X (1..(HelpDepth + 1)) :
        /\ i \in DOMAIN frames[s] /\ frames[s][i].task = t
        /\ ~("requeued" \in ToSet(pc[s]) /\ i = Len(frames[s]))}

\* Where task t can be taken from, once for each take
Entries(t) ==
    Len(SelectSeq(queue["work"] \o queue["sleep"], LAMBDA u : u = t))
        + (IF mark[t] = "local" THEN 1 ELSE 0)

\* Actors on their way to queue t, or to settle it because they could not
Handing(t) ==
    {a \in Actors : /\ job[a] = t
                    /\ \/ ToSet(pc[a]) \cap {"submit", "local", "room", "room2", "push"} # {}
                       \/ AtAny(a, {"spawned", "requeued"}) /\ ~res[a]}

\* A spawned task that has not settled is in exactly one place: with one thread,
\* in one queue or on its way to one, however it was stolen, helped with, handed
\* back by a stop or recovered, so it is neither run twice nor lost; and its
\* local mark has an entry behind it (worker.rs `pop`, `steal_into`, `recover`,
\* `left`; help.rs `run_awaited`)
OnePlace ==
    \A t \in Tasks :
        /\ LET places_of == Cardinality(Holders(t)) + Entries(t) + Cardinality(Handing(t))
           IN  IF st[t] = "new" \/ Settled(t) THEN places_of <= 1 ELSE places_of = 1
        /\ mark[t] = "local" => \E w \in SlotsOf("work") : lifo[w] = t \/ t \in ToSet(ring[w])

\* Threads and tasks are each accounted for at every step
PoolInv == CountsHold /\ OnePlace

\* A worker in a wait inside a task, with nothing it could do meanwhile
Stuck(w) == Waiting(w) /\ ~ENABLED (RunAwaited(w) \/ HelpOnce(w) \/ Slice(w))

\* Nobody is half way through anything that could still find, wake or start
Resting ==
    /\ \A a \in {Caller, Healer, Manager, Stopper} : pc[a] = <<>>
    /\ summons = 0
    /\ \A s \in Threads :
        \/ pc[s] = <<>> /\ state[s] # "Dead"
        \/ At(s, "asleep") /\ state[s] = "Parked"
        \/ Kind(s) = "work" /\ Stuck(s)

\* When everybody sleeps or waits nothing is lost: a task not settled is in a
\* shared queue, where any thread finds it, and there is such a task only if a
\* thread was stopped or died, or the ceiling's worth of workers wait inside
\* tasks (thread_slot.rs `park`, worker_pool.rs `submit`, `submit_local`,
\* `offload`, help.rs `Patience::slice`)
NoneAsleep ==
    Resting => \A t \in Tasks :
        \/ st[t] \in {"new", "running"} \/ Settled(t)
        \/ /\ t \in ToSet(queue["work"] \o queue["sleep"])
           /\ \/ \E c \in {"reap", "death", "stop"} : chance[c] = "was"
              \/ Cardinality({w \in SlotsOf("work") : Stuck(w)}) = Ceiling

\* A shutdown that returned left no task waiting for a thread, save one a caller
\* is still failing; it would wait for ever (executor.rs `shutdown_now`)
StoppedSettled ==
    At(Stopper, "over") => \A t \in Tasks : st[t] = "pending" => Handing(t) # {}

\* No task waits for a thread that will not come, at rest or once the pool has stopped
NoneSleptThrough == NoneAsleep /\ StoppedSettled

\* What the comment on `shutdown_now` says: it "blocks until the pool is empty and
\* every thread it started has gone"
StoppedEmpty == At(Stopper, "over") => \A s \in Threads : state[s] = "Empty"

=============================================================================
