---------------------------- MODULE SeriesProofs ----------------------------
(***************************************************************************)
(* A schedule is off the clock before its slot is given back, no run works *)
(* in a slot that was, and its last output reaches what it was forwarded   *)
(* to (SeriesLetsGo), for any count of runs, any deadlines, timeouts and   *)
(* panics, and any deaths of the manager.                                  *)
(***************************************************************************)
EXTENDS Series, FiniteSetTheorems, TLAPS

\* As in ParksProofs: tlapm goes on without inferring types
LEMMA Untyped == CASE TRUE -> TRUE
BY ZenonT(30)

USE Untyped

-----------------------------------------------------------------------------
(* The invariant of a schedule.                                            *)

\* Where the manager is while a tick is under way, and once the clock is off
Ticking == {"clock", "bounds", "launch", "count", "end", "unschedule"}
Letting == {"finish", "close_finished", "judge", "fail", "close_extras", "give_back"}

SpawnerAt == {"spawn", "arm", "disarm", "lost", "launch", "count", "clock", "finish", "close_finished",
              "give_back", "done"}
ManagerAt == Ticking \cup Letting \cup
             {"listen", "fetched", "handle", "stop_series", "dead", "recover", "recover_park", "recover_wait",
              "give_up", "orphan", "out"}
Sweeping == {"drain", "sweep", "judge", "fail", "close_extras", "give_back", "stopped"}
CloserAt == Sweeping \cup {"idle", "close", "swap", "join"}

Runs == [at : {"queued", "working", "writing", "again", "close", "drop", "over"}, late : BOOLEAN]
Timers == {"none", "wait", "clock"}
Queues == [watch : {FALSE}, timer : Timers, tout : {0}]
Batches == {<<>>, <<[what |-> "wait", word |-> 0]>>, <<[what |-> "clock", word |-> 0]>>}

\* No task is in the slot, so no thread of the pool comes to it, and all there can be
\* on the manager's queue is the delay or the clock
Places ==
    /\ DOMAIN pc = Actors /\ \A w \in Workers : pc[w] = "idle"
    /\ pc["spawner"] \in SpawnerAt /\ pc["manager"] \in ManagerAt
    /\ pc["canceller"] \in {"idle", "unpark", "done"} /\ pc["closer"] \in CloserAt
    /\ ~parked /\ pool = 0 /\ word = 0
    /\ kq \in Queues /\ batch \in Batches /\ run \in Seq(Runs)
    /\ series \in {"delayed", "going", "finished"} /\ alive \in {"up", "down", "closed"}

\* Until the spawner is through there is nothing on the queue, so the manager has
\* nothing to tick for and nothing to die of
Before ==
    pc["spawner"] # "done" =>
        /\ kq = NoEvents /\ batch = <<>> /\ pc["manager"] \in {"listen", "stop_series", "handle", "out"}
        /\ pc["spawner"] \notin {"arm", "disarm"} => ~armed

\* How the manager and the runtime end
Ends ==
    /\ pc["closer"] \in Sweeping => alive = "closed" /\ pc["manager"] = "out"
    /\ pc["manager"] = "orphan" => alive = "closed"
    /\ pc["manager"] = "give_up" => alive # "up"
    /\ alive = "closed" => pc["manager"] \in {"out", "orphan", "judge", "fail", "close_extras", "give_back"}

\* The clock is off before the reference goes, and nothing puts it on again
Off ==
    /\ alive = "up" /\ ~held =>
         /\ kq.timer = "none" /\ ~armed /\ batch = <<>>
         /\ pc["spawner"] = "done" /\ pc["manager"] \notin Ticking \cup Letting
    /\ alive = "up" /\ pc["manager"] \in Letting => kq.timer = "none"
    /\ alive # "closed" /\ pc["manager"] \in Ticking \cup Letting => ~armed /\ batch = <<>>

\* A run has its claim until it is over
Claimed == \A k \in DOMAIN run : run[k].at # "over" => k \in pins

\* Whoever made the state Running is writing
Written == st = "running" => \E k \in DOMAIN run : run[k].at = "writing"

\* What is forwarded from a finished schedule is closed, or somebody is about to
\* close it: who finished it, or the run whose output came after
Closing ==
    series = "finished" /\ extras /\ st = "ready" =>
        \/ pc["spawner"] = "close_finished" \/ pc["manager"] = "close_finished"
        \/ \E k \in DOMAIN run : run[k].at = "close"

\* A schedule is given back finished, or closed, or never having started
Finished ==
    /\ pc["spawner"] \in {"close_finished", "give_back"} => series = "finished"
    /\ pc["manager"] = "close_finished" => series = "finished"
    /\ pc["manager"] = "give_back" /\ extras => series = "finished"
    /\ pc["closer"] = "give_back" => ~extras
    /\ ~held /\ extras =>
         /\ pc["spawner"] = "done" /\ pc["manager"] \notin Ticking \cup {"finish", "close_finished"}
         /\ series = "finished" \/ (kq.timer = "none" /\ ~armed /\ batch = <<>>)

SeriesInv == Places /\ Before /\ Ends /\ Off /\ Claimed /\ Written /\ Closing /\ Finished

-----------------------------------------------------------------------------
(* One actor moves.                                                        *)

\* The named actors are not threads of the pool
LEMMA Cast ==
    /\ {"manager", "spawner", "canceller", "closer"} \subseteq Actors /\ Workers \subseteq Actors
    /\ "manager" \notin Workers /\ "spawner" \notin Workers /\ "canceller" \notin Workers /\ "closer" \notin Workers
BY ParksAssumption DEF Actors

\* Whoever moves, the others stay where they are
LEMMA GoStays ==
    ASSUME DOMAIN pc = Actors, \A w \in Workers : pc[w] = "idle",
           NEW a \in {"manager", "spawner", "canceller", "closer"}, NEW p, Go(a, p)
    PROVE  /\ DOMAIN pc' = Actors /\ (\A w \in Workers : pc'[w] = "idle") /\ pc'[a] = p
           /\ \A b \in {"manager", "spawner", "canceller", "closer"} : b # a => pc'[b] = pc[b]
BY Cast DEF Go

\* What a registration and its removal leave on the queue
LEMMA QueueSet ==
    /\ NoEvents \in Queues /\ NoEvents.timer = "none"
    /\ \A q \in Queues, v \in Timers :
         [q EXCEPT !["timer"] = v] \in Queues /\ [q EXCEPT !["timer"] = v].timer = v
<1>1. NoEvents \in Queues /\ NoEvents.timer = "none"
  BY DEF NoEvents, Queues, Timers
<1>2. ASSUME NEW q \in Queues, NEW v \in Timers
      PROVE  [q EXCEPT !["timer"] = v] \in Queues /\ [q EXCEPT !["timer"] = v].timer = v
  BY <1>2, ZenonT(30) DEF Queues
<1> QED  BY <1>1, <1>2, ZenonT(30)

\* Taking what is not there off the queue
LEMMA QueueOff ==
    ASSUME kq = NoEvents, Unregister("timer", "none") \/ UNCHANGED kq PROVE kq' = NoEvents
BY DEF Unregister, NoEvents

\* A step that starts no run and publishes nothing
Still == UNCHANGED <<run, pins, st, series, extras>>

LEMMA StillKeeps ==
    ASSUME Claimed, Written, Closing, Still,
           \A a \in {"manager", "spawner"} : pc[a] = "close_finished" => pc'[a] = "close_finished"
    PROVE  Claimed' /\ Written' /\ Closing'
BY DEF Claimed, Written, Closing, Still

-----------------------------------------------------------------------------
(* The steps of Parks that a schedule takes.                               *)

\* cancel, the drop of the handle, and what a shutdown does before it sweeps
LEMMA StopKept ==
    ASSUME SeriesInv,
           Cancel \/ Unpark("canceller") \/ DropHandle \/ StopRuntime \/ ClosePool \/ SwapManager \/ Join \/ Stopped,
           UNCHANGED seriesVars
    PROVE  SeriesInv'
<1> USE DEF slotVars, queueVars, seriesVars
<1>1. /\ ~parked' /\ UNCHANGED <<run, pins, series, extras, pool, word, batch, armed, held>>
      /\ st' \in {st, "cancelled"}
      /\ alive' \in {alive, "down", "closed"} /\ (alive' = "up" => alive = "up")
      /\ alive = "closed" => alive' = "closed"
      /\ UNCHANGED kq \/ kq' = NoEvents
      /\ alive' = "closed" => alive = "closed" \/ pc["manager"] = "out"
      /\ DOMAIN pc' = Actors /\ (\A w \in Workers : pc'[w] = "idle")
      /\ pc'["manager"] = pc["manager"] /\ pc'["spawner"] = pc["spawner"]
      /\ pc'["canceller"] \in {"idle", "unpark", "done"}
      /\ pc'["closer"] \in {"close", "swap", "join", "drain", pc["closer"]}
      /\ pc'["closer"] = "drain" => alive' = "closed" /\ pc["manager"] = "out"
  <2>1. /\ DOMAIN pc = Actors /\ \A w \in Workers : pc[w] = "idle"
        /\ ~parked /\ pc["canceller"] \in {"idle", "unpark", "done"}
        /\ pc["closer"] \in Sweeping => alive = "closed" /\ pc["manager"] = "out"
    BY DEF SeriesInv, Places, Ends
  <2>2. CASE Cancel
    BY <2>1, <2>2, GoStays DEF Cancel, Sweeping
  <2>3. CASE Unpark("canceller")
    <3>1. Go("canceller", "done") /\ ~parked' /\ UNCHANGED <<st, armed, word, held, pins, extras>> /\ UNCHANGED queueVars
      BY <2>1, <2>3, Cast DEF Unpark, Onward
    <3> QED  BY <2>1, <3>1, GoStays DEF Sweeping
  <2>4. CASE DropHandle \/ Stopped
    BY <2>1, <2>4 DEF DropHandle, Stopped, Sweeping
  <2>5. CASE StopRuntime \/ ClosePool
    BY <2>1, <2>5, GoStays DEF StopRuntime, ClosePool
  <2>6. CASE SwapManager
    BY <2>1, <2>6, GoStays DEF SwapManager
  <2>7. CASE Join
    BY <2>1, <2>7, GoStays DEF Join
  <2> QED  BY <2>2, <2>3, <2>4, <2>5, <2>6, <2>7
<1>2. Places'
  <2>1. kq' \in Queues
    BY <1>1, QueueSet, ZenonT(30) DEF SeriesInv, Places
  <2>2. pc'["closer"] \in CloserAt /\ alive' \in {"up", "down", "closed"}
    BY <1>1 DEF SeriesInv, Places, CloserAt, Sweeping
  <2> QED  BY <1>1, <2>1, <2>2, ZenonT(30) DEF SeriesInv, Places
<1>3. Before' /\ Ends'
  BY <1>1 DEF SeriesInv, Before, Ends, Sweeping
<1>4. Off'
  BY <1>1 DEF SeriesInv, Off, NoEvents
<1>5. Claimed' /\ Written' /\ Closing'
  BY <1>1 DEF SeriesInv, Claimed, Written, Closing
<1>6. Finished'
  BY <1>1 DEF SeriesInv, Finished, NoEvents
<1> QED  BY <1>2, <1>3, <1>4, <1>5, <1>6 DEF SeriesInv

-----------------------------------------------------------------------------
(* The runs.                                                               *)

\* One more run, with its claim
LEMMA RunStarts ==
    ASSUME run \in Seq(Runs), Claimed, Written, Closing, UNCHANGED <<st, series, extras>>,
           \A a \in {"manager", "spawner"} : pc[a] = "close_finished" => pc'[a] = "close_finished",
           run' = Append(run, [at |-> "queued", late |-> FALSE]), pins' = pins \cup {Len(run) + 1}
    PROVE  run' \in Seq(Runs) /\ Claimed' /\ Written' /\ Closing'
<1>1. run' \in Seq(Runs)
  <2>1. [at |-> "queued", late |-> FALSE] \in Runs
    BY DEF Runs
  <2> QED  BY <2>1
<1>2. /\ DOMAIN run = 1..Len(run) /\ DOMAIN run' = 1..(Len(run) + 1) /\ Len(run) \in Nat
      /\ \A k \in DOMAIN run : k \in DOMAIN run' /\ run'[k] = run[k]
      /\ \A k \in DOMAIN run' : k \in DOMAIN run \/ k = Len(run) + 1
  OBVIOUS
<1>3. Claimed'
  BY <1>2 DEF Claimed
<1>4. Written' /\ Closing'
  BY <1>2 DEF Written, Closing
<1> QED  BY <1>1, <1>3, <1>4

\* A run moves on
LEMMA RunMoves ==
    ASSUME run \in Seq(Runs), NEW k \in DOMAIN run, NEW p, At(k, p),
           p \in {"queued", "working", "writing", "again", "close", "drop", "over"}
    PROVE  /\ run' \in Seq(Runs) /\ DOMAIN run' = DOMAIN run /\ run'[k].at = p
           /\ \A j \in DOMAIN run : j # k => run'[j] = run[j]
<1>1. run[k] \in Runs /\ DOMAIN run = 1..Len(run) /\ Len(run) \in Nat
  OBVIOUS
<1>2. [run[k] EXCEPT !.at = p] \in Runs /\ [run[k] EXCEPT !.at = p].at = p
  BY <1>1 DEF Runs
<1>3. run' = [run EXCEPT ![k] = [run[k] EXCEPT !.at = p]]
  BY DEF At
<1>4. run' \in Seq(Runs)
  BY <1>1, <1>2, <1>3
<1> QED  BY <1>1, <1>2, <1>3, <1>4, ZenonT(30)

-----------------------------------------------------------------------------
(* The spawner.                                                            *)

\* What holds while it is at work
LEMMA SpawnerSees ==
    ASSUME SeriesInv, pc["spawner"] # "done"
    PROVE  /\ DOMAIN pc = Actors /\ (\A w \in Workers : pc[w] = "idle")
           /\ kq = NoEvents /\ batch = <<>> /\ pc["manager"] \in {"listen", "stop_series", "handle", "out"}
           /\ pc["spawner"] \notin {"arm", "disarm"} => ~armed
           /\ alive = "up" => held
           /\ extras => held
           /\ alive \in {"up", "down", "closed"}
BY DEF SeriesInv, Places, Before, Off, Finished

\* It moves on, with or without something on the queue
LEMMA SpawnerKeeps ==
    ASSUME SeriesInv, pc["spawner"] # "done", NEW p \in SpawnerAt, Go("spawner", p),
           ~parked', UNCHANGED <<pool, word, batch, alive, held>>,
           kq' \in Queues, p # "done" => kq' = NoEvents,
           p \notin {"arm", "disarm", "done"} => ~armed',
           run' \in Seq(Runs), series' \in {"delayed", "going", "finished"},
           p \in {"close_finished", "give_back"} => series' = "finished",
           extras' => extras, Claimed', Written', Closing'
    PROVE  SeriesInv'
<1>1. /\ DOMAIN pc' = Actors /\ (\A w \in Workers : pc'[w] = "idle") /\ pc'["spawner"] = p
      /\ pc'["manager"] = pc["manager"] /\ pc'["canceller"] = pc["canceller"] /\ pc'["closer"] = pc["closer"]
  BY SpawnerSees, GoStays
<1>2. Places'
  BY <1>1 DEF SeriesInv, Places
<1>3. Before' /\ Ends'
  BY <1>1, SpawnerSees DEF SeriesInv, Before, Ends
<1>4. Off'
  BY <1>1, SpawnerSees DEF Off, Ticking, Letting
<1>5. Finished'
  BY <1>1, SpawnerSees DEF SeriesInv, Finished
<1> QED  BY <1>2, <1>3, <1>4, <1>5 DEF SeriesInv

\* It gives the reference back, and is through
LEMMA SpawnerEnds ==
    ASSUME SeriesInv, LostSeries \/ GiveBack("spawner")
    PROVE  SeriesInv'
<1> USE DEF slotVars, seriesVars, Others
<1>1. /\ pc["spawner"] \in {"lost", "give_back"} /\ Go("spawner", "done")
      /\ UNCHANGED <<run, pins, series, extras, parked, pool, word, batch, armed, alive>>
      /\ st' \in {st, "failed"} /\ held' = FALSE
  BY DEF LostSeries, GiveBack
<1>2. kq' = NoEvents
  BY <1>1, SpawnerSees, QueueOff DEF LostSeries, GiveBack
<1>3. /\ DOMAIN pc' = Actors /\ (\A w \in Workers : pc'[w] = "idle") /\ pc'["spawner"] = "done"
      /\ pc'["manager"] = pc["manager"] /\ pc'["canceller"] = pc["canceller"] /\ pc'["closer"] = pc["closer"]
  BY <1>1, SpawnerSees, GoStays
<1>4. Places'
  BY <1>1, <1>2, <1>3, QueueSet DEF SeriesInv, Places, SpawnerAt
<1>5. Before' /\ Ends'
  BY <1>1, <1>3 DEF SeriesInv, Before, Ends
<1>6. Off'
  BY <1>1, <1>2, <1>3, SpawnerSees, QueueSet DEF Off, Ticking, Letting
<1>7. Claimed' /\ Written' /\ Closing'
  BY <1>1, <1>3 DEF SeriesInv, Claimed, Written, Closing
<1>8. Finished'
  BY <1>1, <1>2, <1>3, SpawnerSees, QueueSet DEF SeriesInv, Finished, Ticking
<1> QED  BY <1>4, <1>5, <1>6, <1>7, <1>8 DEF SeriesInv

\* spawn, arm, launch, count_run, schedule and the end of a schedule of one run
LEMMA SpawnerKept ==
    ASSUME SeriesInv,
           \/ SpawnSeries \/ Launch("spawner") \/ Count("spawner") \/ Schedule("spawner")
           \/ Finish("spawner") \/ CloseFinished("spawner")
           \/ (ArmTimer("spawner") \/ Disarm("spawner")) /\ UNCHANGED seriesVars
    PROVE  SeriesInv'
<1> USE DEF slotVars, queueVars, seriesVars, Others
<1>1. pc["spawner"] # "done"
  BY DEF SpawnSeries, Launch, Count, Schedule, Finish, CloseFinished, ArmTimer, Disarm
<1>2. /\ DOMAIN pc = Actors /\ (\A w \in Workers : pc[w] = "idle") /\ kq = NoEvents /\ ~parked
      /\ NoEvents \in Queues /\ run \in Seq(Runs) /\ series \in {"delayed", "going", "finished"}
      /\ pc["spawner"] \notin {"arm", "disarm"} => ~armed
  BY <1>1, SpawnerSees, QueueSet DEF SeriesInv, Places
<1>3. CASE SpawnSeries \/ Count("spawner") \/ (Disarm("spawner") /\ UNCHANGED seriesVars)
  <2>1. /\ UNCHANGED <<run, pins, st, series, extras, parked, pool, word, batch, alive, held, kq>>
        /\ pc["spawner"] # "close_finished"
        /\ \/ Go("spawner", "arm")
           \/ ~armed' /\ \E p \in {"launch", "lost", "finish", "clock"} : Go("spawner", p)
    BY <1>2, <1>3 DEF SpawnSeries, Count, Disarm
  <2>2. PICK p \in {"arm", "launch", "lost", "finish", "clock"} : Go("spawner", p) /\ (p # "arm" => ~armed')
    BY <2>1
  <2>3. Claimed' /\ Written' /\ Closing'
    BY <1>2, <2>1, <2>2, StillKeeps, GoStays DEF SeriesInv, Still
  <2> QED  BY <1>1, <1>2, <2>1, <2>2, <2>3, SpawnerKeeps DEF SpawnerAt
<1>4. CASE Schedule("spawner") \/ (ArmTimer("spawner") /\ UNCHANGED seriesVars)
  <2>1. /\ UNCHANGED <<run, pins, st, series, extras, parked, pool, word, batch, alive, held, armed>>
        /\ pc["spawner"] \in {"arm", "clock"}
        /\ \/ Go("spawner", "done") /\ \E v \in Timers : kq' = [kq EXCEPT !["timer"] = v]
           \/ Go("spawner", "disarm") /\ UNCHANGED kq
           \/ Go("spawner", "lost") /\ UNCHANGED kq /\ ~armed
    BY <1>2, <1>4 DEF Schedule, ArmTimer, Register, Timers
  <2>2. /\ kq' \in Queues
        /\ \E p \in {"done", "disarm", "lost"} :
             Go("spawner", p) /\ (p # "done" => kq' = NoEvents) /\ (p = "lost" => ~armed')
    BY <1>2, <2>1, QueueSet
  <2>3. PICK p \in {"done", "disarm", "lost"} :
             Go("spawner", p) /\ (p # "done" => kq' = NoEvents) /\ (p = "lost" => ~armed')
    BY <2>2
  <2>4. Claimed' /\ Written' /\ Closing'
    BY <1>2, <2>1, <2>3, StillKeeps, GoStays DEF SeriesInv, Still
  <2> QED  BY <1>1, <1>2, <2>1, <2>2, <2>3, <2>4, SpawnerKeeps DEF SpawnerAt
<1>5. CASE Launch("spawner")
  <2>1. /\ UNCHANGED <<st, series, extras, parked, pool, word, batch, alive, held, armed, kq>>
        /\ pc["spawner"] = "launch"
    BY <1>5 DEF Launch
  <2>2. CASE run' = Append(run, [at |-> "queued", late |-> FALSE]) /\ pins' = pins \cup {Len(run) + 1} /\ Go("spawner", "count")
    <3>1. run' \in Seq(Runs) /\ Claimed' /\ Written' /\ Closing'
      BY <1>2, <2>1, <2>2, RunStarts, GoStays DEF SeriesInv
    <3> QED  BY <1>1, <1>2, <2>1, <2>2, <3>1, SpawnerKeeps DEF SpawnerAt
  <2>3. CASE UNCHANGED <<run, pins>> /\ Go("spawner", "lost")
    <3>1. Claimed' /\ Written' /\ Closing'
      BY <1>2, <2>1, <2>3, StillKeeps, GoStays DEF SeriesInv, Still
    <3> QED  BY <1>1, <1>2, <2>1, <2>3, <3>1, SpawnerKeeps DEF SpawnerAt
  <2> QED  BY <1>5, <2>2, <2>3 DEF Launch
<1>6. CASE Finish("spawner")
  <2>1. /\ UNCHANGED <<run, pins, st, extras, parked, pool, word, batch, alive, held, armed, kq>>
        /\ pc["spawner"] = "finish" /\ series' = "finished" /\ Go("spawner", "close_finished")
    BY <1>6 DEF Finish
  <2>2. Claimed' /\ Written' /\ Closing'
    BY <1>2, <2>1, GoStays DEF SeriesInv, Claimed, Written, Closing
  <2> QED  BY <1>1, <1>2, <2>1, <2>2, SpawnerKeeps DEF SpawnerAt
<1>7. CASE CloseFinished("spawner")
  <2>1. /\ UNCHANGED <<run, pins, st, series, parked, pool, word, batch, alive, held, armed, kq>>
        /\ pc["spawner"] = "close_finished" /\ Go("spawner", "give_back")
        /\ (extras' => extras) /\ (extras' => st = "pending")
    BY <1>7, ZenonT(30) DEF CloseFinished
  <2>2. series = "finished"
    BY <2>1 DEF SeriesInv, Finished
  <2>3. Claimed' /\ Written' /\ Closing'
    BY <1>2, <2>1, GoStays DEF SeriesInv, Claimed, Written, Closing
  <2> QED  BY <1>1, <1>2, <2>1, <2>2, <2>3, SpawnerKeeps DEF SpawnerAt
<1> QED  BY <1>3, <1>4, <1>5, <1>6, <1>7, ZenonT(30)

-----------------------------------------------------------------------------
(* The manager.                                                            *)

\* It moves on
LEMMA ManagerKeeps ==
    ASSUME SeriesInv, pc["manager"] # "out", NEW p \in ManagerAt, Go("manager", p),
           ~parked', UNCHANGED <<pool, word>>, kq' \in Queues, batch' \in Batches, run' \in Seq(Runs),
           series' \in {"delayed", "going", "finished"}, alive' \in {alive, "down", "closed"},
           pc["spawner"] # "done" => /\ kq' = NoEvents /\ batch' = <<>>
                                     /\ p \in {"listen", "stop_series", "handle", "out"},
           armed' => armed,
           p = "orphan" => alive' = "closed",
           p = "give_up" => alive' # "up",
           alive' = "closed" => p \in {"out", "orphan", "judge", "fail", "close_extras", "give_back"},
           Off', Claimed', Written', Closing', Finished'
    PROVE  SeriesInv'
<1>1. /\ DOMAIN pc' = Actors /\ (\A w \in Workers : pc'[w] = "idle") /\ pc'["manager"] = p
      /\ pc'["spawner"] = pc["spawner"] /\ pc'["canceller"] = pc["canceller"] /\ pc'["closer"] = pc["closer"]
  BY GoStays DEF SeriesInv, Places
<1>2. Places'
  BY <1>1 DEF SeriesInv, Places
<1>3. Before' /\ Ends'
  BY <1>1 DEF SeriesInv, Before, Ends
<1> QED  BY <1>2, <1>3 DEF SeriesInv

\* It goes to where no tick is under way
LEMMA ManagerRests ==
    ASSUME SeriesInv, NEW p \in ManagerAt, Go("manager", p), p \notin Ticking \cup Letting,
           UNCHANGED <<held, series, extras>>, armed' => armed, alive' = "up" => alive = "up",
           kq.timer = "none" /\ ~armed /\ batch = <<>> => kq'.timer = "none" /\ batch' = <<>>
    PROVE  Off' /\ Finished'
<1>1. /\ pc'["manager"] = p
      /\ pc'["spawner"] = pc["spawner"] /\ pc'["canceller"] = pc["canceller"] /\ pc'["closer"] = pc["closer"]
  BY GoStays DEF SeriesInv, Places
<1>2. Off'
  BY <1>1 DEF SeriesInv, Off
<1>3. Finished'
  BY <1>1 DEF SeriesInv, Finished, Letting
<1> QED  BY <1>2, <1>3

\* What it has fetched of a schedule is one event, of the timer
LEMMA FetchedOne ==
    ASSUME kq \in Queues, Listen
    PROVE  kq.timer # "none" /\ kq' \in Queues /\ batch' \in Batches
<1>1. PICK fs \in SUBSET {"watch", "timer", "tout"} : Fetch(fs)
  BY DEF Listen
<1>2. kq.watch = FALSE /\ kq.tout = 0 /\ kq.timer \in Timers
  BY ZenonT(30) DEF Queues
<1>3. Fired \subseteq {"timer"} /\ (kq.timer = "none" => Fired = {})
  BY <1>2 DEF Fired
<1>4. fs = {"timer"} /\ kq.timer # "none"
  BY <1>1, <1>3 DEF Fetch
<1>5. kq' \in Queues
  <2>1. kq' = [kq EXCEPT !.watch = @ /\ "watch" \notin fs,
                         !.timer = IF "timer" \in fs /\ @ # "clock" THEN "none" ELSE @,
                         !.tout = IF "tout" \in fs THEN 0 ELSE @]
    BY <1>1 DEF Fetch
  <2>2. (kq.watch /\ "watch" \notin fs) = FALSE
    BY <1>2
  <2> QED  BY <1>2, <1>4, <2>1, <2>2, ZenonT(30) DEF Queues, Timers
<1>6. Cardinality(fs) = 1
  BY <1>4, FS_Singleton
<1>7. PICK order \in Bijection(1..1, {"timer"}) : batch' = [i \in DOMAIN order |-> Event(order[i])]
  BY <1>1, <1>4, <1>6, ZenonT(30) DEF Fetch
<1>8. order \in [1..1 -> {"timer"}]
  BY <1>7, ZenonT(30) DEF Bijection, Injection
<1>9. DOMAIN order = 1..1 /\ order[1] = "timer"
  BY <1>8
<1>10. batch' = <<Event("timer")>>
  BY <1>7, <1>9
<1>11. Event("timer") = [what |-> kq.timer, word |-> 0]
  BY DEF Event
<1> QED  BY <1>2, <1>4, <1>5, <1>10, <1>11 DEF Batches, Timers

\* kevent, what it does before it looks at what it fetched, and its restart
LEMMA LoopKept ==
    ASSUME SeriesInv, UNCHANGED seriesVars,
           \/ Listen \/ Fetched \/ Again \/ Supervise \/ Recover \/ RecoverPark \/ RecoverWait \/ GiveUp
    PROVE  SeriesInv'
<1> USE DEF slotVars, queueVars, seriesVars
<1>1. /\ DOMAIN pc = Actors /\ (\A w \in Workers : pc[w] = "idle") /\ ~parked /\ word = 0
      /\ kq \in Queues /\ batch \in Batches /\ <<>> \in Batches /\ NoEvents \in Queues /\ NoEvents.timer = "none"
      /\ run \in Seq(Runs) /\ series \in {"delayed", "going", "finished"} /\ alive \in {"up", "down", "closed"}
      /\ alive = "closed" => pc["manager"] \in {"out", "orphan", "judge", "fail", "close_extras", "give_back"}
      /\ pc["spawner"] # "done" => /\ kq = NoEvents /\ batch = <<>>
                                   /\ pc["manager"] \in {"listen", "stop_series", "handle", "out"}
  BY QueueSet DEF SeriesInv, Places, Ends, Before, Batches
<1>2. /\ pc["manager"] \in {"listen", "fetched", "handle", "dead", "recover", "recover_park", "recover_wait", "give_up"}
      /\ UNCHANGED <<run, pins, st, series, extras, pool, word, armed, held>> /\ ~parked'
      /\ kq' \in Queues /\ batch' \in Batches /\ alive' \in {alive, "down", "closed"}
      /\ pc["spawner"] # "done" => kq' = kq /\ batch' = batch
      /\ kq.timer = "none" /\ ~armed /\ batch = <<>> => kq'.timer = "none" /\ batch' = <<>>
      /\ \E p \in {"listen", "fetched", "handle", "dead", "recover", "recover_park", "recover_wait", "give_up",
                   "orphan", "out"} :
           /\ Go("manager", p)
           /\ pc["spawner"] # "done" => p \in {"listen", "handle", "out"}
           /\ (p = "orphan" <=> alive' = "closed")
           /\ (p = "give_up" => alive' # "up")
  <2>1. CASE Listen
    <3>1. /\ pc["manager"] = "listen" /\ Go("manager", "fetched")
          /\ UNCHANGED <<run, pins, st, series, extras, pool, word, armed, held, parked, alive>>
      BY <2>1, ZenonT(30) DEF Listen, Fetch
    <3> QED  BY <1>1, <2>1, <3>1, FetchedOne
  <2>2. CASE Fetched
    BY <1>1, <2>2 DEF Fetched
  <2>3. CASE Again
    BY <1>1, <2>3 DEF Again
  <2>4. CASE Supervise
    BY <1>1, <2>4 DEF Supervise
  <2>5. CASE Recover
    BY <1>1, <2>5 DEF Recover
  <2>6. CASE RecoverPark
    BY <1>1, <2>6, ZenonT(30) DEF RecoverPark
  <2>7. CASE RecoverWait
    BY <1>1, <2>7, QueueSet, ZenonT(30) DEF RecoverWait, Register, Timers
  <2>8. CASE GiveUp
    BY <1>1, <2>8 DEF GiveUp
  <2> QED  BY <2>1, <2>2, <2>3, <2>4, <2>5, <2>6, <2>7, <2>8
<1>3. PICK p \in {"listen", "fetched", "handle", "dead", "recover", "recover_park", "recover_wait", "give_up",
                  "orphan", "out"} :
        /\ Go("manager", p)
        /\ pc["spawner"] # "done" => p \in {"listen", "handle", "out"}
        /\ (p = "orphan" <=> alive' = "closed")
        /\ (p = "give_up" => alive' # "up")
  BY <1>2
<1>4. p \in ManagerAt /\ p \notin Ticking \cup Letting
  BY DEF ManagerAt, Ticking, Letting
<1>5. Claimed' /\ Written' /\ Closing'
  BY <1>1, <1>2, <1>3, StillKeeps, GoStays DEF SeriesInv, Still
<1>6. Off' /\ Finished'
  BY <1>2, <1>3, <1>4, ManagerRests
<1> QED  BY <1>1, <1>2, <1>3, <1>4, <1>5, <1>6, ManagerKeeps

\* What holds while a tick is under way
LEMMA TickSees ==
    ASSUME SeriesInv, pc["manager"] \in Ticking \cup Letting
    PROVE  /\ DOMAIN pc = Actors /\ (\A w \in Workers : pc[w] = "idle") /\ ~parked /\ kq \in Queues
           /\ pc["spawner"] = "done" /\ alive \in {"up", "down", "closed"} /\ run \in Seq(Runs)
           /\ batch \in Batches /\ <<>> \in Batches /\ series \in {"delayed", "going", "finished"}
           /\ alive # "closed" => ~armed /\ batch = <<>>
           /\ alive = "closed" => pc["manager"] \in {"judge", "fail", "close_extras", "give_back"}
           /\ alive = "up" => held
           /\ (pc["manager"] \in Letting /\ alive = "up") => kq.timer = "none"
           /\ (~held /\ extras) => pc["manager"] \notin Ticking \cup {"finish", "close_finished"}
<1>1. pc["manager"] \notin {"listen", "stop_series", "handle", "out", "orphan"}
  BY DEF Ticking, Letting
<1>2. <<>> \in Batches
  BY DEF Batches
<1> QED  BY <1>1, <1>2 DEF SeriesInv, Places, Before, Ends, Off, Finished

\* The tick goes on: what it does to the clock, and to the schedule
LEMMA TickKeeps ==
    ASSUME SeriesInv, pc["manager"] \in Ticking \cup Letting,
           NEW p \in Ticking \cup Letting, Go("manager", p),
           UNCHANGED <<parked, pool, word, batch, alive, armed, held>>, kq' \in Queues, run' \in Seq(Runs),
           series' \in {series, "finished"},
           alive = "closed" => p \in {"judge", "fail", "close_extras", "give_back"},
           (alive = "up" /\ p \in Letting) => kq'.timer = "none",
           p = "close_finished" => series' = "finished",
           (p = "give_back" /\ extras') => series' = "finished",
           p \in Ticking \cup {"finish", "close_finished"} => pc["manager"] \in Ticking \cup {"finish"},
           extras' => extras /\ (kq' = kq \/ pc["manager"] \in Ticking),
           Claimed', Written', Closing'
    PROVE  SeriesInv'
<1>1. /\ pc'["manager"] = p
      /\ pc'["spawner"] = pc["spawner"] /\ pc'["canceller"] = pc["canceller"] /\ pc'["closer"] = pc["closer"]
  BY GoStays, TickSees
<1>2. Off'
  BY <1>1, TickSees DEF Off
<1>3. Finished'
  BY <1>1, TickSees DEF SeriesInv, Finished
<1>4. p \in ManagerAt /\ p \notin {"orphan", "give_up"} /\ pc["manager"] # "out"
  BY DEF ManagerAt, Ticking, Letting
<1> QED  BY <1>2, <1>3, <1>4, TickSees, ManagerKeeps

\* The tick is over
LEMMA TickRests ==
    ASSUME SeriesInv, pc["manager"] \in Ticking, Go("manager", "handle"),
           UNCHANGED <<parked, pool, word, batch, alive, armed, held, kq, run, series, extras>>,
           Claimed', Written', Closing'
    PROVE  SeriesInv'
<1>1. "handle" \in ManagerAt /\ "handle" \notin Ticking \cup Letting /\ pc["manager"] # "out"
      /\ pc["manager"] \notin {"judge", "fail", "close_extras", "give_back"}
  BY DEF ManagerAt, Ticking, Letting
<1>2. Off' /\ Finished'
  BY <1>1, ManagerRests
<1> QED  BY <1>1, <1>2, TickSees, ManagerKeeps

\* fire
LEMMA FireKept ==
    ASSUME SeriesInv, FireSeries
    PROVE  SeriesInv'
<1> USE DEF slotVars, seriesVars, Others
<1>1. /\ pc["manager"] = "handle" /\ batch # <<>> /\ batch' = Tail(batch)
      /\ UNCHANGED <<run, pins, st, extras, parked, pool, word, alive, held, kq>>
      /\ (armed' => armed) /\ (~Gone => ~armed')
      /\ series' = (IF series = "delayed" /\ ~Gone THEN "going" ELSE series)
  BY ZenonT(30) DEF FireSeries, Handling
<1>2. /\ DOMAIN pc = Actors /\ (\A w \in Workers : pc[w] = "idle") /\ kq \in Queues /\ ~parked
      /\ batch \in Batches /\ <<>> \in Batches /\ run \in Seq(Runs) /\ alive \in {"up", "down", "closed"}
      /\ series \in {"delayed", "going", "finished"} /\ alive # "closed" /\ pc["spawner"] = "done"
  BY <1>1 DEF SeriesInv, Places, Before, Ends, Batches
<1>3. batch' = <<>>
  <2>1. \A e : Tail(<<e>>) = <<>>
    BY SMT
  <2>2. \E e : batch = <<e>>
    BY <1>1, <1>2, ZenonT(30) DEF Batches
  <2> QED  BY <1>1, <2>1, <2>2
<1>4. \/ Go("manager", "handle") /\ series' = series
      \/ /\ Go("manager", "clock") \/ Go("manager", "bounds")
         /\ ~armed' /\ series # "finished" /\ series' = "going"
  BY <1>1, <1>2 DEF FireSeries
<1>5. Claimed' /\ Written' /\ Closing'
  <2>1. Claimed' /\ Written'
    BY <1>1 DEF SeriesInv, Claimed, Written
  <2>2. pc'["spawner"] = pc["spawner"]
    BY <1>2, <1>4, GoStays
  <2> QED  BY <1>1, <1>4, <2>1, <2>2, ZenonT(30) DEF SeriesInv, Closing
<1>6. CASE Go("manager", "handle") /\ series' = series
  <2>1. "handle" \in ManagerAt /\ "handle" \notin Ticking \cup Letting
    BY DEF ManagerAt, Ticking, Letting
  <2>2. Off' /\ Finished'
    BY <1>1, <1>3, <1>6, <2>1, ManagerRests
  <2> QED  BY <1>1, <1>2, <1>3, <1>5, <1>6, <2>1, <2>2, ManagerKeeps, ZenonT(30)
<1>7. ASSUME NEW p \in {"clock", "bounds"}, Go("manager", p), ~armed', series # "finished", series' = "going"
      PROVE  SeriesInv'
  <2>1. p \in ManagerAt /\ p \in Ticking
    BY DEF ManagerAt, Ticking
  <2>2. /\ pc'["manager"] = p
        /\ pc'["spawner"] = pc["spawner"] /\ pc'["canceller"] = pc["canceller"] /\ pc'["closer"] = pc["closer"]
    BY <1>2, <1>7, GoStays
  <2>3. Off'
    BY <1>1, <1>3, <1>7, <2>2 DEF SeriesInv, Off, Letting
  <2>4. Finished'
    BY <1>1, <1>2, <1>7, <2>2 DEF SeriesInv, Finished
  <2> QED  BY <1>1, <1>2, <1>3, <1>5, <1>7, <2>1, <2>3, <2>4, ManagerKeeps, ZenonT(30)
<1> QED  BY <1>4, <1>6, <1>7

\* tick, launch, count_run, schedule and end_schedule, and the end of a stopped one
LEMMA TickKept ==
    ASSUME SeriesInv,
           \/ Bounds \/ Launch("manager") \/ Count("manager") \/ Schedule("manager") \/ Unschedule
           \/ Finish("manager") \/ CloseFinished("manager")
           \/ Judge("manager") \/ FailSeries("manager") \/ Close("manager")
    PROVE  SeriesInv'
<1> USE DEF slotVars, seriesVars, Others
<1>1. pc["manager"] \in Ticking \cup Letting
  BY DEF Bounds, Launch, Count, Schedule, Unschedule, Finish, CloseFinished, Judge, FailSeries, Close, Ticking, Letting
<1>2. /\ DOMAIN pc = Actors /\ (\A w \in Workers : pc[w] = "idle") /\ ~parked /\ kq \in Queues
      /\ run \in Seq(Runs)
      /\ alive = "closed" => pc["manager"] \in {"judge", "fail", "close_extras", "give_back"}
      /\ (pc["manager"] \in Letting /\ alive = "up") => kq.timer = "none"
  BY <1>1, TickSees
<1>3. CASE Bounds \/ Count("manager") \/ Judge("manager")
  <2>1. /\ UNCHANGED <<run, pins, st, series, extras, parked, pool, word, batch, alive, armed, held, kq>>
        /\ \/ pc["manager"] \in {"bounds", "count"} /\ \E p \in {"end", "unschedule", "launch"} : Go("manager", p)
           \/ pc["manager"] = "count" /\ Go("manager", "handle")
           \/ pc["manager"] = "judge" /\ \E p \in {"fail", "close_extras"} : Go("manager", p)
    BY <1>3 DEF Bounds, Count, Judge
  <2>2. Claimed' /\ Written' /\ Closing'
    BY <1>2, <2>1, StillKeeps, GoStays DEF SeriesInv, Still
  <2>3. ASSUME pc["manager"] \in {"bounds", "count"}, NEW p \in {"end", "unschedule", "launch"}, Go("manager", p)
        PROVE  SeriesInv'
    BY <1>1, <1>2, <2>1, <2>2, <2>3, TickKeeps DEF Ticking, Letting
  <2>4. ASSUME pc["manager"] = "judge", NEW p \in {"fail", "close_extras"}, Go("manager", p)
        PROVE  SeriesInv'
    BY <1>1, <1>2, <2>1, <2>2, <2>4, TickKeeps DEF Ticking, Letting
  <2>5. ASSUME pc["manager"] = "count", Go("manager", "handle")
        PROVE  SeriesInv'
    BY <2>1, <2>2, <2>5, TickRests DEF Ticking
  <2> QED  BY <2>1, <2>3, <2>4, <2>5
<1>4. CASE Launch("manager")
  <2>1. /\ UNCHANGED <<st, series, extras, parked, pool, word, batch, alive, armed, held, kq>>
        /\ pc["manager"] = "launch"
    BY <1>4 DEF Launch
  <2>2. CASE run' = Append(run, [at |-> "queued", late |-> FALSE]) /\ pins' = pins \cup {Len(run) + 1} /\ Go("manager", "count")
    <3>1. run' \in Seq(Runs) /\ Claimed' /\ Written' /\ Closing'
      BY <1>2, <2>1, <2>2, RunStarts, GoStays DEF SeriesInv
    <3> QED  BY <1>1, <1>2, <2>1, <2>2, <3>1, TickKeeps DEF Ticking, Letting
  <2>3. CASE UNCHANGED <<run, pins>> /\ Go("manager", "unschedule")
    <3>1. Claimed' /\ Written' /\ Closing'
      BY <1>2, <2>1, <2>3, StillKeeps, GoStays DEF SeriesInv, Still
    <3> QED  BY <1>1, <1>2, <2>1, <2>3, <3>1, TickKeeps DEF Ticking, Letting
  <2> QED  BY <1>4, <2>2, <2>3 DEF Launch
<1>5. CASE Schedule("manager") \/ Unschedule
  <2>1. /\ UNCHANGED <<run, pins, st, series, extras, parked, pool, word, batch, alive, armed, held>>
        /\ pc["manager"] \in {"clock", "end", "unschedule"}
        /\ \/ \E p \in {"bounds", "end"} : Go("manager", p) /\ (UNCHANGED kq \/ kq' = [kq EXCEPT !["timer"] = "clock"])
           \/ \E p \in {"finish", "judge"} :
                Go("manager", p) /\ kq' = IF alive = "up" THEN [kq EXCEPT !["timer"] = "none"] ELSE kq
    BY <1>5 DEF Schedule, Unschedule, Register, Unregister
  <2>2. Claimed' /\ Written' /\ Closing'
    BY <1>2, <2>1, StillKeeps, GoStays DEF SeriesInv, Still
  <2>3. "clock" \in Timers /\ "none" \in Timers /\ alive # "closed"
    BY <1>2, <2>1 DEF Timers
  <2>4. ASSUME NEW p \in {"bounds", "end"}, Go("manager", p), UNCHANGED kq \/ kq' = [kq EXCEPT !["timer"] = "clock"]
        PROVE  SeriesInv'
    <3>1. kq' \in Queues
      BY <1>2, <2>3, <2>4, QueueSet
    <3> QED  BY <1>1, <1>2, <2>1, <2>2, <2>3, <2>4, <3>1, TickKeeps DEF Ticking, Letting
  <2>5. ASSUME NEW p \in {"finish", "judge"}, Go("manager", p),
               kq' = IF alive = "up" THEN [kq EXCEPT !["timer"] = "none"] ELSE kq
        PROVE  SeriesInv'
    <3>1. kq' \in Queues /\ (alive = "up" => kq'.timer = "none")
      BY <1>2, <2>3, <2>5, QueueSet
    <3> QED  BY <1>1, <1>2, <2>1, <2>2, <2>3, <2>5, <3>1, TickKeeps DEF Ticking, Letting
  <2> QED  BY <2>1, <2>4, <2>5
<1>6. CASE Finish("manager")
  <2>1. /\ UNCHANGED <<run, pins, st, extras, parked, pool, word, batch, alive, armed, held, kq>>
        /\ pc["manager"] = "finish" /\ series' = "finished" /\ Go("manager", "close_finished")
    BY <1>6 DEF Finish
  <2>2. Claimed' /\ Written' /\ Closing'
    BY <1>2, <2>1, GoStays DEF SeriesInv, Claimed, Written, Closing
  <2> QED  BY <1>1, <1>2, <2>1, <2>2, TickKeeps DEF Ticking, Letting
<1>7. CASE CloseFinished("manager")
  <2>1. /\ UNCHANGED <<run, pins, st, series, parked, pool, word, batch, alive, armed, held, kq>>
        /\ pc["manager"] = "close_finished" /\ Go("manager", "give_back")
        /\ (extras' => extras) /\ (extras' => st = "pending")
    BY <1>7, ZenonT(30) DEF CloseFinished
  <2>2. series = "finished"
    BY <2>1 DEF SeriesInv, Finished
  <2>3. Claimed' /\ Written' /\ Closing'
    BY <1>2, <2>1, GoStays DEF SeriesInv, Claimed, Written, Closing
  <2> QED  BY <1>1, <1>2, <2>1, <2>2, <2>3, TickKeeps DEF Ticking, Letting
<1>8. CASE FailSeries("manager") \/ Close("manager")
  <2>1. /\ UNCHANGED <<run, pins, series, parked, pool, word, batch, alive, armed, held, kq>>
        /\ \/ pc["manager"] = "fail" /\ Go("manager", "close_extras") /\ st' = "failed" /\ UNCHANGED extras
           \/ pc["manager"] = "close_extras" /\ Go("manager", "give_back") /\ ~extras' /\ UNCHANGED st
    BY <1>8 DEF FailSeries, Close
  <2>2. Claimed' /\ Written' /\ Closing'
    BY <1>2, <2>1, GoStays DEF SeriesInv, Claimed, Written, Closing
  <2> QED  BY <1>1, <1>2, <2>1, <2>2, TickKeeps DEF Ticking, Letting
<1> QED  BY <1>3, <1>4, <1>5, <1>6, <1>7, <1>8

\* release
LEMMA ManagerEnds ==
    ASSUME SeriesInv, GiveBack("manager")
    PROVE  SeriesInv'
<1> USE DEF slotVars, seriesVars, Others
<1>1. /\ pc["manager"] = "give_back" /\ Go("manager", IF alive = "closed" THEN "out" ELSE "handle")
      /\ UNCHANGED <<run, pins, st, series, extras, parked, pool, word, batch, alive, armed, kq>> /\ held' = FALSE
  BY Cast DEF GiveBack, Onward
<1>2. pc["manager"] \in Ticking \cup Letting /\ pc["manager"] \in Letting
  BY <1>1 DEF Letting
<1>3. PICK p \in {"out", "handle"} : Go("manager", p) /\ (p = "out" <=> alive = "closed")
  BY <1>1
<1>4. p \in ManagerAt /\ p \notin Ticking \cup Letting
  BY DEF ManagerAt, Ticking, Letting
<1>5. /\ pc'["manager"] = p
      /\ pc'["spawner"] = pc["spawner"] /\ pc'["canceller"] = pc["canceller"] /\ pc'["closer"] = pc["closer"]
  BY <1>2, <1>3, GoStays, TickSees
<1>6. Claimed' /\ Written' /\ Closing'
  BY <1>1, <1>5, StillKeeps DEF SeriesInv, Still
<1>7. Off'
  BY <1>1, <1>2, <1>4, <1>5, TickSees DEF Off
<1>8. Finished'
  BY <1>1, <1>2, <1>4, <1>5, TickSees DEF SeriesInv, Finished, Letting
<1> QED  BY <1>1, <1>2, <1>3, <1>4, <1>6, <1>7, <1>8, TickSees, ManagerKeeps

\* A run that is late, and the stop that goes with it
LEMMA LateKept ==
    ASSUME SeriesInv, StopSeries \/ \E k \in DOMAIN run : Late(k)
    PROVE  SeriesInv'
<1> USE DEF slotVars, seriesVars, Others
<1>1. /\ DOMAIN pc = Actors /\ (\A w \in Workers : pc[w] = "idle") /\ ~parked /\ kq \in Queues /\ batch \in Batches
      /\ run \in Seq(Runs) /\ series \in {"delayed", "going", "finished"} /\ alive \in {"up", "down", "closed"}
      /\ alive = "closed" => pc["manager"] \in {"out", "orphan", "judge", "fail", "close_extras", "give_back"}
      /\ pc["spawner"] # "done" => kq = NoEvents /\ batch = <<>>
  BY DEF SeriesInv, Places, Ends, Before
<1>2. DOMAIN run = 1..Len(run) /\ Len(run) \in Nat
  BY <1>1
<1>3. /\ pc["manager"] \in {"listen", "stop_series"}
      /\ UNCHANGED <<series, extras, parked, pool, word, batch, alive, armed, held, kq>>
      /\ Go("manager", "stop_series") \/ Go("manager", "handle")
      /\ st' \in {st, "timedout"}
  BY DEF StopSeries, Late
<1>4. /\ run' \in Seq(Runs) /\ DOMAIN run' = DOMAIN run /\ (\A j \in DOMAIN run : run'[j].at = run[j].at)
      /\ \A j \in DOMAIN run : j \in pins => j \in pins'
  <2>1. CASE StopSeries
    <3>1. run' = run /\ pins' = pins \ {0}
      BY <2>1 DEF StopSeries
    <3> QED  BY <1>1, <1>2, <3>1
  <2>2. ASSUME NEW k \in DOMAIN run, Late(k)
        PROVE  /\ run' \in Seq(Runs) /\ DOMAIN run' = DOMAIN run /\ (\A j \in DOMAIN run : run'[j].at = run[j].at)
               /\ \A j \in DOMAIN run : j \in pins => j \in pins'
    <3>1. run' = [run EXCEPT ![k] = [run[k] EXCEPT !.late = TRUE]] /\ pins' = pins \cup {0}
      BY <2>2 DEF Late
    <3>2. run[k] \in Runs
      BY <1>1
    <3>3. [run[k] EXCEPT !.late = TRUE] \in Runs /\ [run[k] EXCEPT !.late = TRUE].at = run[k].at
      BY <3>2, ZenonT(30) DEF Runs
    <3>4. run' \in Seq(Runs)
      BY <1>1, <1>2, <3>1, <3>3
    <3> QED  BY <3>1, <3>3, <3>4
  <2> QED  BY <2>1, <2>2
<1>5. /\ pc'["manager"] # "close_finished" /\ pc["manager"] # "close_finished"
      /\ pc'["spawner"] = pc["spawner"]
  BY <1>1, <1>3, GoStays
<1>6. Claimed' /\ Written' /\ Closing'
  BY <1>3, <1>4, <1>5 DEF SeriesInv, Claimed, Written, Closing
<1>7. ASSUME NEW p \in {"stop_series", "handle"}, Go("manager", p)
      PROVE  SeriesInv'
  <2>1. p \in ManagerAt /\ p \notin Ticking \cup Letting
    BY DEF ManagerAt, Ticking, Letting
  <2>2. Off' /\ Finished'
    BY <1>3, <1>7, <2>1, ManagerRests
  <2> QED  BY <1>1, <1>3, <1>4, <1>6, <1>7, <2>1, <2>2, ManagerKeeps
<1> QED  BY <1>3, <1>7

\* orphaned
LEMMA OrphanKept ==
    ASSUME SeriesInv, OrphanSeries
    PROVE  SeriesInv'
<1> USE DEF slotVars, seriesVars, Others
<1>1. /\ pc["manager"] = "orphan"
      /\ UNCHANGED <<run, pins, st, series, extras, parked, pool, word, batch, alive, armed, held, kq>>
      /\ Go("manager", "judge") \/ Go("manager", "out")
  BY DEF OrphanSeries
<1>2. /\ DOMAIN pc = Actors /\ (\A w \in Workers : pc[w] = "idle") /\ ~parked /\ kq \in Queues /\ batch \in Batches
      /\ run \in Seq(Runs) /\ series \in {"delayed", "going", "finished"} /\ alive = "closed"
      /\ pc["spawner"] = "done"
  BY <1>1 DEF SeriesInv, Places, Ends, Before
<1>3. Claimed' /\ Written' /\ Closing'
  BY <1>1, <1>2, StillKeeps, GoStays DEF SeriesInv, Still
<1>4. ASSUME NEW p \in {"judge", "out"}, Go("manager", p)
      PROVE  SeriesInv'
  <2>1. p \in ManagerAt /\ p \notin Ticking \cup {"finish", "close_finished", "give_back"}
    BY DEF ManagerAt, Ticking, Letting
  <2>2. /\ pc'["manager"] = p
        /\ pc'["spawner"] = pc["spawner"] /\ pc'["canceller"] = pc["canceller"] /\ pc'["closer"] = pc["closer"]
    BY <1>2, <1>4, GoStays
  <2>3. Off'
    BY <1>1, <1>2 DEF Off
  <2>4. Finished'
    BY <1>1, <2>1, <2>2 DEF SeriesInv, Finished
  <2> QED  BY <1>1, <1>2, <1>3, <1>4, <2>1, <2>3, <2>4, ManagerKeeps
<1> QED  BY <1>1, <1>4

-----------------------------------------------------------------------------
(* A shutdown's sweep.                                                     *)

LEMMA SweepKept ==
    ASSUME SeriesInv,
           \/ DrainSeries \/ SweepSeries
           \/ Judge("closer") \/ FailSeries("closer") \/ Close("closer") \/ GiveBack("closer")
    PROVE  SeriesInv'
<1> USE DEF slotVars, seriesVars, Others
<1>1. /\ pc["closer"] \in {"drain", "sweep", "judge", "fail", "close_extras", "give_back"}
      /\ UNCHANGED <<run, pins, series, parked, pool, word, batch, alive, kq>>
      /\ st' \in {st, "failed"} /\ (armed' => armed) /\ (extras' => extras)
      /\ held' = held \/ pc["closer"] = "give_back"
      /\ \E p \in {"sweep", "stopped", "judge", "fail", "close_extras", "give_back"} :
           Go("closer", p) /\ (p = "give_back" => ~extras')
  <2>1. CASE DrainSeries \/ Judge("closer") \/ FailSeries("closer") \/ Close("closer")
    BY <2>1 DEF DrainSeries, Judge, FailSeries, Close
  <2>2. CASE SweepSeries
    BY <2>2, ZenonT(30) DEF SweepSeries
  <2>3. CASE GiveBack("closer")
    BY <2>3, Cast DEF GiveBack, Onward
  <2> QED  BY <2>1, <2>2, <2>3
<1>2. PICK p \in {"sweep", "stopped", "judge", "fail", "close_extras", "give_back"} :
        Go("closer", p) /\ (p = "give_back" => ~extras')
  BY <1>1
<1>3. /\ DOMAIN pc = Actors /\ (\A w \in Workers : pc[w] = "idle") /\ ~parked
      /\ alive = "closed" /\ pc["manager"] = "out"
      /\ pc["closer"] = "give_back" => ~extras
  BY <1>1 DEF SeriesInv, Places, Ends, Finished, Sweeping
<1>4. /\ DOMAIN pc' = Actors /\ (\A w \in Workers : pc'[w] = "idle") /\ pc'["closer"] = p
      /\ pc'["manager"] = pc["manager"] /\ pc'["canceller"] = pc["canceller"] /\ pc'["spawner"] = pc["spawner"]
  BY <1>2, <1>3, GoStays
<1>5. Places'
  BY <1>1, <1>3, <1>4 DEF SeriesInv, Places, CloserAt, Sweeping
<1>6. Before' /\ Ends'
  BY <1>1, <1>3, <1>4 DEF SeriesInv, Before, Ends
<1>7. Off'
  BY <1>1, <1>3 DEF Off
<1>8. Claimed' /\ Written' /\ Closing'
  BY <1>1, <1>4 DEF SeriesInv, Claimed, Written, Closing
<1>9. Finished'
  BY <1>1, <1>2, <1>3, <1>4 DEF SeriesInv, Finished
<1> QED  BY <1>5, <1>6, <1>7, <1>8, <1>9 DEF SeriesInv

-----------------------------------------------------------------------------
(* A run.                                                                  *)

\* begin, publish, close_finished_series and the drop of the claim
LEMMA RunKept ==
    ASSUME SeriesInv, NEW k \in DOMAIN run, RunStep(k)
    PROVE  SeriesInv'
<1> USE DEF slotVars, seriesVars, Others
<1>1. run \in Seq(Runs)
  BY DEF SeriesInv, Places
<1>2. ASSUME NEW p \in {"working", "writing", "again", "close", "drop", "over"}, At(k, p)
      PROVE  /\ run' \in Seq(Runs) /\ DOMAIN run' = DOMAIN run /\ run'[k].at = p
             /\ \A j \in DOMAIN run : j # k => run'[j] = run[j]
  BY <1>1, <1>2, RunMoves
<1>3. /\ UNCHANGED <<pc, parked, pool, word, batch, alive, armed, held, kq, series>>
      /\ run' \in Seq(Runs) /\ (extras' => extras)
      /\ Claimed' /\ Written' /\ Closing'
  <2>1. CASE Work(k)
    <3>1. run[k].at = "queued" /\ At(k, "working")
          /\ UNCHANGED <<pc, parked, pool, word, batch, alive, armed, held, kq, series, extras, st, pins>>
      BY <2>1 DEF Work
    <3> QED  BY <1>2, <3>1 DEF SeriesInv, Claimed, Written, Closing
  <2>2. CASE Publish(k)
    <3>1. run[k].at = "working"
          /\ UNCHANGED <<pc, parked, pool, word, batch, alive, armed, held, kq, series, extras, pins>>
      BY <2>2 DEF Publish
    <3>2. \/ st' = "running" /\ At(k, "writing")
          \/ st' = st /\ \E p \in {"close", "again", "drop"} : At(k, p)
      BY <2>2 DEF Publish
    <3> QED  BY <1>2, <3>1, <3>2 DEF SeriesInv, Claimed, Written, Closing
  <2>3. CASE PublishAgain(k)
    <3>1. run[k].at = "again"
          /\ UNCHANGED <<pc, parked, pool, word, batch, alive, armed, held, kq, series, extras, pins>>
          /\ ((st' = "running" /\ At(k, "writing")) \/ (st' = st /\ At(k, "close")))
      BY <2>3 DEF PublishAgain
    <3> QED  BY <1>2, <3>1 DEF SeriesInv, Claimed, Written, Closing
  <2>4. CASE Published(k)
    <3>1. run[k].at = "writing"
          /\ UNCHANGED <<pc, parked, pool, word, batch, alive, armed, held, kq, series, extras, pins>>
          /\ ((st' = "ready" /\ At(k, "close")) \/ (st # "running" /\ st' = st /\ At(k, "drop")))
      BY <2>4 DEF Published
    <3> QED  BY <1>2, <3>1 DEF SeriesInv, Claimed, Written, Closing
  <2>5. CASE CloseBehind(k)
    <3>1. /\ run[k].at = "close" /\ At(k, "drop")
          /\ UNCHANGED <<pc, parked, pool, word, batch, alive, armed, held, kq, series, st, pins>>
          /\ extras' = (extras /\ (series # "finished" \/ st = "pending"))
      BY <2>5 DEF CloseBehind
    <3>2. (extras' => extras) /\ (extras' => series # "finished" \/ st = "pending")
      BY <3>1, ZenonT(30)
    <3>3. ~(series' = "finished" /\ extras' /\ st' = "ready")
      BY <3>1, <3>2
    <3>4. Closing'
      BY <3>3 DEF Closing
    <3> QED  BY <1>2, <3>1, <3>2, <3>4 DEF SeriesInv, Claimed, Written
  <2>6. CASE DropRun(k)
    <3>1. run[k].at = "drop" /\ At(k, "over") /\ pins' = pins \ {k}
          /\ UNCHANGED <<pc, parked, pool, word, batch, alive, armed, held, kq, series, extras, st>>
      BY <2>6 DEF DropRun
    <3> QED  BY <1>2, <3>1 DEF SeriesInv, Claimed, Written, Closing
  <2> QED  BY <2>1, <2>2, <2>3, <2>4, <2>5, <2>6 DEF RunStep
<1>4. Places'
  BY <1>3 DEF SeriesInv, Places
<1>5. Before' /\ Ends' /\ Off' /\ Finished'
  BY <1>3 DEF SeriesInv, Before, Ends, Off, Finished
<1> QED  BY <1>3, <1>4, <1>5 DEF SeriesInv

-----------------------------------------------------------------------------
(* The whole.                                                              *)

\* A schedule has no task for the pool, the manager or a sweep to handle
LEMMA NotForSchedules ==
    ASSUME SeriesInv, scene.kind = "series", ParksNext
    PROVE  \/ Cancel \/ Unpark("canceller") \/ DropHandle \/ StopRuntime \/ ClosePool \/ SwapManager \/ Join \/ Stopped
           \/ ArmTimer("spawner") \/ Disarm("spawner")
           \/ Listen \/ Fetched \/ Again \/ Supervise \/ Recover \/ RecoverPark \/ RecoverWait \/ GiveUp
<1>1. /\ ~(pool > 0) /\ (\A w \in Workers : pc[w] = "idle") /\ batch \in Batches
      /\ pc["spawner"] \notin {"unpark", "unwatch", "take_down", "let_go"}
      /\ pc["canceller"] \notin {"arm", "disarm", "unwatch", "take_down", "let_go"}
      /\ pc["closer"] \notin {"arm", "disarm", "unpark", "unwatch", "take_down", "let_go"}
      /\ pc["manager"] \notin {"half", "queue", "fire", "misfire", "overdue", "overdue_parked", "overdue_end",
                               "overdue_running", "recover_watch", "arm", "disarm", "unpark", "unwatch",
                               "take_down", "let_go"}
  BY DEF SeriesInv, Places, SpawnerAt, ManagerAt, CloserAt, Sweeping, Ticking, Letting
<1>2. \A w \in Workers : ~WorkerStep(w)
  <2> TAKE w \in Workers
  <2>1. pc[w] = "idle" /\ ~(pool > 0)
    BY <1>1
  <2>2. ~Pop(w) /\ ~Claim(w) /\ ~Begin(w) /\ ~TimeRun(w) /\ ~ArmTimeout(w)
    BY <2>1 DEF Pop, Claim, Begin, TimeRun, ArmTimeout
  <2>3. ~Step(w) /\ ~Untime(w) /\ ~Settle(w) /\ ~After(w) /\ ~Fell(w) /\ ~Rearm(w)
    BY <2>1 DEF Step, Untime, Settle, After, Fell, Rearm
  <2>4. ~WatchTimer(w) /\ ~Watch(w) /\ ~Check(w) /\ ~Unpin(w)
    BY <2>1 DEF WatchTimer, Watch, Check, Unpin
  <2> QED  BY <2>2, <2>3, <2>4, ZenonT(30) DEF WorkerStep
<1>3. ASSUME NEW a \in Actors, TakeDownStep(a) \/ WaitStep(a)
      PROVE  Unpark("canceller") \/ ArmTimer("spawner") \/ Disarm("spawner")
  <2>1. a \in Workers \/ a = "manager" \/ a = "spawner" \/ a = "canceller" \/ a = "closer"
    BY DEF Actors
  <2>2. ~Lost(a)
    BY DEF Lost
  <2>3. CASE Unwatch(a) \/ TakeDown(a) \/ LetGo(a)
    BY <1>1, <2>1, <2>3 DEF Unwatch, TakeDown, LetGo
  <2>4. CASE Unpark(a)
    <3>1. a = "canceller"
      BY <1>1, <2>1, <2>4 DEF Unpark
    <3> QED  BY <2>4, <3>1
  <2>5. CASE ArmTimer(a) \/ Disarm(a)
    <3>1. a = "spawner"
      BY <1>1, <2>1, <2>5 DEF ArmTimer, Disarm
    <3> QED  BY <2>5, <3>1
  <2> QED  BY <1>3, <2>2, <2>3, <2>4, <2>5 DEF TakeDownStep, WaitStep
<1>4. CASE ManagerStep
  <2>1. ~WakeParked /\ ~TimedOut
    BY <1>1 DEF WakeParked, TimedOut, Handling, Batches
  <2>2. ~Half /\ ~Requeue /\ ~Fire /\ ~FireQueue /\ ~Misfire
    BY <1>1 DEF Half, Requeue, Fire, FireQueue, Misfire
  <2>3. ~Overdue /\ ~OverdueParked /\ ~OverdueEnd /\ ~OverdueRunning
    BY <1>1 DEF Overdue, OverdueParked, OverdueEnd, OverdueRunning
  <2> QED  BY <1>4, <2>1, <2>2, <2>3 DEF ManagerStep
<1>5. ~Spawn /\ ~RecoverWatch /\ ~Orphan /\ ~Drain /\ ~Sweep
  BY <1>1 DEF Spawn, RecoverWatch, Orphan, Drain, Sweep
<1> QED  BY <1>2, <1>3, <1>4, <1>5 DEF ParksNext, CloserStep, SupervisorStep

\* Every step keeps the invariant
LEMMA ScheduleKept ==
    ASSUME SeriesInv, scene.kind = "series", SeriesNext
    PROVE  SeriesInv'
<1>1. CASE ParksNext /\ UNCHANGED seriesVars
  BY <1>1, NotForSchedules, StopKept, SpawnerKept, LoopKept
<1>2. CASE StartStep
  BY <1>2, SpawnerKept, SpawnerEnds DEF StartStep
<1>3. CASE TickStep
  BY <1>3, FireKept, TickKept DEF TickStep
<1>4. CASE StopSeries \/ OrphanSeries \/ DrainSeries \/ SweepSeries
  BY <1>4, LateKept, OrphanKept, SweepKept
<1>5. ASSUME NEW a \in {"manager", "closer"}, EndStep(a)
      PROVE  SeriesInv'
  <2>1. CASE a = "manager"
    BY <1>5, <2>1, TickKept, ManagerEnds DEF EndStep
  <2>2. CASE a = "closer"
    BY <1>5, <2>2, SweepKept DEF EndStep
  <2> QED  BY <2>1, <2>2
<1>6. ASSUME NEW k \in DOMAIN run, RunStep(k) \/ Late(k)
      PROVE  SeriesInv'
  BY <1>6, RunKept, LateKept
<1> QED  BY <1>1, <1>2, <1>3, <1>4, <1>5, <1>6 DEF SeriesNext

\* The slot and what is forwarded from it are set up before the spawner starts
LEMMA ScheduleStarts ==
    ASSUME SeriesInit
    PROVE  SeriesInv
<1>1. /\ DOMAIN pc = Actors /\ pc["manager"] = "listen" /\ pc["spawner"] = "spawn"
      /\ pc["canceller"] = "idle" /\ pc["closer"] = "idle" /\ \A w \in Workers : pc[w] = "idle"
  BY Cast DEF SeriesInit, ParksInit, Actors
<1>2. /\ ~parked /\ ~armed /\ held /\ pool = 0 /\ word = 0 /\ kq = NoEvents /\ batch = <<>> /\ run = <<>>
      /\ st = "pending" /\ alive = "up" /\ series \in {"delayed", "going", "finished"}
  BY DEF SeriesInit, ParksInit
<1>3. NoEvents \in Queues /\ <<>> \in Batches /\ <<>> \in Seq(Runs) /\ DOMAIN run = {}
  BY <1>2, QueueSet DEF Batches
<1>4. Places /\ Before /\ Ends
  BY <1>1, <1>2, <1>3 DEF Places, Before, Ends, SpawnerAt, ManagerAt, CloserAt, Sweeping
<1>5. Off /\ Finished
  BY <1>1, <1>2 DEF Off, Finished, Ticking, Letting
<1>6. Claimed /\ Written /\ Closing
  BY <1>2, <1>3 DEF Claimed, Written, Closing
<1> QED  BY <1>4, <1>5, <1>6 DEF SeriesInv

\* No step changes the scene
LEMMA SceneKept ==
    ASSUME ParksNext PROVE scene' = scene
<1> USE DEF Register, Queue, queueVars, slotVars
<1>1. CASE Spawn \/ Cancel \/ DropHandle \/ StopRuntime
  BY <1>1 DEF Spawn, Cancel, DropHandle, StopRuntime
<1>2. CASE CloserStep
  BY <1>2 DEF CloserStep, ClosePool, SwapManager, Join, Drain, Sweep, Stopped, vars
<1>3. ASSUME NEW w \in Workers, WorkerStep(w)
      PROVE  scene' = scene
  <2>1. CASE Pop(w) \/ Claim(w) \/ Begin(w) \/ TimeRun(w) \/ ArmTimeout(w)
    BY <2>1 DEF Pop, Claim, Begin, TimeRun, ArmTimeout
  <2>2. CASE Step(w) \/ Untime(w) \/ Settle(w) \/ After(w) \/ Fell(w) \/ Rearm(w)
    BY <2>2 DEF Step, Untime, Settle, After, Fell, Rearm
  <2>3. CASE WatchTimer(w) \/ Watch(w) \/ Check(w) \/ Unpin(w)
    BY <2>3 DEF WatchTimer, Watch, Check, Unpin
  <2> QED  BY <1>3, <2>1, <2>2, <2>3 DEF WorkerStep
<1>4. ASSUME NEW a \in Actors, TakeDownStep(a) \/ WaitStep(a)
      PROVE  scene' = scene
  BY <1>4 DEF TakeDownStep, WaitStep, Unpark, Unwatch, TakeDown, LetGo, ArmTimer, Disarm, Lost
<1>5. CASE Listen
  BY <1>5 DEF Listen, Fetch
<1>6. CASE ManagerStep
  <2>1. CASE Fetched \/ Again \/ WakeParked \/ Half \/ Requeue \/ Fire
    BY <2>1 DEF Fetched, Again, WakeParked, Half, Requeue, Fire
  <2>2. CASE FireQueue \/ Misfire \/ TimedOut \/ Overdue \/ OverdueParked \/ OverdueEnd \/ OverdueRunning
    BY <2>2 DEF FireQueue, Misfire, TimedOut, Overdue, OverdueParked, OverdueEnd, OverdueRunning
  <2> QED  BY <1>6, <2>1, <2>2 DEF ManagerStep
<1>7. CASE SupervisorStep
  BY <1>7 DEF SupervisorStep, Supervise, Recover, RecoverPark, RecoverWatch, RecoverWait, GiveUp, Orphan
<1> QED  BY <1>1, <1>2, <1>3, <1>4, <1>5, <1>6, <1>7 DEF ParksNext

\* A schedule too
LEMMA SameScene ==
    ASSUME SeriesNext PROVE scene' = scene
<1>1. CASE ParksNext
  BY <1>1, SceneKept
<1>2. CASE StartStep
  BY <1>2 DEF StartStep, SpawnSeries, Launch, Count, Schedule, LostSeries, Finish, CloseFinished, GiveBack, Others
<1>3. CASE TickStep
  BY <1>3 DEF TickStep, FireSeries, Bounds, Launch, Count, Schedule, Unschedule, Finish, CloseFinished, Others
<1>4. CASE StopSeries \/ OrphanSeries \/ DrainSeries \/ SweepSeries
  BY <1>4 DEF StopSeries, OrphanSeries, DrainSeries, SweepSeries, Others
<1>5. ASSUME NEW a \in {"manager", "closer"}, EndStep(a)
      PROVE  scene' = scene
  BY <1>5 DEF EndStep, Judge, FailSeries, Close, GiveBack, Others
<1>6. ASSUME NEW k \in DOMAIN run, RunStep(k) \/ Late(k)
      PROVE  scene' = scene
  BY <1>6 DEF RunStep, Late, Work, Publish, PublishAgain, Published, CloseBehind, DropRun, Others
<1> QED  BY <1>1, <1>2, <1>3, <1>4, <1>5, <1>6 DEF SeriesNext

\* Nothing happens
LEMMA ScheduleRests ==
    ASSUME SeriesInv, UNCHANGED allVars
    PROVE  SeriesInv'
<1> USE DEF allVars, vars, slotVars, queueVars, seriesVars
<1>1. Places' /\ Before' /\ Ends'
  BY DEF SeriesInv, Places, Before, Ends
<1>2. Off' /\ Claimed' /\ Written'
  BY DEF SeriesInv, Off, Claimed, Written
<1>3. Closing' /\ Finished'
  BY DEF SeriesInv, Closing, Finished
<1> QED  BY <1>1, <1>2, <1>3 DEF SeriesInv

\* And it says what SeriesLetsGo says
LEMMA InvLetsGo ==
    ASSUME scene.kind = "series" => SeriesInv
    PROVE  SeriesLetsGo
<1> SUFFICES ASSUME scene.kind = "series" PROVE SeriesLetsGo
  BY DEF SeriesLetsGo
<1>1. ~held /\ alive = "up" => kq.timer = "none"
  BY DEF SeriesInv, Off
<1>2. \A k \in DOMAIN run : run[k].at # "over" => ~Gone
  BY DEF SeriesInv, Claimed, Gone
<1>3. ASSUME series = "finished", ~held, st = "ready", \A k \in DOMAIN run : run[k].at = "over"
      PROVE  ~extras
  BY <1>3 DEF SeriesInv, Closing, Finished
<1> QED  BY <1>1, <1>2, <1>3 DEF SeriesLetsGo

\* Whatever the schedule (its delay, count, deadline, rate, timeouts and panics) and
\* whatever is stopped, lost or restarted around it, it is off the clock before its
\* slot can be given away, no run of it is left working in a slot that was, and a
\* finished one has closed what was forwarded from it, whichever of finish_series and
\* the last run's store came second (end_schedule, SeriesTask::launch,
\* close_finished_series)
THEOREM ScheduleLetsGo == SeriesSpec => []SeriesLetsGo
<1> DEFINE Inv == scene.kind = "series" => SeriesInv
<1>1. SeriesInit => Inv
  BY ScheduleStarts
<1>2. Inv /\ [SeriesNext]_allVars => Inv'
  <2> SUFFICES ASSUME Inv, [SeriesNext]_allVars PROVE Inv'
    OBVIOUS
  <2>1. CASE SeriesNext
    BY <2>1, SameScene, ScheduleKept
  <2>2. CASE UNCHANGED allVars
    <3>1. scene' = scene
      BY <2>2 DEF allVars, vars
    <3> QED  BY <2>2, <3>1, ScheduleRests
  <2> QED  BY <2>1, <2>2
<1>3. Inv => SeriesLetsGo
  BY InvLetsGo
<1> QED  BY <1>1, <1>2, <1>3, PTL DEF SeriesSpec

=============================================================================
