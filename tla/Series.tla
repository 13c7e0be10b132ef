------------------------------- MODULE Series -------------------------------
(***************************************************************************)
(* A schedule (`at_rate`): one slot that starts a run every period,        *)
(* whether the last has finished or not. The spawner starts the first run  *)
(* and puts the slot on the clock, or arms its delay, and from there the   *)
(* manager of module Parks drives it: every tick starts a run, ends the    *)
(* schedule at its count or its deadline, or takes a stopped one off the   *)
(* clock (start_series, tick, end_schedule, launch, publish).              *)
(*                                                                         *)
(* Runs overlap. Each has a slot of its own, which is TaskSlot's business, *)
(* a claim on the schedule's slot (here a member of pins), and publishes   *)
(* into that slot, where one run at a time can write.                      *)
(***************************************************************************)
EXTENDS Parks

VARIABLES
    series,    \* "delayed" until its first tick, "going", "finished" once finish_series ran
    run        \* the runs started: where each is, and whether it timed out

\* The most runs a schedule of the scenes counts to
MaxRuns == CHOOSE n \in {s.runs : s \in Scenes} : \A s \in Scenes : s.runs <= n

seriesVars == <<series, run>>
allVars == <<vars, seriesVars>>

\* What no step of a schedule changes
Others == <<scene, pool, closed, alive, deaths, life, ran, waits>>

SeriesInit ==
    /\ ParksInit
    /\ series = (IF scene.delay THEN "delayed" ELSE "going") /\ run = <<>>

At(k, to) == run' = [run EXCEPT ![k].at = to]

----------------------------------------------------------------------------
(* Starting. *)

\* create_series: start_series now, or wait_for
SpawnSeries ==
    /\ pc["spawner"] = "spawn" /\ scene.kind = "series"
    /\ armed' = scene.delay
    /\ Go("spawner", IF scene.delay THEN "arm" ELSE IF scene.runs > 0 THEN "launch" ELSE "lost")
    /\ UNCHANGED <<st, task, parked, word, held, pins, handle, extras, kq, batch>> /\ UNCHANGED <<Others, seriesVars>>

\* launch: the claim, then a run for the pool. One the pool refuses gives its claim back
Launch(a) ==
    /\ pc[a] = "launch"
    /\ \/ /\ ~closed /\ run' = Append(run, [at |-> "queued", late |-> FALSE])
          /\ pins' = pins \cup {Len(run) + 1} /\ Go(a, "count")
       \/ /\ closed /\ Go(a, IF a = "spawner" THEN "lost" ELSE "unschedule")
          /\ UNCHANGED <<run, pins>>
    /\ UNCHANGED <<st, task, parked, armed, word, held, handle, extras, kq, batch, series>> /\ UNCHANGED Others

\* count_run: a schedule counts the runs it starts. The last one ends it
Count(a) ==
    /\ pc[a] = "count"
    /\ Go(a, IF Len(run) >= scene.runs THEN IF a = "spawner" THEN "finish" ELSE "end"
             ELSE IF a = "spawner" THEN "clock" ELSE "handle")
    /\ UNCHANGED <<slotVars, kq, batch>> /\ UNCHANGED <<Others, seriesVars>>

\* schedule: the repeating timer, on the ident the delay was on
Schedule(a) ==
    /\ pc[a] = "clock"
    /\ IF a = "spawner" THEN Register(a, "timer", "clock", "done", "lost")
       ELSE Register(a, "timer", "clock", "bounds", "end")
    /\ UNCHANGED <<slotVars, batch>> /\ UNCHANGED <<Others, seriesVars>>

\* The end of create_series that nothing could start
LostSeries ==
    /\ pc["spawner"] = "lost" /\ scene.kind = "series"
    /\ Unregister("timer", "none")
    /\ st' = (IF st = "pending" THEN "failed" ELSE st) /\ held' = FALSE /\ Go("spawner", "done")
    /\ UNCHANGED <<task, parked, armed, word, pins, handle, extras, batch>> /\ UNCHANGED <<Others, seriesVars>>

----------------------------------------------------------------------------
(* A tick. *)

\* fire: the delay's wake is claimed, and puts the schedule on the clock
FireSeries ==
    /\ Handling({"wait", "clock"}) /\ scene.kind = "series"
    /\ batch' = Tail(batch)
    /\ armed' = (armed /\ Gone)
    /\ series' = (IF series = "delayed" /\ ~Gone THEN "going" ELSE series)
    /\ Go("manager", CASE Gone \/ series = "finished" -> "handle"
                       [] ~Gone /\ series = "delayed" -> "clock"
                       [] ~Gone /\ series = "going" -> "bounds")
    /\ UNCHANGED <<st, task, parked, word, held, pins, handle, extras, kq, run>> /\ UNCHANGED Others

\* Mutant: a stopped schedule starts nothing, and stays where it is
BoundsSkipping ==
    /\ pc["manager"] = "bounds"
    /\ \/ (scene.until \/ Len(run) >= scene.runs) /\ Go("manager", "end")
       \/ Len(run) < scene.runs /\ Go("manager", IF st \in Over THEN "handle" ELSE "launch")
    /\ UNCHANGED <<slotVars, kq, batch>> /\ UNCHANGED <<Others, seriesVars>>

\* Both bounds, before the launch, and then whether it was stopped
Bounds ==
    /\ pc["manager"] = "bounds"
    /\ \/ (scene.until \/ Len(run) >= scene.runs) /\ Go("manager", "end")
       \/ Len(run) < scene.runs /\ Go("manager", IF st \in Over THEN "unschedule" ELSE "launch")
    /\ UNCHANGED <<slotVars, kq, batch>> /\ UNCHANGED <<Others, seriesVars>>

\* unschedule: off the clock, because it is finished or because it is stopped
Unschedule ==
    /\ pc["manager"] \in {"end", "unschedule"}
    /\ Unregister("timer", "none")
    /\ Go("manager", IF pc["manager"] = "end" THEN "finish" ELSE "judge")
    /\ UNCHANGED <<slotVars, batch>> /\ UNCHANGED <<Others, seriesVars>>

\* finish_series: only the kind changes
Finish(a) ==
    /\ pc[a] = "finish"
    /\ series' = "finished" /\ Go(a, "close_finished")
    /\ UNCHANGED <<slotVars, kq, batch, run>> /\ UNCHANGED Others

\* close_finished_series: one still waiting for its first output is left to the run
\* that publishes it
CloseFinished(a) ==
    /\ pc[a] = "close_finished"
    /\ extras' = (extras /\ st = "pending") /\ Go(a, "give_back")
    /\ UNCHANGED <<st, task, parked, armed, word, held, pins, handle, kq, batch>> /\ UNCHANGED <<Others, seriesVars>>

\* release, after either ending
GiveBack(a) ==
    /\ pc[a] = "give_back"
    /\ held' = FALSE /\ Go(a, IF a = "spawner" THEN "done" ELSE Onward(a))
    /\ UNCHANGED <<st, task, parked, armed, word, pins, handle, extras, kq, batch>> /\ UNCHANGED <<Others, seriesVars>>

\* A schedule that settled keeps its state. The look and the store are two steps
Judge(a) ==
    /\ pc[a] = "judge"
    /\ Go(a, IF st \in {"pending", "running"} THEN "fail" ELSE "close_extras")
    /\ UNCHANGED <<slotVars, kq, batch>> /\ UNCHANGED <<Others, seriesVars>>

FailSeries(a) ==
    /\ pc[a] = "fail"
    /\ st' = "failed" /\ Go(a, "close_extras")
    /\ UNCHANGED <<task, parked, armed, word, held, pins, handle, extras, kq, batch>> /\ UNCHANGED <<Others, seriesVars>>

Close(a) ==
    /\ pc[a] = "close_extras"
    /\ extras' = FALSE /\ Go(a, "give_back")
    /\ UNCHANGED <<st, task, parked, armed, word, held, pins, handle, kq, batch>> /\ UNCHANGED <<Others, seriesVars>>

StartStep == SpawnSeries \/ Launch("spawner") \/ Count("spawner") \/ Schedule("spawner") \/ LostSeries
             \/ Finish("spawner") \/ CloseFinished("spawner") \/ GiveBack("spawner")

TickStep ==
    \/ FireSeries \/ Bounds \/ Launch("manager") \/ Count("manager") \/ Schedule("manager")
    \/ Unschedule \/ Finish("manager") \/ CloseFinished("manager")

EndStep(a) == Judge(a) \/ FailSeries(a) \/ Close(a) \/ GiveBack(a)

----------------------------------------------------------------------------
(* A run, which publishes into the schedule's slot. *)

\* A thread takes it up
Work(k) ==
    /\ run[k].at = "queued" /\ At(k, "working")
    /\ UNCHANGED <<pc, slotVars, kq, batch, series>> /\ UNCHANGED Others

\* The run's own end, by panic, or publish and its begin: the first output, or a look
\* at the kind
Publish(k) ==
    /\ run[k].at = "working"
    /\ \/ /\ st = "pending" /\ st' = "running" /\ At(k, "writing")
       \/ /\ st # "pending" /\ At(k, IF series = "finished" THEN "close" ELSE "again")
          /\ UNCHANGED st
       \/ /\ scene.panics /\ At(k, "drop") /\ UNCHANGED st
    /\ UNCHANGED <<pc, task, parked, armed, word, held, pins, handle, extras, kq, batch, series>> /\ UNCHANGED Others

\* A later output replaces the last one, unless another run is writing or it is stopped
PublishAgain(k) ==
    /\ run[k].at = "again"
    /\ IF st = "ready" THEN st' = "running" /\ At(k, "writing")
       ELSE At(k, "close") /\ UNCHANGED st
    /\ UNCHANGED <<pc, task, parked, armed, word, held, pins, handle, extras, kq, batch, series>> /\ UNCHANGED Others

\* One stopped mid write leaves the value for the last listener out
Published(k) ==
    /\ run[k].at = "writing"
    /\ IF st = "running" THEN st' = "ready" /\ At(k, "close")
       ELSE At(k, "drop") /\ UNCHANGED st
    /\ UNCHANGED <<pc, task, parked, armed, word, held, pins, handle, extras, kq, batch, series>> /\ UNCHANGED Others

\* Mutant: a run leaves the forwards to the end of the schedule
CloseBehindNot(k) ==
    /\ run[k].at = "close" /\ At(k, "drop")
    /\ UNCHANGED <<pc, slotVars, kq, batch, series>> /\ UNCHANGED Others

\* close_finished_series, once the output is out
CloseBehind(k) ==
    /\ run[k].at = "close"
    /\ extras' = (extras /\ (series # "finished" \/ st = "pending")) /\ At(k, "drop")
    /\ UNCHANGED <<pc, st, task, parked, armed, word, held, pins, handle, kq, batch, series>> /\ UNCHANGED Others

\* SeriesRun is dropped, and its claim with it
DropRun(k) ==
    /\ run[k].at = "drop"
    /\ pins' = pins \ {k} /\ At(k, "over")
    /\ UNCHANGED <<pc, st, task, parked, armed, word, held, handle, extras, kq, batch, series>> /\ UNCHANGED Others

RunStep(k) == Work(k) \/ Publish(k) \/ PublishAgain(k) \/ Published(k) \/ CloseBehind(k) \/ DropRun(k)

\* timed_out of a run: the schedule is held, the run settles, and the schedule is
\* stopped with it. Its claim on the slot is number 0
Late(k) ==
    /\ pc["manager"] = "listen" /\ life = "running"
    /\ scene.timeout /\ run[k].at \notin {"queued", "over"} /\ ~run[k].late
    /\ run' = [run EXCEPT ![k].late = TRUE]
    /\ pins' = pins \cup {0} /\ Go("manager", "stop_series")
    /\ UNCHANGED <<st, task, parked, armed, word, held, handle, extras, kq, batch, series>> /\ UNCHANGED Others

StopSeries ==
    /\ pc["manager"] = "stop_series"
    /\ st' = (IF st \in Over THEN st ELSE "timedout")
    /\ pins' = pins \ {0} /\ Go("manager", "handle")
    /\ UNCHANGED <<task, parked, armed, word, held, handle, extras, kq, batch>> /\ UNCHANGED <<Others, seriesVars>>

----------------------------------------------------------------------------
(* The manager and the runtime ending around it. *)

\* orphaned: a schedule went with the queue, and what runs is only one of its runs
OrphanSeries ==
    /\ pc["manager"] = "orphan" /\ scene.kind = "series"
    /\ Go("manager", IF ~Gone /\ (series # "finished" \/ armed) THEN "judge" ELSE "out")
    /\ UNCHANGED <<slotVars, kq, batch>> /\ UNCHANGED <<Others, seriesVars>>

\* The pool runs what it has
DrainSeries ==
    /\ pc["closer"] = "drain" /\ scene.kind = "series"
    /\ \A k \in DOMAIN run : run[k].at = "over"
    /\ Go("closer", "sweep")
    /\ UNCHANGED <<slotVars, kq, batch>> /\ UNCHANGED <<Others, seriesVars>>

SweepSeries ==
    /\ pc["closer"] = "sweep" /\ scene.kind = "series"
    /\ armed' = (armed /\ Gone)
    /\ Go("closer", IF Gone THEN "stopped" ELSE "judge")
    /\ UNCHANGED <<st, task, parked, word, held, pins, handle, extras, kq, batch>> /\ UNCHANGED <<Others, seriesVars>>

SeriesNext ==
    \/ ParksNext /\ UNCHANGED seriesVars
    \/ StartStep \/ TickStep \/ StopSeries \/ OrphanSeries \/ DrainSeries \/ SweepSeries
    \/ \E a \in {"manager", "closer"} : EndStep(a)
    \/ \E k \in DOMAIN run : RunStep(k) \/ Late(k)

\* Threads run and the clock goes off. A run need not be late
SeriesFair ==
    /\ ParksFair
    /\ WF_allVars(StartStep) /\ WF_allVars(TickStep \/ StopSeries \/ OrphanSeries \/ EndStep("manager"))
    /\ WF_allVars(DrainSeries \/ SweepSeries \/ EndStep("closer"))
    /\ \A k \in 1..MaxRuns : WF_allVars(k \in DOMAIN run /\ RunStep(k))

SeriesSpec == SeriesInit /\ [][SeriesNext]_allVars /\ SeriesFair

----------------------------------------------------------------------------
(* Properties. *)

\* A schedule is off the clock before its slot can be given to another task, for a
\* repeating timer stays until it is removed, and no run works in a slot that has been
\* given back. Once a finished schedule and its last run are through, an output that
\* can be read has reached everything it was forwarded to: whichever of
\* finish_series and the run's store comes second sees the other
\* (end_schedule, SeriesTask::launch, close_finished_series)
SeriesLetsGo ==
    scene.kind = "series" =>
        /\ ~held /\ alive = "up" => kq.timer = "none"
        /\ \A k \in DOMAIN run : run[k].at # "over" => ~Gone
        /\ series = "finished" /\ ~held /\ st = "ready" /\ (\A k \in DOMAIN run : run[k].at = "over") => ~extras

\* A schedule with a count is still held, or has not started every run of it though it
\* was not stopped, has not reached its deadline, and has its manager and the pool
SeriesOwed ==
    /\ scene.kind = "series"
    /\ held \/ ~(Len(run) = scene.runs \/ st \in Over \/ scene.until \/ alive # "up")

\* Everything the manager drives reaches its end: a task that is over is let go of,
\* wherever it was waiting, a timeout reaches its run, and a schedule starts what it
\* counts and comes off the clock (stopped, fire, timed_out, tick, end_schedule)
EverythingEnds == (RunOwed \/ SeriesOwed) ~> ~(RunOwed \/ SeriesOwed)

=============================================================================
