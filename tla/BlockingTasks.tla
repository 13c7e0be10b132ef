--------------------------- MODULE BlockingTasks ---------------------------
(***************************************************************************)
(* The tasks that hold a thread in the kernel: sleeps, programs run to     *)
(* their end, and waits for a program already running.  Each waits on its  *)
(* thread's own queue, and a cancel has to get it out of there: it takes   *)
(* hold of the queue through the task's `waiting` word and fires a trigger *)
(* into it.  The child, its pipes and the kernel's queues are modelled     *)
(* from how the code uses them.                                            *)
(***************************************************************************)
EXTENDS Integers, Sequences, FiniteSets, FiniteSetsExt, SequencesExt

CONSTANTS
    Threads,    \* threads of the pool
    NoThread,   \* nobody
    Room,       \* bytes a pipe holds
    Chunk,      \* `FILE_CHUNK`, the most one read or write moves
    Scenarios   \* what the threads are given to do, see `scene`

Streams == {"out", "err"} \* standard output and standard error
\* The jobs of file tasks, which Files takes up: those that are given a path, and
\* those that work on a file held open
PathJobs ==
    {"read", "read at", "write", "append", "write at", "open", "copy", "metadata", "link metadata",
     "remove", "remove dir", "create dir", "rename", "symlink", "hard link", "set permissions",
     "set len", "read link", "canonicalize", "read dir", "create dir all", "remove dir all",
     "watch", "watching"}
OpenJobs ==
    {"file read", "file write", "file append", "file len", "file sync", "file metadata",
     "lock", "try lock", "unlock", "file drop"}
Jobs == {"sleep", "status", "output", "spawn", "wait", "signal", "drop"} \cup PathJobs \cup OpenJobs
\* Things that go wrong at most once: a registration the kernel refuses, a call
\* that fails, no queue to be had, a child that stops reading or exits early, a volume
\* that can't clone, a directory that does not say what its entries are
Mishaps == {"refuse", "fail", "no queue", "early", "no clone", "unknown"}

ASSUME BlockingAssumption ==
    /\ NoThread \notin Threads /\ Room \in Nat \ {0} /\ Chunk \in Nat \ {0}
    /\ \A s \in Scenarios :
         /\ \A t \in Threads : s.jobs[t] \in Seq(Jobs)
         /\ s.cancels \subseteq Threads /\ s.size \in Nat /\ s.echo \in BOOLEAN
         /\ s.may \subseteq Mishaps

VARIABLES
    scene,      \* the jobs of each thread, who is cancelled, the input's size,
                \* whether the child echoes its input, what may go wrong
    may,        \* what may still go wrong
    \* the child
    kid,        \* "none", "running", "zombie" or "reaped"
    held,       \* the byte it has read and not written, 0 if none
    inp, outp,  \* the bytes in its input pipe and in its two output pipes
    wrote,      \* what it has written to each stream
    \* the exchange with it
    input,      \* whether this end of the input pipe is open
    sent,       \* how much of the input has gone into the pipe
    open,       \* the streams not yet read to their end
    evs,        \* what the last listen found ready and is not yet handled
    found,      \* what has been read from each stream
    \* the threads
    pc,         \* where each thread is
    nth,        \* which of its jobs it is on
    st,         \* the state of each of its tasks
    waiting,    \* the `waiting` word of the task it is on
    trig,       \* whether a trigger is waiting in its queue
    watch,      \* what its queue watches
    queue,      \* whether its queue is open
    waited,     \* what the last wait said
    res,        \* what its task is about to return
    guard,      \* whether its `Child` still holds a pid
    \* the rest
    can,        \* the canceller: where it is and whose task it is stopping
    lock,       \* who holds a `RunningChild`'s status
    status,     \* whether that status has been filled in
    ended,      \* `Inner::ended`
    refs,       \* handles and tasks that share the `Inner`
    stray       \* whether a pid was signalled after it had been reaped

child == <<kid, held, inp, outp, wrote>>
pipes == <<input, sent, open, evs, found>>
inner == <<lock, status, ended, refs>>
wait == <<waiting, trig, watch, queue, waited>>
vars == <<scene, may, child, pipes, inner, wait, pc, nth, st, res, guard, can, stray>>

At(t, p) == pc[t] = p
Go(t, p) == pc' = [pc EXCEPT ![t] = p]
Set(f, t, v) == [f EXCEPT ![t] = v]
Job(t) == scene.jobs[t][nth[t]]
Stopped(t) == st[t][nth[t]] = "Cancelled"
\* `CURRENT` is the task on this thread, so this is `executor::cancelled`
Mishap(m) == m \in may /\ may' = may \ {m}

Init ==
    /\ scene \in Scenarios /\ may = scene.may
    /\ kid = "none" /\ held = 0 /\ inp = <<>> /\ stray = FALSE
    /\ outp = [o \in Streams |-> <<>>] /\ wrote = outp /\ found = outp
    /\ input = FALSE /\ sent = 0 /\ open = {} /\ evs = {}
    /\ pc = [t \in Threads |-> "next"] /\ nth = [t \in Threads |-> 0]
    /\ st = [t \in Threads |-> [k \in 1..Len(scene.jobs[t]) |-> "Idle"]]
    /\ waiting = [t \in Threads |-> "no"] /\ trig = [t \in Threads |-> FALSE]
    /\ watch = [t \in Threads |-> {}] /\ queue = [t \in Threads |-> TRUE]
    /\ waited = [t \in Threads |-> "none"] /\ res = waited
    /\ guard = [t \in Threads |-> FALSE] /\ can = <<"idle", NoThread>>
    /\ lock = NoThread /\ status = FALSE /\ ended = FALSE
    /\ refs = Cardinality({<<t, k>> \in Threads \X (1..4) :
                 k <= Len(scene.jobs[t]) /\ scene.jobs[t][k] \in {"wait", "signal", "drop"}})

-----------------------------------------------------------------------------
(* The child.                                                              *)

Captured == \E t \in Threads : nth[t] > 0 /\ Job(t) = "output"

KidReads ==
    /\ kid = "running" /\ scene.echo /\ held = 0 /\ inp # <<>>
    /\ held' = Head(inp) /\ inp' = Tail(inp)
    /\ UNCHANGED <<kid, outp, wrote>>

KidWrites ==
    /\ kid = "running" /\ held # 0 /\ held' = 0
    /\ IF Captured
       THEN \E o \in Streams :
              /\ Len(outp[o]) < Room
              /\ outp' = Set(outp, o, Append(outp[o], held))
              /\ wrote' = Set(wrote, o, Append(wrote[o], held))
       ELSE UNCHANGED <<outp, wrote>>
    /\ UNCHANGED <<kid, inp>>

\* At the end of its input, or when it feels like it
KidExits ==
    /\ kid = "running" /\ kid' = "zombie"
    /\ scene.echo /\ "early" \notin scene.may => inp = <<>> /\ ~input /\ held = 0
    /\ UNCHANGED <<held, inp, outp, wrote>>

KidStep ==
    /\ KidReads \/ KidWrites \/ KidExits
    /\ UNCHANGED <<scene, may, pipes, inner, wait, pc, nth, st, res, guard, can, stray>>

\* `SIGKILL` to the group and to the child, as far as the child is concerned
Kill ==
    /\ kid' = IF kid = "running" THEN "zombie" ELSE kid
    /\ stray' = (stray \/ kid = "reaped")

\* What a watch on the queue would report now
Ready(t) ==
    {w \in watch[t] :
        \/ w = "in" /\ (Len(inp) < Room \/ kid # "running")
        \/ w \in Streams /\ (outp[w] # <<>> \/ kid # "running")
        \/ w = "timer"}

-----------------------------------------------------------------------------
(* The jobs.                                                               *)

Keep == UNCHANGED <<scene, st, can>>
\* The queue is watching nothing of `ws` any more
Unwatch(t, ws) == watch' = Set(watch, t, watch[t] \ ws)
Still == UNCHANGED <<child, pipes, inner, stray>>

\* A thread takes its next task, which it has just made `Running`
Take(t) ==
    /\ At(t, "next") /\ nth[t] < Len(scene.jobs[t])
    /\ scene.jobs[t][nth[t] + 1] \in {"wait", "signal"} => kid # "none"
    /\ nth' = Set(nth, t, nth[t] + 1)
    /\ st' = [st EXCEPT ![t][nth[t] + 1] = "Running"]
    /\ Go(t, "begin")
    /\ UNCHANGED <<scene, may, child, pipes, inner, wait, res, guard, can, stray>>

\* A thread with nothing left ends, and its queue is closed with it
Exit(t) ==
    /\ At(t, "next") /\ nth[t] = Len(scene.jobs[t])
    /\ Go(t, "exit") /\ queue' = Set(queue, t, FALSE)
    /\ UNCHANGED <<scene, may, child, pipes, inner, waiting, trig, watch, waited,
                   nth, st, res, guard, can, stray>>

Returns(t, r) == res' = Set(res, t, r) /\ Go(t, "return")

\* `SleepTask::execute`, with `wait_on_own` or, with no queue, `wait_on_reactor`
Sleep(t) ==
    /\ At(t, "begin") /\ Job(t) = "sleep"
    /\ \/ /\ watch' = Set(watch, t, watch[t] \cup {"timer"})
          /\ Go(t, "enter") /\ UNCHANGED <<may, res>>
       \/ Mishap("refuse") /\ Returns(t, "ok") /\ UNCHANGED watch
       \/ Mishap("no queue") /\ Go(t, "reactor") /\ UNCHANGED <<watch, res>>
    /\ Keep /\ Still /\ UNCHANGED <<waiting, trig, queue, waited, nth, guard>>

\* `Waiter::wait`, which no cancel reaches
Reactor(t) ==
    /\ At(t, "reactor") /\ Returns(t, "ok")
    /\ Keep /\ Still /\ UNCHANGED <<wait, may, nth, guard>>

\* `StatusTask::execute` and `OutputTask::execute` as far as the exchange:
\* a task already cancelled never runs the program
Spawn(t) ==
    /\ At(t, "begin") /\ Job(t) \in {"status", "output", "spawn"}
    /\ \/ Stopped(t) /\ Returns(t, "Cancelled") /\ UNCHANGED <<may, child, pipes, guard>>
       \/ ~Stopped(t) /\ Mishap("fail") /\ Returns(t, "error") /\ UNCHANGED <<child, pipes, guard>>
       \/ /\ ~Stopped(t) /\ kid' = "running"
          /\ guard' = Set(guard, t, Job(t) # "spawn")
          /\ input' = (Job(t) # "spawn" /\ scene.size > 0)
          /\ open' = IF Job(t) = "output" THEN Streams ELSE {}
          /\ IF Job(t) = "spawn" THEN Returns(t, "ok")
             ELSE /\ Go(t, IF input' \/ open' # {} THEN "exchange" ELSE "watch")
                  /\ UNCHANGED res
          /\ UNCHANGED <<may, held, inp, outp, wrote, sent, evs, found>>
    /\ Keep /\ UNCHANGED <<inner, wait, nth, stray>>

\* `exchange` registers its watches, and gives way to `poll_exchange` when the
\* thread has no queue
Exchange(t) ==
    /\ At(t, "exchange")
    /\ \/ /\ watch' = Set(watch, t, open \cup (IF input THEN {"in"} ELSE {}))
          /\ Go(t, "enter") /\ UNCHANGED <<may, res>>
       \/ Mishap("refuse") /\ res' = Set(res, t, "error") /\ Go(t, "close") /\ UNCHANGED watch
       \/ Mishap("no queue") /\ Go(t, "poll pipes") /\ UNCHANGED <<watch, res>>
    /\ Keep /\ Still /\ UNCHANGED <<waiting, trig, queue, waited, nth, guard>>

\* `write_chunk` and `Feed::push`: the end is closed once everything is in or the
\* child has stopped reading
Push(t) ==
    LET room == Room - Len(inp)
        put == Min({scene.size - sent, Chunk, room}) IN
    /\ "in" \in evs /\ evs' = evs \ {"in"}
    /\ IF kid # "running"
       THEN input' = FALSE /\ UNCHANGED <<inp, sent>>
       ELSE /\ inp' = inp \o [i \in 1..put |-> sent + i]
            /\ sent' = sent + put /\ input' = (sent' < scene.size)
    /\ Unwatch(t, IF input' THEN {} ELSE {"in"})
    /\ UNCHANGED <<outp, open, found>>

\* `read_chunk`: nothing read is the end of the stream
Pull(t) ==
    \E o \in evs \cap Streams :
        LET got == Min({Chunk, Len(outp[o])}) IN
        /\ evs' = evs \ {o}
        /\ found' = Set(found, o, found[o] \o SubSeq(outp[o], 1, got))
        /\ outp' = Set(outp, o, SubSeq(outp[o], got + 1, Len(outp[o])))
        /\ open' = IF got = 0 THEN open \ {o} ELSE open
        /\ Unwatch(t, open \ open')
        /\ UNCHANGED <<inp, sent, input>>

\* Mutant: the exchange is over when the input is
PumpingInput == input

\* Whether `pump` or `poll_exchange` has a reason to go round again
Pumping == open # {} \/ input

\* `pump` listens: a trigger is taken out of the queue with the rest
Listen(t) ==
    /\ At(t, "pump") /\ evs = {} /\ Pumping
    /\ Ready(t) # {} \/ trig[t]
    /\ \E some \in SUBSET Ready(t) :
         /\ some # {} \/ trig[t]
         /\ evs' = some
    /\ trig' = Set(trig, t, FALSE) /\ Go(t, "handle")
    /\ Keep /\ UNCHANGED <<may, child, input, sent, open, found, inner, stray, waiting,
                           watch, queue, waited, nth, res, guard>>

\* Every event of the lap, then the look at the task's own state
Handle(t) ==
    /\ At(t, "handle") /\ evs # {}
    /\ \/ Push(t) /\ UNCHANGED <<may, pc, res>>
       \/ Pull(t) /\ UNCHANGED <<may, pc, res>>
       \/ /\ Mishap("fail") /\ res' = Set(res, t, "error") /\ Go(t, "leave")
          /\ UNCHANGED <<inp, outp, pipes, watch>>
    /\ Keep /\ UNCHANGED <<kid, held, wrote, inner, stray, waiting, trig, queue, waited, nth, guard>>

Lap(t) ==
    /\ At(t, "handle") /\ evs = {}
    /\ IF Stopped(t) THEN res' = Set(res, t, "Cancelled") /\ Go(t, "leave")
                     ELSE Go(t, "pump") /\ UNCHANGED res
    /\ Keep /\ Still /\ UNCHANGED <<may, wait, nth, guard>>

Pumped(t) ==
    /\ At(t, "pump") /\ evs = {} /\ ~Pumping
    /\ res' = Set(res, t, "ok") /\ Go(t, "leave")
    /\ Keep /\ Still /\ UNCHANGED <<may, wait, nth, guard>>

\* `poll_exchange`: the cancel is looked for before every bounded poll
PollPipes(t) ==
    /\ At(t, "poll pipes")
    /\ LET ready == {e \in open \cup (IF input THEN {"in"} ELSE {}) :
                       IF e = "in" THEN Len(inp) < Room \/ kid # "running"
                                   ELSE outp[e] # <<>> \/ kid # "running"} IN
       IF evs # {}
       THEN /\ Push(t) \/ Pull(t)
            /\ UNCHANGED <<pc, res>>
       ELSE \/ /\ ~Pumping /\ Go(t, "poll") /\ UNCHANGED <<inp, outp, pipes, watch, res>>
            \/ /\ Pumping /\ Stopped(t) /\ input' = FALSE
               /\ res' = Set(res, t, "Cancelled") /\ Go(t, "close")
               /\ UNCHANGED <<inp, outp, sent, open, evs, found, watch>>
            \/ /\ Pumping /\ ~Stopped(t) /\ ready # {} /\ evs' = ready
               /\ UNCHANGED <<inp, outp, input, sent, open, found, watch, pc, res>>
    /\ Keep /\ UNCHANGED <<may, kid, held, wrote, inner, stray, waiting, trig, queue, waited, nth, guard>>

\* A poll, a read or a write that fails ends it
PollFails(t) ==
    /\ At(t, "poll pipes") /\ (Pumping \/ evs # {}) /\ Mishap("fail")
    /\ res' = Set(res, t, "error") /\ Go(t, "close")
    /\ Keep /\ Still /\ UNCHANGED <<wait, nth, guard>>

\* The guards take every watch back off and close the input; a failure drops the
\* `Child`, and anything else waits for it to exit
Close(t) ==
    /\ At(t, "close") /\ input' = FALSE /\ open' = {} /\ evs' = {}
    /\ Unwatch(t, Streams \cup {"in"})
    /\ Go(t, IF res[t] = "ok" THEN "watch" ELSE "return")
    /\ Keep /\ UNCHANGED <<may, child, sent, found, inner, stray, waiting, trig, queue, waited, nth, res, guard>>

-----------------------------------------------------------------------------
(* `wait_exit`.                                                            *)

\* `RunningChild::wait_here` takes the status, which only one thread at a time
\* holds, however long the one inside waits
WaitHere(t) ==
    /\ At(t, "begin") /\ Job(t) = "wait" /\ lock = NoThread
    /\ \/ status /\ Returns(t, "ok") /\ UNCHANGED <<lock, guard>>
       \/ ~status /\ Stopped(t) /\ Returns(t, "Cancelled") /\ UNCHANGED <<lock, guard>>
       \/ /\ ~status /\ ~Stopped(t) /\ lock' = t /\ guard' = Set(guard, t, TRUE)
          /\ Go(t, "watch") /\ UNCHANGED res
    /\ Keep /\ UNCHANGED <<may, child, pipes, status, ended, refs, stray, wait, nth>>

\* The exit is watched for; a child already gone may be refused by the kernel
Watch(t) ==
    /\ At(t, "watch")
    /\ \/ /\ kid # "reaped" /\ watch' = Set(watch, t, watch[t] \cup {"proc"})
          /\ Go(t, "try") /\ UNCHANGED may
       \/ /\ kid # "running" /\ Go(t, "poll") /\ UNCHANGED <<watch, may>>
       \/ /\ Mishap("refuse") \/ Mishap("no queue")
          /\ Go(t, "poll") /\ UNCHANGED watch
    /\ Keep /\ Still /\ UNCHANGED <<waiting, trig, queue, waited, nth, res, guard>>

\* `try_reap`: what `waitpid` says, and the child it may have reaped
Reaps == kid' = IF kid = "zombie" THEN "reaped" ELSE kid
Said == CASE kid = "running" -> "none" [] kid = "zombie" -> "ok" [] OTHER -> "error"

Try(t) ==
    /\ At(t, "try") /\ Reaps
    /\ IF Said = "none" THEN Go(t, "enter") /\ UNCHANGED <<res, guard, watch>>
       ELSE /\ Returns(t, Said) /\ guard' = Set(guard, t, FALSE)
            /\ Unwatch(t, {"proc"})
    /\ Keep /\ UNCHANGED <<may, held, inp, outp, wrote, pipes, inner, stray, waiting, trig, queue, waited, nth>>

\* `wait_for_upto` is bounded, so it comes back whenever it likes; a trigger left
\* over from another task is taken out and says nothing
Doze(t) ==
    /\ At(t, "doze")
    /\ \/ /\ waited' = Set(waited, t, IF trig[t] /\ Stopped(t) THEN "cancelled" ELSE "arrived")
          /\ trig' = Set(trig, t, FALSE) /\ UNCHANGED may
       \/ Mishap("fail") /\ waited' = Set(waited, t, "failed") /\ UNCHANGED trig
    /\ Go(t, "ask")
    /\ Keep /\ Still /\ UNCHANGED <<waiting, watch, queue, nth, res, guard>>

\* Every lap asks the child rather than believing the wake
Ask(t) ==
    /\ At(t, "ask") /\ Reaps
    /\ IF Said # "none" THEN res' = Set(res, t, Said) /\ Go(t, "leave")
       ELSE IF waited[t] = "cancelled" \/ Stopped(t)
       THEN res' = Set(res, t, "Cancelled") /\ Go(t, "leave")
       ELSE IF waited[t] = "failed" THEN res' = Set(res, t, "none") /\ Go(t, "leave")
       ELSE Go(t, "doze") /\ UNCHANGED res
    /\ waited' = Set(waited, t, "none")
    /\ Keep /\ UNCHANGED <<may, held, inp, outp, wrote, pipes, inner, stray, waiting, trig, watch, queue, nth, guard>>

\* `poll_exit`, for when nothing will arrive on the queue
PollExit(t) ==
    /\ At(t, "poll") /\ Reaps
    /\ IF Said # "none" THEN Returns(t, Said) /\ guard' = Set(guard, t, FALSE)
       ELSE Stopped(t) /\ Returns(t, "Cancelled") /\ UNCHANGED guard
    /\ Keep /\ UNCHANGED <<may, held, inp, outp, wrote, pipes, inner, stray, wait, nth>>

-----------------------------------------------------------------------------
(* Into a wait and out of it again.                                        *)

Exiting(t) == "proc" \in watch[t]

\* What a task does that is told not to wait at all
TurnBack(t) ==
    IF Job(t) # "sleep" /\ ~Exiting(t)
    THEN res' = Set(res, t, "Cancelled") /\ Go(t, "close") /\ UNCHANGED watch
    ELSE Returns(t, "Cancelled") /\ Unwatch(t, {"timer", "proc"})

\* `waiting_on`: the first look at the state
Enter(t) ==
    /\ At(t, "enter")
    /\ IF Stopped(t) THEN TurnBack(t) ELSE Go(t, "record") /\ UNCHANGED <<res, watch>>
    /\ Keep /\ Still /\ UNCHANGED <<may, waiting, trig, queue, waited, nth, guard>>

Record(t) ==
    /\ At(t, "record") /\ waiting' = Set(waiting, t, "queue") /\ Go(t, "recheck")
    /\ Keep /\ Still /\ UNCHANGED <<may, trig, watch, queue, waited, nth, res, guard>>

Begun(t) == Go(t, IF Job(t) = "sleep" THEN "timer" ELSE IF Exiting(t) THEN "doze" ELSE "pump")

\* Mutant: the queue is recorded and the state not looked at again
RecheckNot(t) ==
    /\ At(t, "recheck") /\ Begun(t)
    /\ Keep /\ Still /\ UNCHANGED <<may, wait, nth, res, guard>>

\* `waiting_on`: the second look, since a cancel before the record found nothing
Recheck(t) ==
    /\ At(t, "recheck")
    /\ IF Stopped(t)
       THEN waiting[t] # "cancelling" /\ waiting' = Set(waiting, t, "no") /\ TurnBack(t)
       ELSE Begun(t) /\ UNCHANGED <<waiting, res, watch>>
    /\ Keep /\ Still /\ UNCHANGED <<may, trig, queue, waited, nth, guard>>

\* `wait_for` on a timer: a trigger means nothing unless the task was stopped, and a
\* wait that fails is spun out
Timer(t) ==
    /\ At(t, "timer")
    /\ \/ /\ "timer" \in watch[t] /\ Unwatch(t, {"timer"})
          /\ waited' = Set(waited, t, "arrived") /\ Go(t, "leave") /\ UNCHANGED <<may, trig>>
       \/ /\ Mishap("fail") /\ waited' = Set(waited, t, "failed") /\ Go(t, "leave") /\ UNCHANGED <<trig, watch>>
       \/ /\ trig[t] /\ trig' = Set(trig, t, FALSE) /\ UNCHANGED <<may, watch>>
          /\ IF Stopped(t) THEN waited' = Set(waited, t, "cancelled") /\ Go(t, "leave")
                           ELSE UNCHANGED <<waited, pc>>
    /\ Keep /\ Still /\ UNCHANGED <<waiting, queue, nth, res, guard>>

\* Mutant: a cancel part way through its calls is not waited out
LeaveAtOnce(t) ==
    /\ At(t, "leave") /\ waiting' = Set(waiting, t, "no") /\ Go(t, "left")
    /\ Keep /\ Still /\ UNCHANGED <<may, trig, watch, queue, waited, nth, res, guard>>

\* `stopped_waiting` spins in `clear_waiting` while a cancel has hold of the queue
Leave(t) ==
    /\ At(t, "leave") /\ waiting[t] # "cancelling"
    /\ waiting' = Set(waiting, t, "no") /\ Go(t, "left")
    /\ Keep /\ Still /\ UNCHANGED <<may, trig, watch, queue, waited, nth, res, guard>>

\* and then says whether the task is still worth carrying on with
Left(t) ==
    /\ At(t, "left") /\ waited' = Set(waited, t, "none")
    /\ \/ /\ Job(t) = "sleep" /\ UNCHANGED <<watch, guard>>
          /\ Returns(t, IF Stopped(t) \/ waited[t] = "cancelled" THEN "Cancelled" ELSE "ok")
       \/ /\ Job(t) # "sleep" /\ ~Exiting(t) /\ UNCHANGED <<watch, guard>>
          /\ res' = IF Stopped(t) THEN Set(res, t, "Cancelled") ELSE res
          /\ Go(t, "close")
       \/ /\ Exiting(t) /\ Unwatch(t, {"proc"})
          /\ IF res[t] = "none" THEN Go(t, "poll") /\ UNCHANGED <<res, guard>>
             ELSE IF Stopped(t) THEN Returns(t, "Cancelled") /\ UNCHANGED guard
             ELSE Returns(t, res[t]) /\ guard' = Set(guard, t, FALSE)
    /\ Keep /\ Still /\ UNCHANGED <<may, waiting, trig, queue, nth>>

-----------------------------------------------------------------------------
(* Out of a job.                                                           *)

\* Mutant: nothing is done about a child that was not waited for
ReturnForgets(t) ==
    /\ At(t, "return") /\ Job(t) \in {"status", "output"}
    /\ Go(t, "over") /\ guard' = Set(guard, t, FALSE)
    /\ Keep /\ Still /\ UNCHANGED <<may, wait, nth, res>>

\* `Child::drop`: killed before it is waited for
Return(t) ==
    /\ At(t, "return") /\ Job(t) \in {"status", "output"}
    /\ Go(t, IF guard[t] THEN "kill" ELSE "over")
    /\ Keep /\ Still /\ UNCHANGED <<may, wait, nth, res, guard>>

\* The end of `wait_here`: what the wait came to is kept for the next
Waited(t) ==
    /\ At(t, "return") /\ Job(t) = "wait" /\ Go(t, "unref")
    /\ IF lock = t
       THEN /\ lock' = NoThread /\ guard' = Set(guard, t, FALSE)
            /\ status' = (status \/ res[t] = "ok") /\ ended' = (ended \/ res[t] # "Cancelled")
       ELSE UNCHANGED <<lock, guard, status, ended>>
    /\ Keep /\ UNCHANGED <<may, child, pipes, refs, stray, wait, nth, res>>

\* A task that held no child returns, and the user drops a handle
Plain(t) ==
    /\ \/ At(t, "return") /\ Job(t) \in {"sleep", "spawn"} /\ Go(t, "over")
       \/ At(t, "return") /\ Job(t) = "signal" /\ Go(t, "unref")
       \/ At(t, "begin") /\ Job(t) = "drop" /\ Go(t, IF kid = "none" THEN "over" ELSE "unref")
    /\ Keep /\ Still /\ UNCHANGED <<may, wait, nth, res, guard>>

\* `ChildSignalTask::send`: the status is looked at and let go of at once
SignalLook(t) ==
    /\ At(t, "begin") /\ Job(t) = "signal"
    /\ IF lock = NoThread /\ status THEN Returns(t, "error") ELSE Go(t, "ended") /\ UNCHANGED res
    /\ Keep /\ Still /\ UNCHANGED <<may, wait, nth, guard>>

SignalEnded(t) ==
    /\ At(t, "ended")
    /\ IF ended THEN Returns(t, "error") ELSE Go(t, "send") /\ UNCHANGED res
    /\ Keep /\ Still /\ UNCHANGED <<may, wait, nth, guard>>

SignalSend(t) ==
    /\ At(t, "send") /\ Returns(t, "ok")
    /\ Kill \/ (kid = "running" /\ UNCHANGED <<kid, stray>>)
    /\ Keep /\ UNCHANGED <<may, held, inp, outp, wrote, pipes, inner, wait, nth, guard>>

\* `Inner::drop`, by whoever lets go last
Unref(t) ==
    /\ At(t, "unref") /\ refs' = refs - 1
    /\ Go(t, IF refs' = 0 /\ ~ended THEN "kill" ELSE "over")
    /\ Keep /\ UNCHANGED <<may, child, pipes, lock, status, ended, stray, wait, nth, res, guard>>

\* `kill_and_reap`
KillChild(t) ==
    /\ At(t, "kill") /\ Kill /\ Go(t, "reap")
    /\ Keep /\ UNCHANGED <<may, held, inp, outp, wrote, pipes, inner, wait, nth, res, guard>>

Reap(t) ==
    /\ At(t, "reap") /\ kid # "running" /\ kid' = "reaped"
    /\ Go(t, "over") /\ guard' = Set(guard, t, FALSE)
    /\ Keep /\ UNCHANGED <<may, held, inp, outp, wrote, pipes, inner, wait, stray, nth, res>>

\* The thread is done with the task
Over(t) ==
    /\ At(t, "over") /\ Go(t, "next")
    /\ st' = [st EXCEPT ![t][nth[t]] = IF @ = "Running" THEN "Ready" ELSE @]
    /\ res' = Set(res, t, "none")
    /\ UNCHANGED <<scene, can, may, child, pipes, inner, wait, stray, nth, guard>>

-----------------------------------------------------------------------------
(* The canceller: `stop` and `interrupt`.                                  *)

Idle == UNCHANGED <<scene, may, child, pipes, inner, pc, nth, res, guard, stray, queue, waited>>

Cancel(t) ==
    /\ can[1] = "idle" /\ t \in scene.cancels /\ nth[t] = 1 /\ st[t][1] = "Running"
    /\ st' = [st EXCEPT ![t][1] = "Cancelled"] /\ can' = <<"claim", t>>
    /\ Idle /\ UNCHANGED <<waiting, trig, watch>>

\* `claim_waiting`
ClaimWaiting(t) ==
    /\ can = <<"claim", t>>
    /\ IF nth[t] = 1 /\ waiting[t] = "queue"
       THEN waiting' = Set(waiting, t, "cancelling") /\ can' = <<"delete", t>>
       ELSE can' = <<"idle", NoThread>> /\ UNCHANGED waiting
    /\ Idle /\ UNCHANGED <<st, trig, watch>>

\* The timer at the task's id comes off
DeleteTimer(t) ==
    /\ can = <<"delete", t>> /\ Unwatch(t, {"timer"}) /\ can' = <<"trigger", t>>
    /\ Idle /\ UNCHANGED <<st, waiting, trig>>

Trigger(t) ==
    /\ can = <<"trigger", t>> /\ trig' = Set(trig, t, TRUE) /\ can' = <<"release", t>>
    /\ Idle /\ UNCHANGED <<st, waiting, watch>>

\* `release_waiting`
ReleaseWaiting(t) ==
    /\ can = <<"release", t>> /\ waiting' = Set(waiting, t, "no")
    /\ can' = <<"idle", NoThread>>
    /\ Idle /\ UNCHANGED <<st, trig, watch>>

CancelStep(t) == ClaimWaiting(t) \/ DeleteTimer(t) \/ Trigger(t) \/ ReleaseWaiting(t)

BeginStep(t) == Take(t) \/ Exit(t) \/ Sleep(t) \/ Reactor(t) \/ Spawn(t) \/ WaitHere(t)
ExchangeStep(t) ==
    Exchange(t) \/ Listen(t) \/ Handle(t) \/ Lap(t) \/ Pumped(t) \/ PollPipes(t) \/ PollFails(t) \/ Close(t)
ExitStep(t) == Watch(t) \/ Try(t) \/ Doze(t) \/ Ask(t) \/ PollExit(t)
WaitStep(t) == Enter(t) \/ Record(t) \/ Recheck(t) \/ Timer(t) \/ Leave(t) \/ Left(t)
SignalStep(t) == SignalLook(t) \/ SignalEnded(t) \/ SignalSend(t)
EndStep(t) ==
    Return(t) \/ Waited(t) \/ Plain(t) \/ Unref(t) \/ KillChild(t) \/ Reap(t) \/ Over(t)
Step(t) ==
    BeginStep(t) \/ ExchangeStep(t) \/ ExitStep(t) \/ WaitStep(t) \/ SignalStep(t) \/ EndStep(t)

Next == KidStep \/ \E t \in Threads : Step(t) \/ Cancel(t) \/ CancelStep(t)

\* Threads and the canceller keep running.  A child that echoes keeps echoing; one
\* that does not owes nobody anything.
Spec ==
    /\ Init /\ [][Next]_vars
    /\ \A t \in Threads : WF_vars(Step(t)) /\ WF_vars(CancelStep(t))
    /\ WF_vars(scene.echo /\ KidStep)

-----------------------------------------------------------------------------
(* Properties.                                                             *)

\* An `OutputTask` that says it worked has read both streams to their end, and a
\* child that reads to the end of its input was given all of it, whatever the
\* order the pipes were ready in and however little they hold (`exchange`)
OutputWhole ==
    \A t \in Threads : At(t, "over") /\ Job(t) = "output" /\ res[t] = "ok" =>
        /\ found = wrote
        /\ scene.echo /\ "early" \notin scene.may =>
             Len(wrote["out"]) + Len(wrote["err"]) = scene.size

\* When every task is over the child has been waited for, its pipes are closed and
\* no thread's queue watches any of it, on every path out (`Child`, `Inner`,
\* `Feed` and `Reads` drop)
NothingLeft ==
    (\A t \in Threads : At(t, "exit")) =>
        /\ kid \in {"none", "reaped"} /\ ~input /\ lock = NoThread
        /\ \A t \in Threads : watch[t] \subseteq {"timer"} /\ waiting[t] = "no"

\* A canceller making its calls against a thread's queue never finds it closed:
\* `clear_waiting` holds the thread inside its task until it is done.  And a
\* trigger left in the queue by then cuts no other task short
CancelKeepsToItsOwn ==
    /\ can[1] \in {"delete", "trigger", "release"} => queue[can[2]] /\ nth[can[2]] = 1
    /\ \A t \in Threads : At(t, "over") /\ res[t] = "Cancelled" => Stopped(t)

\* A thread whose task was cancelled, other than one waiting for another's wait to let
\* go of the child, or whose task exchanges bytes with a child that reads and writes
Due(t) ==
    /\ nth[t] # 0 /\ pc[t] \notin {"next", "exit"}
    /\ \/ nth[t] = 1 /\ Stopped(t) /\ ~(Job(t) = "wait" /\ At(t, "begin"))
       \/ scene.echo /\ Job(t) \in {"output", "status"}

\* A cancelled task comes out of the kernel wherever the cancel finds it, and an
\* exchange always ends, neither side waiting on a full pipe (`exchange`, `wait`)
WaitsEnd == \A t \in Threads : Due(t) ~> ~Due(t)

\* A pid is signalled only while it is this process's child: the comment over
\* `Child::reaped` says `Drop` never signals a pid the kernel has handed back out
NoStraySignal == ~stray

=============================================================================
