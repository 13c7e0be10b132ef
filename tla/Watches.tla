------------------------------ MODULE Watches ------------------------------
(***************************************************************************)
(* `WatchTask`, which compares what a file is now with what it was when    *)
(* the last run reported, and the file tasks put together.  A "watch" is   *)
(* run by `Runtime::block`, and waits on its thread's own queue            *)
(* (`park::drive`); "watching" is one run of a spawned repeat, which keeps *)
(* its snapshot from run to run and parks.  How the pool keeps a parked    *)
(* task is Parks'; here it is a thread that waits.                         *)
(***************************************************************************)
EXTENDS Trees

NoSnapshot == [size |-> 0, mtime |-> 0, mode |-> 0, nlink |-> 0, at_path |-> -1]
NoWatch ==
    [fd |-> 0, parent |-> 0, seen |-> NoSnapshot, now |-> NoSnapshot, first |-> FALSE,
     armed |-> 0, fired |-> FALSE, notes |-> {}, deadline |-> FALSE, change |-> {}]

WKeep == FKeep /\ OpenKept /\ UNCHANGED <<fs, io>>
SetW(t, new) == w' = Set(w, t, new)

\* `Snapshot::take`, as far as the descriptor: the path is looked at next
Fields(n, path) ==
    [size |-> Len(fs.body[n]), mtime |-> fs.mtime[n], mode |-> fs.mode[n],
     nlink |-> Links(fs, n), at_path |-> path]

\* `Snapshot::against`: nothing else can be said of a file with no names left
Against(was, now, wanted) ==
    wanted \cap
      IF now.nlink = 0 THEN IF was.nlink # 0 THEN {"DELETE"} ELSE {}
      ELSE (IF now.at_path # was.at_path THEN {"RENAME"} ELSE {})
           \cup (IF now.nlink # was.nlink THEN {"LINK"} ELSE {})
           \cup (IF now.size > was.size THEN {"EXTEND"} ELSE {})
           \cup (IF now.mtime # was.mtime THEN {"WRITE"} ELSE {})
           \cup (IF now.mode # was.mode THEN {"ATTRIB"} ELSE {})

\* `advance`: a path that isn't there is waited for, if the task was told to
Advance(t) ==
    /\ Begins(t, {"watch", "watching"}) \/ At(t, "step")
    /\ LET mine == IF At(t, "begin") /\ Job(t) = "watch" THEN NoWatch ELSE w[t] IN
       /\ SetW(t, [mine EXCEPT !.change = {}])
       /\ Go(t, CASE mine.fd # 0 -> "look" [] mine.fd = 0 /\ Arg(t).appear -> "arrive" [] OTHER -> "open watch")
    /\ WKeep /\ UNCHANGED <<may, res>>

\* `arrival`
Arrive(t) ==
    /\ At(t, "arrive")
    /\ Go(t, IF Stat(fs, Arg(t).path) # 0 THEN "open watch"
             ELSE IF w[t].parent # 0 THEN "park parent" ELSE "open parent")
    /\ WKeep /\ UNCHANGED <<may, w, res>>

\* The path is looked for again once its directory is open
OpenParent(t) ==
    /\ At(t, "open parent")
    /\ LET n == Parent(fs, Arg(t).path) IN
       IF n = 0 THEN Returns(t, "error") /\ UNCHANGED w
       ELSE SetW(t, [w[t] EXCEPT !.parent = n]) /\ Go(t, "arrive") /\ UNCHANGED res
    /\ WKeep /\ UNCHANGED may

\* `watching`: opened on the first run, and what is there now is what the next
\* look is against.  One gone again before it could be opened is still waited for
OpenWatch(t) ==
    /\ At(t, "open watch")
    /\ LET n == Stat(fs, Arg(t).path) IN
       \/ n = 0 /\ ~Arg(t).appear /\ Returns(t, "error") /\ UNCHANGED w
       \/ /\ n = 0 /\ Arg(t).appear
          /\ Go(t, IF w[t].parent # 0 THEN "park parent" ELSE "open parent") /\ UNCHANGED <<w, res>>
       \/ n # 0 /\ SetW(t, [w[t] EXCEPT !.fd = n, !.first = TRUE]) /\ Go(t, "look") /\ UNCHANGED res
    /\ WKeep /\ UNCHANGED may

Look(t) ==
    /\ At(t, "look") /\ SetW(t, [w[t] EXCEPT !.now = Fields(w[t].fd, 0)]) /\ Go(t, "look path")
    /\ WKeep /\ UNCHANGED <<may, res>>

Reports(t, new, change) == SetW(t, [new EXCEPT !.change = change]) /\ Returns(t, "ok")

\* The path's half of the snapshot, and what has moved: a first look becomes the
\* snapshot, and is a report of its own for a path that was waited for
LookPath(t) ==
    LET now == [w[t].now EXCEPT !.at_path = Stat(fs, Arg(t).path)]
        change == Against(w[t].seen, now, Arg(t).wanted) IN
    /\ At(t, "look path")
    /\ \/ /\ w[t].first /\ w[t].parent = 0
          /\ SetW(t, [w[t] EXCEPT !.seen = now, !.first = FALSE]) /\ Go(t, "look") /\ UNCHANGED res
       \/ /\ w[t].first /\ w[t].parent # 0
          /\ Reports(t, [w[t] EXCEPT !.seen = now, !.first = FALSE, !.parent = 0], {"CREATED"})
       \/ /\ ~w[t].first /\ change # {}
          /\ Reports(t, [w[t] EXCEPT !.seen = now], change)
       \/ ~w[t].first /\ change = {} /\ Go(t, "park file") /\ UNCHANGED <<w, res>>
    /\ WKeep /\ UNCHANGED may

\* Mutant: the watch is trusted to wake the task, with no backstop
ParkForever(t) ==
    /\ At(t, "park file") /\ Go(t, "parked")
    /\ SetW(t, [w[t] EXCEPT !.armed = w[t].fd, !.notes = Arg(t).wanted, !.fired = FALSE, !.deadline = FALSE])
    /\ WKeep /\ UNCHANGED <<may, res>>

\* The watch goes on: a change that landed since the look wakes nothing, so the
\* wait has a deadline unless nothing can happen to the file again
ParkFile(t) ==
    /\ At(t, "park file") /\ Go(t, "parked")
    /\ SetW(t, [w[t] EXCEPT !.armed = w[t].fd, !.notes = Arg(t).wanted, !.fired = FALSE,
                            !.deadline = w[t].seen.nlink # 0])
    /\ WKeep /\ UNCHANGED <<may, res>>

ParkParent(t) ==
    /\ At(t, "park parent") /\ Go(t, "parked")
    /\ SetW(t, [w[t] EXCEPT !.armed = w[t].parent, !.notes = {"WRITE"}, !.fired = FALSE, !.deadline = TRUE])
    /\ WKeep /\ UNCHANGED <<may, res>>

\* `wait_ready` with no queue, or a registration refused: it just sleeps for a bit
ParkPolls(t) ==
    /\ pc[t] \in {"park file", "park parent"} /\ Job(t) = "watch"
    /\ Mishap("no queue") \/ Mishap("refuse")
    /\ Go(t, "step") /\ WKeep /\ UNCHANGED <<w, res>>

\* Any wake will do, since the step that follows looks again; the registration is
\* taken off either way
Wake(t) ==
    /\ At(t, "parked") /\ (w[t].fired \/ w[t].deadline) /\ (Job(t) = "watching" => ~Stopped(t))
    /\ SetW(t, [w[t] EXCEPT !.armed = 0, !.fired = FALSE]) /\ Go(t, "step")
    /\ WKeep /\ UNCHANGED <<may, res>>

\* A parked task is taken down by its cancel, and not woken; a blocked one has no handle
Unparked(t) ==
    /\ At(t, "parked") /\ Job(t) = "watching" /\ Stopped(t)
    /\ SetW(t, [w[t] EXCEPT !.armed = 0, !.fired = FALSE]) /\ Returns(t, "Cancelled")
    /\ WKeep /\ UNCHANGED may

-----------------------------------------------------------------------------
(* The file tasks together.                                                *)

\* The task's descriptors close as it returns
FileReturn(t) ==
    /\ At(t, "return") /\ Job(t) \in PathJobs \cup OpenJobs /\ Go(t, "over")
    /\ io' = Set(io, t, NoIo)
    /\ FKeep /\ OpenKept /\ Calm /\ UNCHANGED res

ReadStep(t) == OpenRead(t) \/ FileRead(t) \/ ReadWhole(t) \/ ReadRange(t)
WriteStep(t) == OpenWrite(t) \/ FileWrite(t) \/ WriteAll(t)
OpenStep(t) == Open(t) \/ FileOp(t) \/ Lock(t) \/ Unlock(t) \/ FileDrop(t)
CopyStep(t) == CopyFrom(t) \/ CopyClone(t) \/ CopyTo(t) \/ Copying(t)
NameStep(t) ==
    \/ PathCall(t) \/ Metadata(t) \/ ReadLink(t) \/ Canonical(t) \/ OpenList(t) \/ ReadDir(t) \/ KindOf(t)
    \/ Mkdir(t) \/ MkdirStat(t)
TreeStep(t) ==
    \/ RemoveAll(t) \/ UnlinkRoot(t) \/ OpenRoot(t) \/ Empty(t) \/ LookEntry(t) \/ UnlinkEntry(t)
    \/ ListEntries(t) \/ Descend(t) \/ RemoveRoot(t)
WatchStep(t) ==
    \/ Advance(t) \/ Arrive(t) \/ OpenParent(t) \/ OpenWatch(t) \/ Look(t) \/ LookPath(t)
    \/ ParkFile(t) \/ ParkParent(t) \/ ParkPolls(t) \/ Wake(t) \/ Unparked(t)
FileStep(t) ==
    \/ BadPath(t) \/ FileReturn(t) \/ ReadStep(t) \/ WriteStep(t) \/ OpenStep(t)
    \/ CopyStep(t) \/ NameStep(t) \/ TreeStep(t) \/ WatchStep(t)

FileInit ==
    /\ Init /\ fs = scene.fs /\ descs = scene.descs /\ holds = scene.holds
    /\ io = [t \in Threads |-> NoIo] /\ w = [t \in Threads |-> NoWatch]

FileNext == (Next /\ UNCHANGED fileVars) \/ \E t \in Threads : FileStep(t)

allVars == <<vars, fileVars>>

\* Whichever of the two a thread is in
ThreadStep(t) ==
    IF nth[t] # 0 /\ Job(t) \in PathJobs \cup OpenJobs /\ pc[t] \notin {"over", "next", "exit"}
    THEN FileStep(t) ELSE Step(t) /\ UNCHANGED fileVars

\* The threads of BlockingTasks and its canceller keep running whatever they run
FileSpec ==
    /\ FileInit /\ [][FileNext]_allVars
    /\ \A t \in Threads : WF_allVars(ThreadStep(t))
    /\ WF_allVars((\E t \in Threads : CancelStep(t)) /\ UNCHANGED fileVars)
    /\ WF_allVars(scene.echo /\ KidStep /\ UNCHANGED fileVars)

-----------------------------------------------------------------------------
(* Properties.                                                             *)

\* What a run under way has not reported: the file has changed, or a path that was
\* waited for has come to be
Untold(t) ==
    /\ nth[t] > 0 /\ Job(t) \in {"watch", "watching"} /\ pc[t] \notin {"begin", "return", "over", "next", "exit"}
    /\ IF w[t].fd = 0 THEN Stat(fs, Arg(t).path) # 0
       ELSE ~w[t].first /\ Against(w[t].seen, Fields(w[t].fd, Stat(fs, Arg(t).path)), Arg(t).wanted) # {}

\* `advance`: a wanted change that lasts is reported, wherever it lands between the
\* look at the file and the watch going on; and a path that comes to be where one
\* was waited for is found (`arrival`)
WatchTells == \A t \in Threads : Untold(t) ~> ~Untold(t)
=============================================================================
