------------------------------- MODULE Files -------------------------------
(***************************************************************************)
(* The file tasks.  Each holds a thread of the pool and makes its calls    *)
(* one at a time, looking between them at whether it has been cancelled,   *)
(* while other tasks change the same files.  A call is a step.  The thread *)
(* and the canceller are BlockingTasks', and the kernel is FileSystem's;   *)
(* a call a signal interrupts is made again (`retried`), so is no step.    *)
(***************************************************************************)
EXTENDS BlockingTasks, FileSystem

CONSTANT OffMax     \* `i64::MAX`, the last offset the kernel takes

\* Every file task of a scene is given its path, data and options
ASSUME FilesAssumption ==
    /\ OffMax \in Nat
    /\ \A s \in Scenarios, t \in Threads : \A k \in DOMAIN s.jobs[t] :
         s.jobs[t][k] \in PathJobs \cup OpenJobs => k \in DOMAIN s.args[t]

VARIABLES
    fs,         \* the file system
    io,         \* each thread's task: its descriptors, where it writes, the size it
                \* was told, how much it has moved, and what it has found
    descs,      \* open files: the inode, whether each write goes on the end, the lock
    holds,      \* the `OpenFile` each thread's tasks work on
    w           \* each thread's `WatchTask`

fileVars == <<fs, io, descs, holds, w>>

NoIo == [fd |-> 0, to |-> 0, at |-> 0, size |-> 0, done |-> 0, buf |-> <<>>, stack |-> <<>>]
NoFile == [node |-> 0, appends |-> FALSE, lock |-> "none"]

Arg(t) == scene.args[t][nth[t]]
Begins(t, jobs) == At(t, "begin") /\ Job(t) \in jobs /\ Arg(t).path # <<>>
FKeep == UNCHANGED <<scene, child, pipes, inner, wait, nth, st, guard, can, stray>>
OpenKept == UNCHANGED <<descs, holds>>
Calm == UNCHANGED <<may, fs, w>>

\* The file system changes, and a watch on what changed is woken
Touch(new) ==
    /\ fs' = new
    /\ w' = [t \in Threads |->
              IF w[t].armed # 0 /\ Noted(fs, new, w[t].armed) \cap w[t].notes # {}
              THEN [w[t] EXCEPT !.fired = TRUE] ELSE w[t]]

\* A path with a zero byte in it, reported when the task runs (`c_path`)
BadPath(t) ==
    /\ At(t, "begin") /\ Job(t) \in PathJobs
    /\ Arg(t).path = <<>> \/ (Job(t) \in {"rename", "symlink", "hard link", "copy"} /\ Arg(t).other = <<>>)
    /\ Returns(t, "BadPath")
    /\ FKeep /\ OpenKept /\ Calm /\ UNCHANGED io

-----------------------------------------------------------------------------
(* Reading and writing.                                                    *)

\* `open`: the flags are "write", "append", "create", "new" and "truncate"
Refused(path, o) ==
    \/ Stat(fs, path) = 0 /\ (o \cap {"create", "new"} = {} \/ ~IsDir(fs, Parent(fs, path)))
    \/ LStat(fs, path) # 0 /\ (Stat(fs, path) = 0 \/ "new" \in o)
    \/ IsDir(fs, Stat(fs, path)) /\ "write" \in o
Opening(path, o) ==
    IF Stat(fs, path) = 0 THEN Make(fs, path, "file", <<>>)
    ELSE IF "truncate" \in o THEN Resize(fs, Stat(fs, path), 0) ELSE fs

\* `open_at`: the cancel is looked for first
OpenAt(t, path, o, ok) ==
    \/ Stopped(t) /\ Returns(t, "Cancelled") /\ UNCHANGED <<fs, w, io, descs, holds>>
    \/ ~Stopped(t) /\ Refused(path, o) /\ Returns(t, "error") /\ UNCHANGED <<fs, w, io, descs, holds>>
    \/ ~Stopped(t) /\ ~Refused(path, o) /\ Touch(Opening(path, o)) /\ ok

\* `ReadTask::execute`: a directory opens, and is turned away here
OpenRead(t) ==
    /\ Begins(t, {"read", "read at"})
    /\ OpenAt(t, Arg(t).path, {},
              LET n == Stat(fs, Arg(t).path) IN
              /\ IF IsDir(fs, n) THEN Returns(t, "error") ELSE Go(t, "read") /\ UNCHANGED res
              /\ io' = Set(io, t, [NoIo EXCEPT !.fd = n, !.size = Len(fs.body[n])])
              /\ OpenKept)
    /\ FKeep /\ UNCHANGED may

\* `WriteTask::execute`: a write at an offset must not go on the end
WriteFlags(t) ==
    {"write", "create"} \cup (IF Job(t) = "write" THEN {"truncate"} ELSE {})
OpenWrite(t) ==
    /\ Begins(t, {"write", "append", "write at"})
    /\ OpenAt(t, Arg(t).path, WriteFlags(t),
              /\ Go(t, "write") /\ UNCHANGED res
              /\ io' = Set(io, t, [NoIo EXCEPT !.fd = Stat(fs', Arg(t).path), !.at =
                                     CASE Job(t) = "write" -> 0 [] Job(t) = "append" -> -1
                                       [] OTHER -> Arg(t).at])
              /\ OpenKept)
    /\ FKeep /\ UNCHANGED may

\* What a read at `at` of up to `want` bytes may give: nothing only at the end
Got(n, at, want) ==
    LET most == Min({want, Chunk, Len(fs.body[n]) - at}) IN
    IF most <= 0 THEN {<<>>} ELSE {SubSeq(fs.body[n], at + 1, at + k) : k \in 1..most}

\* One turn of either loop
ReadChunk(t, at, want) ==
    \/ Stopped(t) /\ Returns(t, "Cancelled") /\ UNCHANGED io
    \/ /\ ~Stopped(t)
       /\ \E got \in Got(io[t].fd, at, want) :
            /\ io' = [io EXCEPT ![t].buf = @ \o got]
            /\ IF got = <<>> THEN Returns(t, "ok") ELSE UNCHANGED <<pc, res>>

\* `read_whole`: only a read that finds nothing ends it
ReadWhole(t) ==
    /\ At(t, "read") /\ Job(t) = "read"
    /\ \/ ReadChunk(t, Len(io[t].buf), Chunk) /\ UNCHANGED may
       \/ Mishap("fail") /\ Returns(t, "error") /\ UNCHANGED io
    /\ FKeep /\ OpenKept /\ UNCHANGED <<fs, w>>

\* `seek_to`
Seekable(at) == at <= OffMax

\* `read_range`
ReadRange(t) ==
    LET at == Arg(t).at + Len(io[t].buf)
        want == Arg(t).len - Len(io[t].buf) IN
    /\ At(t, "read") /\ Job(t) # "read"
    /\ \/ want = 0 /\ Returns(t, "ok") /\ UNCHANGED <<may, io>>
       \/ want > 0 /\ ~Stopped(t) /\ ~Seekable(at) /\ Returns(t, "error") /\ UNCHANGED <<may, io>>
       \/ want > 0 /\ ~Stopped(t) /\ Mishap("fail") /\ Returns(t, "error") /\ UNCHANGED io
       \/ want > 0 /\ (Stopped(t) \/ Seekable(at)) /\ ReadChunk(t, at, want) /\ UNCHANGED may
    /\ FKeep /\ OpenKept /\ UNCHANGED <<fs, w>>

\* Mutant: what is left after a short write is forgotten
WriteAllOnce(t) ==
    LET data == Arg(t).data
        at == IF io[t].at = -1 THEN Len(fs.body[io[t].fd]) ELSE io[t].at + io[t].done IN
    /\ At(t, "write")
    /\ \E k \in 1..Min({Len(data) - io[t].done, Chunk}) :
            /\ Touch(Write(fs, io[t].fd, at, SubSeq(data, io[t].done + 1, io[t].done + k)))
            /\ io' = [io EXCEPT ![t].done = Len(data)]
    /\ Returns(t, "ok") /\ FKeep /\ OpenKept /\ UNCHANGED may

\* A write that says where to, and does not follow its descriptor
Positional(t) == io[t].at # -1 /\ Job(t) # "write"

\* `write_all`: as many calls as it takes, each where the last one stopped. One that
\* puts nothing down is a failure too
WriteAll(t) ==
    LET data == Arg(t).data
        at == IF io[t].at = -1 THEN Len(fs.body[io[t].fd]) ELSE io[t].at + io[t].done
        left == Len(data) - io[t].done IN
    /\ At(t, "write")
    /\ \/ left = 0 /\ Returns(t, "ok") /\ Calm /\ UNCHANGED io
       \/ left > 0 /\ Stopped(t) /\ Returns(t, "Cancelled") /\ Calm /\ UNCHANGED io
       \/ /\ left > 0 /\ ~Stopped(t) /\ Positional(t) /\ ~Seekable(at)
          /\ Returns(t, "error") /\ Calm /\ UNCHANGED io
       \/ left > 0 /\ ~Stopped(t) /\ Mishap("fail") /\ Returns(t, "error") /\ UNCHANGED <<fs, w, io>>
       \/ /\ left > 0 /\ ~Stopped(t) /\ (Positional(t) => Seekable(at))
          /\ \E k \in 1..Min({left, Chunk}) :
               /\ Touch(Write(fs, io[t].fd, at, SubSeq(data, io[t].done + 1, io[t].done + k)))
               /\ io' = [io EXCEPT ![t].done = @ + k]
          /\ UNCHANGED <<may, pc, res>>
    /\ FKeep /\ OpenKept

-----------------------------------------------------------------------------
(* Files held open.                                                        *)

\* `OpenTask::flags`: a mix that can't mean anything
BadMix(o) ==
    LET writes == o \cap {"write", "append"} # {} IN
    \/ "read" \notin o /\ ~writes
    \/ o \cap {"create", "new"} # {} /\ ~writes
    \/ "truncate" \in o /\ ("write" \notin o \/ "append" \in o)

\* `OpenTask::execute`: an open file of its own, with nothing locked
Open(t) ==
    /\ Begins(t, {"open"})
    /\ LET o == Arg(t).opts
           writes == o \cap {"write", "append"} # {}
           d == Min({e \in DOMAIN descs : descs[e].node = 0}) IN
       \/ BadMix(o) /\ Returns(t, "BadArgument") /\ UNCHANGED <<fs, w, io, descs, holds>>
       \/ /\ ~BadMix(o)
          /\ OpenAt(t, Arg(t).path, o \cup (IF writes THEN {"write"} ELSE {}),
                    /\ descs' = [descs EXCEPT ![d].node = Stat(fs', Arg(t).path), ![d].appends = "append" \in o]
                    /\ holds' = Set(holds, t, d)
                    /\ Returns(t, "ok") /\ UNCHANGED io)
    /\ FKeep /\ UNCHANGED may

Held(t) == descs[holds[t]]

\* `FileReadTask::execute`
FileRead(t) ==
    /\ Begins(t, {"file read"}) /\ Go(t, "read")
    /\ io' = Set(io, t, [NoIo EXCEPT !.fd = Held(t).node, !.size = Len(fs.body[Held(t).node])])
    /\ FKeep /\ OpenKept /\ Calm /\ UNCHANGED res

\* `FileWriteTask::execute`: an append to a file not opened to append looks up the
\* end once, before its first write
FileWrite(t) ==
    /\ Begins(t, {"file write", "file append"}) /\ Go(t, "write")
    /\ io' = Set(io, t, [NoIo EXCEPT !.fd = Held(t).node, !.at =
                           CASE Held(t).appends -> -1
                             [] ~Held(t).appends /\ Job(t) = "file write" -> Arg(t).at
                             [] OTHER -> Len(fs.body[Held(t).node])])
    /\ FKeep /\ OpenKept /\ Calm /\ UNCHANGED res

\* `FileOpTask::execute`, locks aside, and `FileMetadataTask::execute`
FileOp(t) ==
    /\ Begins(t, {"file len", "file sync", "file metadata"})
    /\ \/ Job(t) = "file len" /\ ~Seekable(Arg(t).len) /\ Returns(t, "error") /\ UNCHANGED <<fs, w>>
       \/ /\ Job(t) = "file len" /\ Seekable(Arg(t).len)
          /\ Touch(Resize(fs, Held(t).node, Arg(t).len)) /\ Returns(t, "ok")
       \/ Job(t) # "file len" /\ Returns(t, "ok") /\ UNCHANGED <<fs, w>>
    /\ FKeep /\ OpenKept /\ UNCHANGED <<may, io>>

\* What `flock` will not give while another open file has it
Conflicts(d, kind) ==
    \E e \in DOMAIN descs \ {d} : descs[e].lock = "ex" \/ (kind = "ex" /\ descs[e].lock # "none")

\* `lock`: asked without blocking each time, so a cancel is seen between asks
Lock(t) ==
    /\ Begins(t, {"lock", "try lock"}) \/ At(t, "lock")
    /\ \/ /\ ~Conflicts(holds[t], Arg(t).kind) /\ Returns(t, "ok")
          /\ descs' = [descs EXCEPT ![holds[t]].lock = Arg(t).kind]
       \/ /\ Conflicts(holds[t], Arg(t).kind) /\ UNCHANGED descs
          /\ \/ Job(t) = "try lock" /\ Returns(t, "NotReady")
             \/ Job(t) = "lock" /\ Stopped(t) /\ Returns(t, "Cancelled")
             \/ Job(t) = "lock" /\ ~Stopped(t) /\ At(t, "begin") /\ Go(t, "lock") /\ UNCHANGED res
    /\ FKeep /\ Calm /\ UNCHANGED <<io, holds>>

Unlock(t) ==
    /\ Begins(t, {"unlock"}) /\ Returns(t, "ok")
    /\ descs' = [descs EXCEPT ![holds[t]].lock = "none"]
    /\ FKeep /\ Calm /\ UNCHANGED <<io, holds>>

\* An `OpenFile` is dropped: the lock goes with the last clone
FileDrop(t) ==
    /\ Begins(t, {"file drop"}) /\ Returns(t, "ok")
    /\ holds' = Set(holds, t, 0)
    /\ descs' = IF \E u \in Threads \ {t} : holds[u] = holds[t] THEN descs
                ELSE Set(descs, holds[t], NoFile)
    /\ FKeep /\ Calm /\ UNCHANGED io

-----------------------------------------------------------------------------
(* Copying.                                                                *)

\* `copy`: the source is opened and its size taken
CopyFrom(t) ==
    /\ Begins(t, {"copy"}) /\ Arg(t).other # <<>>
    /\ OpenAt(t, Arg(t).path, {},
              LET n == Stat(fs, Arg(t).path) IN
              /\ IF IsDir(fs, n) THEN Returns(t, "error") ELSE Go(t, "clone") /\ UNCHANGED res
              /\ io' = Set(io, t, [NoIo EXCEPT !.fd = n, !.size = Len(fs.body[n])])
              /\ OpenKept)
    /\ FKeep /\ UNCHANGED may

\* A clone is refused where something is already there, and where the volume can't
CopyClone(t) ==
    /\ At(t, "clone")
    /\ \/ /\ LStat(fs, Arg(t).other) = 0 /\ IsDir(fs, Parent(fs, Arg(t).other))
          /\ Touch(Make(fs, Arg(t).other, "file", fs.body[io[t].fd]))
          /\ io' = [io EXCEPT ![t].to = Stat(fs', Arg(t).other)]
          /\ Returns(t, "ok") /\ UNCHANGED may
       \/ /\ LStat(fs, Arg(t).other) # 0 \/ ~IsDir(fs, Parent(fs, Arg(t).other))
          /\ Go(t, "copy to") /\ Calm /\ UNCHANGED <<io, res>>
       \/ Mishap("no clone") /\ Go(t, "copy to") /\ UNCHANGED <<fs, w, io, res>>
    /\ FKeep /\ OpenKept

CopyTo(t) ==
    /\ At(t, "copy to")
    /\ OpenAt(t, Arg(t).other, {"write", "create", "truncate"},
              /\ io' = [io EXCEPT ![t].to = Stat(fs', Arg(t).other)]
              /\ Go(t, "copying") /\ UNCHANGED res /\ OpenKept)
    /\ FKeep /\ UNCHANGED may

\* `fcopyfile`, which asks `copy_progress` between chunks, and may fail
Copying(t) ==
    /\ At(t, "copying")
    /\ \/ Stopped(t) /\ Returns(t, "Cancelled") /\ UNCHANGED <<may, fs, w, io>>
       \/ Mishap("fail") /\ Returns(t, "error") /\ UNCHANGED <<fs, w, io>>
       \/ \E got \in Got(io[t].fd, io[t].done, Chunk) :
            /\ UNCHANGED may
            /\ IF got = <<>> THEN Returns(t, "ok") /\ UNCHANGED <<fs, w>>
               ELSE Touch(Write(fs, io[t].to, io[t].done, got)) /\ UNCHANGED <<pc, res>>
            /\ io' = [io EXCEPT ![t].done = @ + Len(got)]
    /\ FKeep /\ OpenKept

-----------------------------------------------------------------------------
(* Properties.                                                             *)

\* Whether anything in the scene does one of these jobs
Used(jobs) == \E t \in Threads : \E k \in DOMAIN scene.jobs[t] : scene.jobs[t][k] \in jobs
Cuts ==
    \/ Used({"write", "set len", "file len"})
    \/ \E t \in Threads : \E k \in DOMAIN scene.args[t] : "truncate" \in scene.args[t][k].opts
Overwrites == Used({"write at", "file write"})
Returning(t, jobs) == At(t, "return") /\ Job(t) \in jobs /\ res[t] = "ok"

\* `File::append`: "the one write that is safe for two runs to do at once".  What a
\* write has put down is there, in order and once, however many calls it took and
\* whatever else was appended between them, and nothing else of the file moved
WritesKept ==
    ~Cuts =>
      /\ \A t \in Threads :
           /\ pc[t] \in {"write", "return"} /\ io[t].fd # 0 /\ Job(t) \in {"append", "file append"} =>
                SelectSeq(fs.body[io[t].fd], LAMBDA c : c \in Range(Arg(t).data))
                  = SubSeq(Arg(t).data, 1, io[t].done)
           /\ Returning(t, {"write at", "file write"}) =>
                SubSeq(fs.body[io[t].fd], Arg(t).at + 1, Arg(t).at + Len(Arg(t).data)) = Arg(t).data
      /\ ~Used({"copy"}) => \A n \in Inodes : \A i \in DOMAIN scene.fs.body[n] :
           \/ i \in DOMAIN fs.body[n] /\ fs.body[n][i] = scene.fs.body[n][i]
           \/ \E t \in Threads : \E k \in DOMAIN scene.jobs[t] :
                /\ scene.jobs[t][k] \in {"write at", "file write"}
                /\ i - scene.args[t][k].at \in DOMAIN scene.args[t][k].data

\* `read_whole`, `read_range`: of a file that is only added to, a read gives what is
\* there from where it was asked to start, short only at an end the file had
\* reached since the read began.  A copy is the file, and a link's target whole
ReadsWhole ==
    \A t \in Threads :
      /\ Returning(t, {"read", "read at", "file read"}) /\ ~Cuts /\ ~Overwrites =>
           LET at == IF Job(t) = "read" THEN 0 ELSE Arg(t).at
               end == at + Len(io[t].buf) IN
           /\ io[t].buf = SubSeq(fs.body[io[t].fd], at + 1, end)
           /\ end >= io[t].size \/ (Job(t) # "read" /\ Len(io[t].buf) = Arg(t).len)
      /\ Returning(t, {"copy"}) /\ ~Cuts /\ ~Overwrites /\ ~Used({"append", "file append"}) =>
           io[t].to # io[t].fd /\ fs.body[io[t].to] = fs.body[io[t].fd] /\ io[t].size = Len(fs.body[io[t].to])
      /\ Returning(t, {"read link"}) => io[t].buf = fs.body[io[t].fd]

\* A file task that says it worked did the whole of it, whoever else was at the file
FilesWhole == WritesKept /\ ReadsWhole
=============================================================================
