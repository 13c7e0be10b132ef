------------------------------- MODULE Trees -------------------------------
(***************************************************************************)
(* The file tasks that work on names: the single calls, listing a          *)
(* directory, and making and removing whole trees, which take many calls   *)
(* while other tasks make and remove the same names.                       *)
(***************************************************************************)
EXTENDS Files

\* `mode <= 0o7777`
Modes == 0..3

-----------------------------------------------------------------------------
(* One call each.                                                          *)

\* What each `PathOp` makes of the file system, and when the kernel refuses it
PathRefused(op, p, q) ==
    LET n == LStat(fs, p) IN
    CASE op = "remove" -> n = 0 \/ IsDir(fs, n)
      [] op = "remove dir" -> ~IsDir(fs, n) \/ Entries(fs, n) # {}
      [] op \in {"create dir", "symlink"} -> n # 0 \/ ~IsDir(fs, Parent(fs, p))
      [] op = "rename" ->
           \/ n = 0 \/ ~IsDir(fs, Parent(fs, q))
           \/ LStat(fs, q) # 0 /\ (IsDir(fs, n) # IsDir(fs, LStat(fs, q)))
           \/ IsDir(fs, LStat(fs, q)) /\ Entries(fs, LStat(fs, q)) # {}
      [] op = "hard link" -> n = 0 \/ IsDir(fs, n) \/ LStat(fs, q) # 0 \/ ~IsDir(fs, Parent(fs, q))
      [] op \in {"set permissions", "set len"} -> Stat(fs, p) = 0 \/ (op = "set len" /\ IsDir(fs, Stat(fs, p)))

PathDone(op, p, q, len) ==
    CASE op \in {"remove", "remove dir"} -> PutAt(fs, p, 0)
      [] op = "create dir" -> Make(fs, p, "dir", <<>>)
      [] op = "symlink" -> Make(fs, p, "link", q)
      [] op = "rename" -> IF LStat(fs, p) = LStat(fs, q) THEN fs ELSE PutAt(PutAt(fs, q, LStat(fs, p)), p, 0)
      [] op = "hard link" -> PutAt(fs, q, LStat(fs, p))
      [] op = "set permissions" -> [fs EXCEPT !.mode[Stat(fs, p)] = len]
      [] op = "set len" -> Resize(fs, Stat(fs, p), len)

\* `PathTask::execute`
PathCall(t) ==
    LET op == Job(t) p == Arg(t).path q == Arg(t).other IN
    /\ Begins(t, {"remove", "remove dir", "create dir", "rename", "symlink", "hard link",
                  "set permissions", "set len"})
    /\ op \in {"rename", "symlink", "hard link"} => q # <<>>
    /\ \/ op = "set permissions" /\ Arg(t).len \notin Modes /\ Returns(t, "BadArgument") /\ UNCHANGED <<fs, w>>
       \/ op = "set len" /\ ~Seekable(Arg(t).len) /\ Returns(t, "error") /\ UNCHANGED <<fs, w>>
       \/ /\ op = "set permissions" => Arg(t).len \in Modes
          /\ op = "set len" => Seekable(Arg(t).len)
          /\ IF PathRefused(op, p, q) THEN Returns(t, "error") /\ UNCHANGED <<fs, w>>
             ELSE Returns(t, "ok") /\ Touch(PathDone(op, p, q, Arg(t).len))
    /\ FKeep /\ OpenKept /\ UNCHANGED <<may, io>>

\* `MetadataTask::execute`, following a link or not
Metadata(t) ==
    /\ Begins(t, {"metadata", "link metadata"})
    /\ LET n == IF Job(t) = "metadata" THEN Stat(fs, Arg(t).path) ELSE LStat(fs, Arg(t).path) IN
       Returns(t, IF n = 0 THEN "error" ELSE "ok")
    /\ FKeep /\ OpenKept /\ Calm /\ UNCHANGED io

\* `read_link`: a buffer that is filled may have cut the target short, so it is
\* doubled and the link read again
ReadLink(t) ==
    /\ Begins(t, {"read link"}) \/ At(t, "read link")
    /\ LET n == LStat(fs, Arg(t).path)
           room == IF At(t, "begin") THEN Chunk ELSE io[t].size IN
       \/ n = 0 /\ Returns(t, "error") /\ UNCHANGED io
       \/ n # 0 /\ fs.kind[n] # "link" /\ Returns(t, "error") /\ UNCHANGED io
       \/ /\ n # 0 /\ fs.kind[n] = "link" /\ Len(fs.body[n]) >= room
          /\ io' = [io EXCEPT ![t].size = room * 2] /\ Go(t, "read link") /\ UNCHANGED res
       \/ /\ n # 0 /\ fs.kind[n] = "link" /\ Len(fs.body[n]) < room
          /\ io' = [io EXCEPT ![t].buf = fs.body[n], ![t].fd = n] /\ Returns(t, "ok")
    /\ FKeep /\ OpenKept /\ Calm

\* `canonical`
Canonical(t) ==
    /\ Begins(t, {"canonicalize"})
    /\ Returns(t, IF Stat(fs, Arg(t).path) = 0 THEN "error" ELSE "ok")
    /\ FKeep /\ OpenKept /\ Calm /\ UNCHANGED io

-----------------------------------------------------------------------------
(* `ReadDirTask::execute`.                                                 *)

OpenList(t) ==
    /\ Begins(t, {"read dir"})
    /\ LET n == Stat(fs, Arg(t).path) IN
       IF ~IsDir(fs, n) THEN Returns(t, "error") /\ UNCHANGED io
       ELSE /\ io' = Set(io, t, [NoIo EXCEPT !.fd = n, !.stack = <<Entries(fs, n)>>])
            /\ Go(t, "list") /\ UNCHANGED res
    /\ FKeep /\ OpenKept /\ Calm

\* The kind comes with the entry, or takes a call of its own (`kind_of`)
ReadDir(t) ==
    /\ At(t, "list")
    /\ \/ Stopped(t) /\ Returns(t, "Cancelled") /\ UNCHANGED <<may, io>>
       \/ ~Stopped(t) /\ io[t].stack[1] = {} /\ Returns(t, "ok") /\ UNCHANGED <<may, io>>
       \/ ~Stopped(t) /\ Mishap("fail") /\ Returns(t, "error") /\ UNCHANGED io
       \/ /\ ~Stopped(t)
          /\ \E x \in io[t].stack[1] :
               /\ io' = [io EXCEPT ![t].stack[1] = @ \ {x}, ![t].buf = Append(@, x)]
               /\ \/ UNCHANGED <<may, pc>>
                  \/ Mishap("unknown") /\ Go(t, "kind")
          /\ UNCHANGED res
    /\ FKeep /\ OpenKept /\ UNCHANGED <<fs, w>>

\* by the path, not through the directory that is open
KindOf(t) ==
    /\ At(t, "kind")
    /\ IF LStat(fs, Append(Arg(t).path, Last(io[t].buf))) = 0 THEN Returns(t, "error") ELSE Go(t, "list") /\ UNCHANGED res
    /\ FKeep /\ OpenKept /\ Calm /\ UNCHANGED io

-----------------------------------------------------------------------------
(* `create_dir_all`.                                                       *)

Prefix(t) == SubSeq(Arg(t).path, 1, io[t].done + 1)
Further(t) ==
    /\ io' = [io EXCEPT ![t].done = @ + 1]
    /\ IF io[t].done + 1 = Len(Arg(t).path) THEN Returns(t, "ok") ELSE Go(t, "mkdir") /\ UNCHANGED res

\* Each directory from the top down
Mkdir(t) ==
    /\ Begins(t, {"create dir all"}) \/ At(t, "mkdir")
    /\ \/ Stopped(t) /\ Returns(t, "Cancelled") /\ UNCHANGED <<fs, w, io>>
       \/ /\ ~Stopped(t) /\ LStat(fs, Prefix(t)) # 0 /\ Go(t, "is dir") /\ UNCHANGED <<fs, w, io, res>>
       \/ /\ ~Stopped(t) /\ LStat(fs, Prefix(t)) = 0
          /\ IF IsDir(fs, Parent(fs, Prefix(t)))
             THEN Touch(Make(fs, Prefix(t), "dir", <<>>)) /\ Further(t)
             ELSE Returns(t, "error") /\ UNCHANGED <<fs, w, io>>
    /\ FKeep /\ OpenKept /\ UNCHANGED may

\* Something was there: fine only if it is a directory, and still there
MkdirStat(t) ==
    /\ At(t, "is dir")
    /\ IF IsDir(fs, Stat(fs, Prefix(t))) THEN Further(t) ELSE Returns(t, "error") /\ UNCHANGED io
    /\ FKeep /\ OpenKept /\ Calm

-----------------------------------------------------------------------------
(* `remove_dir_all`.                                                       *)

\* Each directory on the way down: its descriptor, its name in the one above, and
\* the entries it had, once they are read, that are not yet gone
Emptying(d, x) == [fd |-> d, name |-> x, left |-> {}]
Top(t) == Last(io[t].stack)
Fails(t) == Returns(t, "error") /\ UNCHANGED <<fs, w, io>>

RemoveAll(t) ==
    /\ Begins(t, {"remove dir all"})
    /\ LET n == LStat(fs, Arg(t).path) IN
       \/ n = 0 /\ Fails(t)
       \/ n # 0 /\ Go(t, IF IsDir(fs, n) THEN "open root" ELSE "unlink root") /\ UNCHANGED <<fs, w, io, res>>
    /\ FKeep /\ OpenKept /\ UNCHANGED may

UnlinkRoot(t) ==
    /\ At(t, "unlink root")
    /\ IF PathRefused("remove", Arg(t).path, <<>>) THEN Fails(t)
       ELSE Touch(PutAt(fs, Arg(t).path, 0)) /\ Returns(t, "ok") /\ UNCHANGED io
    /\ FKeep /\ OpenKept /\ UNCHANGED may

\* Mutant: the open follows a link that took the directory's place
OpenDirFollows(t, d, x) ==
    LET n == Follow(fs, Entry(fs, d, x)) IN
    IF ~IsDir(fs, n) THEN Fails(t)
    ELSE /\ io' = [io EXCEPT ![t].stack = Append(@, Emptying(n, x))]
         /\ Go(t, "entries") /\ UNCHANGED <<fs, w, res>>

\* `open_dir`: never through a link, even one put there since the look
OpenDir(t, d, x) ==
    LET n == Entry(fs, d, x) IN
    IF ~IsDir(fs, n) THEN Fails(t)
    ELSE /\ io' = [io EXCEPT ![t].stack = Append(@, Emptying(n, x))]
         /\ Go(t, "entries") /\ UNCHANGED <<fs, w, res>>

\* `entries`: all of them, before any is removed
ListEntries(t) ==
    /\ At(t, "entries")
    /\ \/ Mishap("fail") /\ Returns(t, "error") /\ UNCHANGED io
       \/ /\ io' = [io EXCEPT ![t].stack = Append(Front(@), [Last(@) EXCEPT !.left = Entries(fs, Top(t).fd)])]
          /\ Go(t, "empty") /\ UNCHANGED <<may, res>>
    /\ FKeep /\ OpenKept /\ UNCHANGED <<fs, w>>

OpenRoot(t) ==
    /\ At(t, "open root") /\ OpenDir(t, Parent(fs, Arg(t).path), Last(Arg(t).path))
    /\ FKeep /\ OpenKept /\ UNCHANGED may

\* An entry is taken up, or a directory with none left goes from the one above;
\* the root itself goes by its path
Empty(t) ==
    LET stack == io[t].stack IN
    /\ At(t, "empty")
    /\ \/ Stopped(t) /\ Returns(t, "Cancelled") /\ UNCHANGED <<fs, w, io>>
       \/ /\ ~Stopped(t)
          /\ \E x \in Top(t).left :
               io' = [io EXCEPT ![t].stack = Append(Front(@), [Last(@) EXCEPT !.left = @ \ {x}]), ![t].buf = <<x>>]
          /\ Go(t, "entry") /\ UNCHANGED <<fs, w, res>>
       \/ /\ ~Stopped(t) /\ Top(t).left = {} /\ Len(stack) = 1
          /\ io' = [io EXCEPT ![t].stack = <<>>] /\ Go(t, "remove root") /\ UNCHANGED <<fs, w, res>>
       \/ /\ ~Stopped(t) /\ Top(t).left = {} /\ Len(stack) > 1
          /\ LET d == stack[Len(stack) - 1].fd n == Entry(fs, d, Top(t).name) IN
             IF ~IsDir(fs, n) \/ Entries(fs, n) # {} THEN Fails(t)
             ELSE /\ Touch(Put(fs, d, Top(t).name, 0))
                  /\ io' = [io EXCEPT ![t].stack = Front(@)] /\ UNCHANGED <<pc, res>>
    /\ FKeep /\ OpenKept /\ UNCHANGED may

\* The look at the entry, and then what it was taken for
LookEntry(t) ==
    /\ At(t, "entry")
    /\ LET n == Entry(fs, Top(t).fd, io[t].buf[1]) IN
       \/ n = 0 /\ Fails(t)
       \/ n # 0 /\ Go(t, IF IsDir(fs, n) THEN "descend" ELSE "unlink") /\ UNCHANGED <<fs, w, io, res>>
    /\ FKeep /\ OpenKept /\ UNCHANGED may

UnlinkEntry(t) ==
    /\ At(t, "unlink")
    /\ LET n == Entry(fs, Top(t).fd, io[t].buf[1]) IN
       IF n = 0 \/ IsDir(fs, n) THEN Fails(t)
       ELSE Touch(Put(fs, Top(t).fd, io[t].buf[1], 0)) /\ Go(t, "empty") /\ UNCHANGED <<io, res>>
    /\ FKeep /\ OpenKept /\ UNCHANGED may

Descend(t) ==
    /\ At(t, "descend") /\ OpenDir(t, Top(t).fd, io[t].buf[1])
    /\ FKeep /\ OpenKept /\ UNCHANGED may

RemoveRoot(t) ==
    /\ At(t, "remove root")
    /\ IF PathRefused("remove dir", Arg(t).path, <<>>) THEN Fails(t)
       ELSE Touch(PutAt(fs, Arg(t).path, 0)) /\ Returns(t, "ok") /\ UNCHANGED io
    /\ FKeep /\ OpenKept /\ UNCHANGED may

-----------------------------------------------------------------------------
(* Properties.                                                             *)

\* `File::remove_dir_all`: "A symbolic link inside is removed, never followed, so
\* nothing outside the directory is touched", whatever took a directory's place
\* between two of its calls
OutsideKept ==
    \A e \in DOMAIN fs.names : scene.fs.names[e] \in scene.outside => fs.names[e] = scene.fs.names[e]

\* `create_dir_all`: tasks that make the same directories at once all succeed, and
\* what they were asked for is there
MadeTogether ==
    \A t \in Threads :
      At(t, "return") /\ Job(t) = "create dir all" /\ ~Used({"remove dir all", "remove dir", "rename"}) =>
        \/ res[t] = "Cancelled" /\ Stopped(t)
        \/ res[t] = "error" /\ \E k \in DOMAIN Arg(t).path :
              LET n == Stat(scene.fs, SubSeq(Arg(t).path, 1, k)) IN n # 0 /\ ~IsDir(scene.fs, n)
        \/ res[t] = "ok" /\ \A k \in DOMAIN Arg(t).path : IsDir(fs, Stat(fs, SubSeq(Arg(t).path, 1, k)))

\* A removal that is left alone takes the whole tree, and a listing gives each name
\* that was there throughout, once
TreesWhole ==
    \A t \in Threads :
      /\ At(t, "return") /\ Job(t) = "remove dir all" /\ (\A u \in Threads \ {t} : scene.jobs[u] = <<>>) =>
           \/ res[t] = "Cancelled" /\ Stopped(t)
           \/ res[t] = "ok" /\ LStat(fs, Arg(t).path) = 0
           \/ res[t] = "error" /\ (LStat(scene.fs, Arg(t).path) = 0 \/ "fail" \in scene.may)
      /\ Returning(t, {"read dir"}) =>
           /\ \A x \in Entries(scene.fs, io[t].fd) :
                fs.names[io[t].fd, x] = scene.fs.names[io[t].fd, x] => x \in Range(io[t].buf)
           /\ Cardinality(Range(io[t].buf)) = Len(io[t].buf)

\* Trees are made and removed whole, and nothing beside them is touched
TreesHold == OutsideKept /\ MadeTogether /\ TreesWhole
=============================================================================
