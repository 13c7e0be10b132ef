----------------------------- MODULE FileSystem -----------------------------
(***************************************************************************)
(* The kernel's file system, as the file tasks use it: inodes, the names   *)
(* that lead to them and what each call does.  External: modelled from the *)
(* calls in src/src/futures/file.  A file system is a record of functions  *)
(* on the inodes; inode 1 is the directory every path starts from, inode 0 *)
(* is nothing, and an inode is not used again while the model runs.        *)
(***************************************************************************)
EXTENDS Integers, Sequences, FiniteSets, FiniteSetsExt, SequencesExt

CONSTANTS
    Names,      \* what an entry of a directory may be called
    Inodes      \* the inodes there are

ASSUME FileSystemAssumption == Inodes \subseteq Nat \ {0} /\ 1 \in Inodes

\* Nothing but the directory paths start from
Blank ==
    [kind  |-> [n \in Inodes |-> IF n = 1 THEN "dir" ELSE "free"],
     names |-> [e \in Inodes \X Names |-> 0],
     body  |-> [n \in Inodes |-> <<>>],     \* bytes, or the names a link is made of
     mode  |-> [n \in Inodes |-> 0],
     mtime |-> [n \in Inodes |-> 0]]

Entry(fs, d, x) == IF d # 0 /\ fs.kind[d] = "dir" THEN fs.names[d, x] ELSE 0
\* A link's own target goes through no other
Follow(fs, n) ==
    LET walk[k \in Nat] == IF k = 0 THEN 1 ELSE Entry(fs, walk[k - 1], fs.body[n][k]) IN
    IF n # 0 /\ fs.kind[n] = "link" THEN walk[Len(fs.body[n])] ELSE n
Parent(fs, path) ==
    LET walk[k \in Nat] == IF k = 0 THEN 1 ELSE Follow(fs, Entry(fs, walk[k - 1], path[k])) IN
    walk[Len(path) - 1]
LStat(fs, path) == Entry(fs, Parent(fs, path), Last(path))
Stat(fs, path) == Follow(fs, LStat(fs, path))

IsDir(fs, n) == n # 0 /\ fs.kind[n] = "dir"
Entries(fs, d) == {x \in Names : fs.names[d, x] # 0}
Links(fs, n) == Cardinality({e \in DOMAIN fs.names : fs.names[e] = n})

\* Every change to an inode moves the time it was last written
Bump(fs, n) == [fs EXCEPT !.mtime[n] = @ + 1]
\* A name is given to an inode, or taken away (n = 0)
Put(fs, d, x, n) == Bump([fs EXCEPT !.names[d, x] = n], d)
PutAt(fs, path, n) == Put(fs, Parent(fs, path), Last(path), n)
Make(fs, path, kind, body) ==
    LET n == Min({m \in Inodes : fs.kind[m] = "free"}) IN
    PutAt([fs EXCEPT !.kind[n] = kind, !.body[n] = body], path, n)

\* Bytes over and past what is there; a hole reads as zeros
Overlay(body, at, bytes) ==
    [i \in 1..Max({Len(body), at + Len(bytes)}) |->
        IF i > at /\ i <= at + Len(bytes) THEN bytes[i - at]
        ELSE IF i <= Len(body) THEN body[i] ELSE 0]
Write(fs, n, at, bytes) == Bump([fs EXCEPT !.body[n] = Overlay(@, at, bytes)], n)
Resize(fs, n, len) ==
    Bump([fs EXCEPT !.body[n] = [i \in 1..len |-> IF i <= Len(@) THEN @[i] ELSE 0]], n)

\* What the kernel notes of an inode between one moment and the next
Noted(old, new, n) ==
    {note \in {"WRITE", "EXTEND", "ATTRIB", "LINK", "RENAME", "DELETE"} :
        CASE note = "WRITE" -> new.mtime[n] # old.mtime[n]
          [] note = "EXTEND" -> Len(new.body[n]) > Len(old.body[n])
          [] note = "ATTRIB" -> new.mode[n] # old.mode[n]
          [] note = "LINK" -> Links(new, n) # Links(old, n)
          [] note = "DELETE" -> Links(new, n) = 0 /\ Links(old, n) # 0
          [] note = "RENAME" -> {e \in DOMAIN new.names : new.names[e] = n}
                                  # {e \in DOMAIN old.names : old.names[e] = n}}
=============================================================================
