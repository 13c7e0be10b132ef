-------------------------- MODULE MCBlockingTasks --------------------------
(***************************************************************************)
(* Blocking tasks for TLC, the file tasks with them.                       *)
(***************************************************************************)
EXTENDS Watches, TLC

CONSTANTS a, b

MCThreads == {a, b}
MCNames == {"x", "y", "z"}
MCInodes == 1..6

\* No thread holds a file
Shut == [files |-> [d \in 1..2 |-> NoFile], mine |-> (a :> 0 @@ b :> 0)]

\* The jobs of the two threads, who may be cancelled during their first, the
\* input's size, whether the child echoes, and what may go wrong
Scene(j, k, cancels, size, echo, mishaps) ==
    [jobs |-> (a :> j @@ b :> k), cancels |-> cancels, size |-> size, echo |-> echo, may |-> mishaps,
     args |-> (a :> <<>> @@ b :> <<>>), fs |-> Blank, descs |-> Shut.files, holds |-> Shut.mine, outside |-> {}]

ProcessScenes ==
    {Scene(<<"sleep", "sleep">>, <<>>, {a}, 0, FALSE, {"refuse", "no queue", "fail"}),
     Scene(<<"output">>, <<>>, {}, 3, TRUE, {}),
     Scene(<<"output", "sleep">>, <<>>, {a}, 2, TRUE, {"early", "fail"}),
     Scene(<<"output">>, <<>>, {a}, 2, FALSE, {"refuse", "no queue", "fail"}),
     Scene(<<"status", "sleep">>, <<>>, {a}, 2, TRUE, {"fail", "no queue"}),
     Scene(<<"output">>, <<>>, {a}, 0, FALSE, {}),
     Scene(<<"status">>, <<>>, {a}, 0, FALSE, {"fail", "refuse"}),
     Scene(<<"wait", "wait">>, <<"spawn", "signal", "drop">>, {a}, 0, FALSE, {"fail"}),
     Scene(<<"wait", "drop">>, <<"spawn", "wait">>, {a}, 0, FALSE, {"refuse"})}

-----------------------------------------------------------------------------
(* Files.                                                                  *)

\* A task and what it is given; `Do` alone is of the path "x"
Do(job) == [job |-> job, path |-> <<"x">>, other |-> <<>>, data |-> <<>>, at |-> 0, len |-> 0, opts |-> {},
            kind |-> "ex", wanted |-> {"WRITE", "EXTEND", "ATTRIB", "LINK", "RENAME", "DELETE"}, appear |-> FALSE]
On(job, path) == [Do(job) EXCEPT !.path = path]
To(job, path, other) == [On(job, path) EXCEPT !.other = other]
With(job, data) == [Do(job) EXCEPT !.data = data]
From(job, at, len) == [Do(job) EXCEPT !.at = at, !.len = len]
WithAt(job, at, data) == [With(job, data) EXCEPT !.at = at]
Opens(opts) == [Do("open") EXCEPT !.opts = opts]
Locks(job, kind) == [Do(job) EXCEPT !.kind = kind]
Sees(job, wanted) == [Do(job) EXCEPT !.wanted = wanted]
Awaits(job, path) == [On(job, path) EXCEPT !.appear = TRUE]

FScene(j, k, cancels, mishaps, start) ==
    [Scene([i \in DOMAIN j |-> j[i].job], [i \in DOMAIN k |-> k[i].job], cancels, 0, FALSE, mishaps)
       EXCEPT !.args = (a :> j @@ b :> k), !.fs = start]

\* A file of three bytes at "x"; the threads hold it open, each on its own
X == Make(Blank, <<"x">>, "file", <<1, 2, 3>>)
Both(s, aAppends, bAppends) ==
    [s EXCEPT !.descs = <<[NoFile EXCEPT !.node = 2, !.appends = aAppends],
                          [NoFile EXCEPT !.node = 2, !.appends = bAppends]>>,
              !.holds = (a :> 1 @@ b :> 2)]

\* Appends to one file; reads while it grows; writes beside appends
BodyScenes ==
    {FScene(<<With("append", <<11, 12, 13>>)>>, <<With("append", <<21, 22>>)>>, {a}, {"fail"}, X),
     FScene(<<Do("read")>>, <<With("append", <<21, 22, 23>>)>>, {a}, {"fail"}, X),
     FScene(<<From("read at", 1, 3), From("read at", 8, 2)>>, <<With("append", <<21>>), From("read at", 0, 1)>>, {a}, {"fail"}, X),
     FScene(<<WithAt("write at", 1, <<11, 12>>), WithAt("write at", 8, <<13>>)>>, <<With("append", <<21, 22>>)>>, {a}, {}, X),
     FScene(<<With("write", <<11, 12>>)>>, <<Do("read"), From("set len", 0, 1), From("set len", 0, 8)>>, {a}, {}, X),
     FScene(<<Do("read"), On("read", <<>>), On("read at", <<"z">>), On("write", <<"z">>)>>, <<>>, {}, {},
            Make(Blank, <<"z">>, "dir", <<>>)),
     Both(FScene(<<With("file append", <<11, 12>>)>>, <<From("file read", 1, 4)>>, {a}, {}, X), FALSE, FALSE),
     Both(FScene(<<With("file append", <<11, 12>>)>>, <<With("file append", <<21>>), Do("file sync")>>, {}, {}, X), TRUE, TRUE),
     Both(FScene(<<WithAt("file write", 0, <<11, 12>>)>>, <<From("file len", 0, 1), From("file len", 0, 8),
                 Do("file metadata")>>, {}, {}, X), FALSE, FALSE)}

\* Opens of every mix; locks asked for, waited for and given up
HeldScenes ==
    {FScene(<<Opens(o), Do("file drop")>>, <<>>, {a}, {}, start) :
        o \in {{"read", "write", "create"}, {"write", "new"}, {"append", "create"}, {"write", "truncate"}}, start \in {Blank, X}}
    \cup {FScene(<<Opens(o)>>, <<>>, {}, {}, X) : o \in {{}, {"read", "create"}, {"read", "truncate"}, {"append", "truncate"}}}
    \cup {Both(FScene(<<Locks("lock", "ex"), Do("unlock"), Do("file drop")>>,
                      <<Locks("lock", k), Do("file drop")>>, {a, b}, {}, X), FALSE, FALSE) : k \in {"ex", "sh"}}
    \cup {Both(FScene(<<Locks("lock", "ex")>>, <<Locks("lock", "sh")>>, {a}, {}, X), FALSE, FALSE)}
    \cup {Both(FScene(<<Locks("lock", "sh"), Locks("try lock", "ex"), Do("file drop")>>,
                      <<Locks("try lock", "sh"), Do("file drop")>>, {}, {}, X), FALSE, FALSE)}

\* A copy onto nothing and onto something, where the volume clones and where not
CopyScenes ==
    {FScene(<<To("copy", <<"x">>, <<"y">>)>>, k, {a}, {"no clone", "fail"}, start) :
        k \in {<<>>, <<With("append", <<21>>)>>, <<On("create dir", <<"y">>)>>},
        start \in {X, Make(X, <<"y">>, "file", <<7, 8, 9, 7>>)}}
    \cup {FScene(<<To("copy", <<"x">>, <<"y">>), To("copy", <<"x">>, <<>>)>>, <<>>, {}, {}, Make(Blank, <<"x">>, "dir", <<>>)),
          FScene(<<To("copy", <<"x">>, <<"z", "y">>), To("copy", <<"z">>, <<"y">>)>>, <<>>, {}, {}, X)}

\* "x" and "x/y" are directories, "x/y/z" a file, "x/z" a link to the directory "z",
\* which holds a file "y" that no removal of "x" may touch
Tree == Make(Make(Make(Blank, <<"x">>, "dir", <<>>), <<"x", "y">>, "dir", <<>>), <<"x", "y", "z">>, "file", <<>>)
Beside == Make(Make(Make(Make(Blank, <<"x">>, "dir", <<>>), <<"z">>, "dir", <<>>), <<"z", "y">>, "file", <<>>),
               <<"x", "y">>, "dir", <<>>)
Linked == Make(Make(Make(Make(Blank, <<"x">>, "dir", <<>>), <<"z">>, "dir", <<>>), <<"z", "y">>, "file", <<>>),
               <<"x", "z">>, "link", <<"z">>)
Keeping(s) == [s EXCEPT !.outside = {4}]

TreeScenes ==
    {FScene(<<On("create dir all", <<"x", "y", "z">>)>>, <<On("create dir all", <<"x", "y">>)>>, {a}, {}, Blank),
     FScene(<<On("create dir all", <<"x", "y">>)>>, <<On("remove dir all", <<"x">>)>>, {}, {}, Blank),
     FScene(<<On("create dir all", <<"x", "y">>)>>, <<>>, {}, {}, X),
     FScene(<<On("create dir all", <<"x", "y">>)>>, <<To("rename", <<"x">>, <<"z">>), Do("remove dir")>>, {}, {}, Blank),
     FScene(<<On("remove dir all", <<"x">>)>>, <<>>, {a}, {"fail"}, Tree),
     FScene(<<On("remove dir all", <<"x">>)>>, <<On("remove dir all", <<"x">>)>>, {}, {}, Tree),
     FScene(<<On("remove dir all", <<"x">>)>>, <<To("rename", <<"x", "y", "z">>, <<"x", "z">>)>>, {}, {}, Tree),
     FScene(<<On("remove dir all", <<"x">>)>>, <<Do("remove"), Do("create dir")>>, {}, {}, X),
     Keeping(FScene(<<On("remove dir all", <<"x">>)>>,
                    <<On("remove dir", <<"x", "y">>), To("symlink", <<"x", "y">>, <<"z">>)>>, {a}, {}, Beside)),
     Keeping(FScene(<<On("remove dir all", <<"x">>)>>, <<On("remove", <<"x", "z">>)>>, {}, {}, Linked)),
     FScene(<<On("read dir", <<"x">>)>>, <<On("remove", <<"x", "z">>), On("create dir", <<"x", "z">>)>>, {a}, {"unknown", "fail"},
            Make(Make(Make(Blank, <<"x">>, "dir", <<>>), <<"x", "y">>, "file", <<>>), <<"x", "z">>, "file", <<>>)),
     FScene(<<On("read dir", <<"x">>)>>, <<To("rename", <<"x">>, <<"z">>)>>, {}, {"unknown"}, Tree),
     FScene(<<On("read dir", <<"x">>), Do("metadata"), Do("link metadata"), On("set permissions", <<>>)>>,
            <<To("hard link", <<"x">>, <<"y">>), From("set permissions", 0, 9), From("set permissions", 0, 1)>>, {}, {}, X),
     FScene(<<On("read link", <<"y">>), On("read link", <<"x">>), On("canonicalize", <<"y">>)>>,
            <<Do("remove"), On("read link", <<"z">>), On("canonicalize", <<"y">>), To("rename", <<"y">>, <<>>)>>, {}, {},
            Make(Make(Blank, <<"x">>, "dir", <<>>), <<"y">>, "link", <<"x", "y", "z">>)),
     FScene(<<On("read link", <<"y">>), On("metadata", <<"y">>), On("link metadata", <<"z">>)>>, <<>>, {}, {},
            Make(Blank, <<"y">>, "link", <<"x">>))}

\* A watch beside every change to its file, and one for a path that is not there
WatchScenes ==
    {FScene(<<Do("watching"), Do("watching"), Do("watching")>>, k, {a}, {}, X) :
        k \in {<<With("append", <<21>>), To("rename", <<"x">>, <<"y">>), On("remove", <<"y">>)>>,
               <<From("set permissions", 0, 1), To("hard link", <<"x">>, <<"y">>)>>}}
    \cup {FScene(<<Sees("watch", n)>>, k, {}, {"refuse", "no queue"}, X) :
            n \in {{"DELETE"}, {"ATTRIB", "LINK"}},
            k \in {<<With("write", <<21>>), Do("remove")>>, <<To("hard link", <<"x">>, <<"y">>), On("remove", <<"y">>)>>}}
    \cup {FScene(<<Awaits(j, <<"x">>), Do(j)>>, <<With("write", <<21>>), Do("remove")>>,
                 IF j = "watching" THEN {a} ELSE {}, {"no queue"}, Blank) :
            j \in {"watch", "watching"}}
    \cup {FScene(<<Do("watch"), Awaits("watch", <<"x", "y">>)>>, <<Do("create dir"), On("create dir", <<"x", "y">>)>>, {}, {}, Blank)}

MCScenarios ==
    ProcessScenes \cup BodyScenes \cup HeldScenes \cup CopyScenes \cup TreeScenes \cup WatchScenes

=============================================================================
