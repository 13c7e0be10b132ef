----------------------------- MODULE Receivers -----------------------------
(***************************************************************************)
(* The registrations on a task's outputs and the one walk at a time that   *)
(* hands each output to them, with the run that publishes the outputs, the *)
(* threads that register while it does, and a cancel.                      *)
(*                                                                         *)
(* The registrations hang off the task in a stack; a walk takes it whole,  *)
(* so a set is enough, and a pass visits it in any order.                  *)
(***************************************************************************)
EXTENDS Integers, FiniteSets

CONSTANTS
    Early,      \* registrations that may be linked before the task is queued (`give_to`)
    Late,       \* registrations made by threads of their own (`forward`)
    Run,        \* the thread running the task
    Outputs,    \* runs the task makes (bound)
    Breaks,     \* whether a run may panic
    Panics,     \* whether a copy of an output may panic
    Cancels, Takes, Finishes    \* whether these happen

Registrations == Early \cup Late
Actors == Late \cup {Run}

ASSUME ReceiversAssumption ==
    /\ IsFiniteSet(Registrations) /\ Early \cap Late = {} /\ Run \notin Registrations
    /\ Outputs \in Nat \ {0} /\ {Breaks, Panics, Cancels, Takes, Finishes} \subseteq BOOLEAN

VARIABLES
    state, repeats, readers,    \* of the task: the state word, `kind`, the reads
    attached,   \* the task has extras
    output,     \* the run whose output was written last; 0 before any
    head,       \* the registrations on the stack
    generation, \* outputs counted
    LOCKED, REWALK, CLOSED,     \* the flags
    handed,     \* the generation each registration was last handed, or NONE_HANDED
    closed, nodes, kept, readable, gen,     \* the pass under way
    pc, then,   \* where each thread is, and where its walk returns to
    far,        \* each registration's far end: "none", "open", "finished" or "failed"
    got         \* how often each registration was given each output

taskVars == <<state, repeats, readers, attached, output>>
flagVars == <<LOCKED, REWALK, CLOSED>>
passVars == <<closed, nodes, kept, readable, gen>>
farVars == <<handed, far, got>>
vars == <<taskVars, head, generation, flagVars, passVars, farVars, pc, then>>

NONE_HANDED == -1

Init ==
    /\ state = "Pending" /\ repeats = (Outputs > 1) /\ readers = 0 /\ output = 0
    /\ head \in SUBSET Early /\ attached = (head # {}) /\ generation = 0
    /\ LOCKED = FALSE /\ REWALK = FALSE /\ CLOSED = FALSE
    /\ closed = FALSE /\ nodes = {} /\ kept = {} /\ readable = FALSE /\ gen = 0
    /\ handed = [r \in Registrations |-> NONE_HANDED]
    /\ far = [r \in Registrations |-> IF r \in Early \ head THEN "none" ELSE "open"]
    /\ got = [r \in Registrations |-> [o \in 1 .. Outputs |-> 0]]
    /\ pc = [a \in Actors |-> IF a = Run THEN "begin" ELSE "none"]
    /\ then = [a \in Actors |-> "done"]

Go(a, p) == pc' = [pc EXCEPT ![a] = p]
Call(a, p) == Go(a, "walk") /\ then' = [then EXCEPT ![a] = p]

-----------------------------------------------------------------------------
(* `Receivers::register`.                                                  *)

\* `extras_or_attach`
Attach(r) ==
    /\ pc[r] = "none"
    /\ attached' = TRUE /\ Go(r, "push")
    /\ UNCHANGED <<state, repeats, readers, output, head, generation, flagVars, passVars, farVars,
                   then>>

Push(r) ==
    /\ pc[r] = "push"
    /\ head' = head \cup {r} /\ Go(r, "over")
    /\ UNCHANGED <<taskVars, generation, flagVars, passVars, farVars, then>>

\* `publishes_nothing_more` reads the state, and then the kind
OverState(r) ==
    /\ pc[r] = "over"
    /\ \/ state \in {"Cancelled", "Failed"} /\ Go(r, "mark") /\ UNCHANGED then
       \/ state \in {"Pending", "Running"} /\ Call(r, "done")
       \/ state \in {"Ready", "Taken"} /\ Go(r, "kind") /\ UNCHANGED then
    /\ UNCHANGED <<taskVars, head, generation, flagVars, passVars, farVars>>

OverKind(r) ==
    /\ pc[r] = "kind"
    /\ \/ ~repeats /\ Go(r, "mark") /\ UNCHANGED then
       \/ repeats /\ Call(r, "done")
    /\ UNCHANGED <<taskVars, head, generation, flagVars, passVars, farVars>>

\* A task already over had nothing to close, so the registration closes it
MarkClosed(r) ==
    /\ pc[r] = "mark"
    /\ CLOSED' = TRUE /\ Call(r, "done")
    /\ UNCHANGED <<taskVars, head, generation, LOCKED, REWALK, passVars, farVars>>

-----------------------------------------------------------------------------
(* `Receivers::walk`.                                                      *)

\* Asked for before anything is looked at
Ask(a) ==
    /\ pc[a] = "walk"
    /\ REWALK' = TRUE /\ Go(a, "look")
    /\ UNCHANGED <<taskVars, head, generation, LOCKED, CLOSED, passVars, farVars, then>>

\* Nothing registered ...
LookHead(a) ==
    /\ pc[a] = "look"
    /\ Go(a, IF head = {} THEN "look_lock" ELSE "lock")
    /\ UNCHANGED <<taskVars, head, generation, flagVars, passVars, farVars, then>>

\* ... and nobody walking
LookLock(a) ==
    /\ pc[a] = "look_lock"
    /\ Go(a, IF LOCKED THEN "lock" ELSE then[a])
    /\ UNCHANGED <<taskVars, head, generation, flagVars, passVars, farVars, then>>

\* Held by another walk, which sees the request before it lets go
Lock(a) ==
    /\ pc[a] = "lock"
    /\ LOCKED' = TRUE
    /\ Go(a, IF LOCKED THEN then[a] ELSE "request")
    /\ UNCHANGED <<taskVars, head, generation, REWALK, CLOSED, passVars, farVars, then>>

\* Mutant: the request is looked at and left
RequestKeeps(a) ==
    /\ pc[a] = "request"
    /\ Go(a, IF REWALK THEN "closed" ELSE "unlock")
    /\ UNCHANGED <<taskVars, head, generation, flagVars, passVars, farVars, then>>

Request(a) ==
    /\ pc[a] = "request"
    /\ REWALK' = FALSE
    /\ Go(a, IF REWALK THEN "closed" ELSE "unlock")
    /\ UNCHANGED <<taskVars, head, generation, LOCKED, CLOSED, passVars, farVars, then>>

Unlock(a) ==
    /\ pc[a] = "unlock"
    /\ LOCKED' = FALSE /\ Go(a, "again")
    /\ UNCHANGED <<taskVars, head, generation, REWALK, CLOSED, passVars, farVars, then>>

\* Mutant: a request that landed before the lock went is left
AgainNot(a) ==
    /\ pc[a] = "again"
    /\ Go(a, then[a])
    /\ UNCHANGED <<taskVars, head, generation, flagVars, passVars, farVars, then>>

\* A request that landed after the last look, before the lock went
Again(a) ==
    /\ pc[a] = "again"
    /\ Go(a, IF REWALK THEN "lock" ELSE then[a])
    /\ UNCHANGED <<taskVars, head, generation, flagVars, passVars, farVars, then>>

-----------------------------------------------------------------------------
(* `Receivers::pass`, under the lock.                                      *)

LookClosed(a) ==
    /\ pc[a] = "closed"
    /\ closed' = CLOSED /\ Go(a, "swap")
    /\ UNCHANGED <<taskVars, head, generation, flagVars, nodes, kept, readable, gen, farVars, then>>

SwapHead(a) ==
    /\ pc[a] = "swap"
    /\ nodes' = head /\ head' = {}
    /\ Go(a, IF head = {} THEN "request" ELSE "enter")
    /\ UNCHANGED <<taskVars, generation, flagVars, closed, kept, readable, gen, farVars, then>>

\* `enter_read`: count, look, and uncount what finds nothing readable
Enter(a) ==
    /\ pc[a] = "enter"
    /\ readers' = readers + 1 /\ Go(a, "check")
    /\ UNCHANGED <<state, repeats, attached, output, head, generation, flagVars, passVars,
                   farVars, then>>

Check(a) ==
    /\ pc[a] = "check"
    /\ readable' = (state = "Ready")
    /\ readers' = IF state = "Ready" THEN readers ELSE readers - 1
    /\ Go(a, "generation")
    /\ UNCHANGED <<state, repeats, attached, output, head, generation, flagVars,
                   closed, nodes, kept, gen, farVars, then>>

LookGeneration(a) ==
    /\ pc[a] = "generation"
    /\ gen' = generation /\ Go(a, "visit")
    /\ UNCHANGED <<taskVars, head, generation, flagVars, closed, nodes, kept, readable, farVars,
                   then>>

Unseen(r) == handed[r] = NONE_HANDED \/ handed[r] < gen
Deliver(r) == got' = [got EXCEPT ![r][output] = @ + 1]

\* `visit`: what has not been handed this output is, and it stays while the task
\* and its far end go on
Visit(a, r) ==
    /\ pc[a] = "visit" /\ r \in nodes /\ nodes' = nodes \ {r}
    /\ \/ /\ readable /\ Unseen(r)
          /\ handed' = [handed EXCEPT ![r] = gen] /\ Deliver(r)
       \/ ~(readable /\ Unseen(r)) /\ UNCHANGED <<handed, got>>
    /\ kept' = IF ~closed /\ far[r] = "open" THEN kept \cup {r} ELSE kept
    /\ UNCHANGED <<taskVars, head, generation, flagVars, closed, readable, gen, far, pc, then>>

\* The program's clone panics, which costs its far end
VisitPanics(a, r) ==
    /\ pc[a] = "visit" /\ Panics /\ r \in nodes /\ nodes' = nodes \ {r}
    /\ readable /\ Unseen(r)
    /\ handed' = [handed EXCEPT ![r] = gen] /\ far' = [far EXCEPT ![r] = "failed"]
    /\ UNCHANGED <<taskVars, head, generation, flagVars, closed, kept, readable, gen, got, pc,
                   then>>

Leave(a) ==
    /\ pc[a] = "visit" /\ nodes = {}
    /\ readers' = IF readable THEN readers - 1 ELSE readers
    /\ readable' = FALSE /\ Go(a, "back")
    /\ UNCHANGED <<state, repeats, attached, output, head, generation, flagVars,
                   closed, nodes, kept, gen, farVars, then>>

\* Back beside anything registered meanwhile
PutBack(a) ==
    /\ pc[a] = "back"
    /\ head' = head \cup kept /\ kept' = {} /\ closed' = FALSE /\ gen' = 0
    /\ Go(a, "request")
    /\ UNCHANGED <<taskVars, generation, flagVars, nodes, readable, farVars, then>>

-----------------------------------------------------------------------------
(* The run.                                                                *)

\* `begin`: into `Running`, unless the task was cancelled
Begin ==
    /\ pc[Run] = "begin"
    /\ \/ state = "Pending" /\ state' = "Running" /\ Go(Run, "write")
       \/ state \in {"Ready", "Taken"} /\ state' = "Running" /\ Go(Run, "recycle")
       \/ state = "Cancelled" /\ Go(Run, "close") /\ UNCHANGED state
    /\ UNCHANGED <<repeats, readers, attached, output, head, generation, flagVars, passVars,
                   farVars, then>>

Recycle ==
    /\ pc[Run] = "recycle" /\ readers = 0
    /\ Go(Run, "write")
    /\ UNCHANGED <<taskVars, head, generation, flagVars, passVars, farVars, then>>

Write ==
    /\ pc[Run] = "write"
    /\ output' = output + 1 /\ Go(Run, "note")
    /\ UNCHANGED <<state, repeats, readers, attached, head, generation, flagVars, passVars,
                   farVars, then>>

\* The run panics: the registrations close, and the state moves on after
Panic ==
    /\ pc[Run] = "write" /\ Breaks
    /\ \/ attached /\ CLOSED' = TRUE /\ REWALK' = TRUE /\ Call(Run, "fail")
       \/ ~attached /\ Go(Run, "fail") /\ UNCHANGED <<CLOSED, REWALK, then>>
    /\ UNCHANGED <<taskVars, head, generation, LOCKED, passVars, farVars>>

SettleFailed ==
    /\ pc[Run] = "fail"
    /\ state' = IF state = "Running" THEN "Failed" ELSE state
    /\ Go(Run, "done")
    /\ UNCHANGED <<repeats, readers, attached, output, head, generation, flagVars, passVars,
                   farVars, then>>

\* `note_output`, before it can be read
NoteOutput ==
    /\ pc[Run] = "note"
    /\ generation' = IF attached THEN generation + 1 ELSE generation
    /\ Go(Run, "publish")
    /\ UNCHANGED <<taskVars, head, flagVars, passVars, farVars, then>>

Publish ==
    /\ pc[Run] = "publish"
    /\ \/ state = "Running" /\ state' = "Ready" /\ Go(Run, "forward")
       \/ state # "Running" /\ Go(Run, "close") /\ UNCHANGED state
    /\ UNCHANGED <<repeats, readers, attached, output, head, generation, flagVars, passVars,
                   farVars, then>>

\* `forward_output`
ForwardOutput ==
    /\ pc[Run] = "forward"
    /\ \/ attached /\ Call(Run, "after")
       \/ ~attached /\ Go(Run, "after") /\ UNCHANGED then
    /\ UNCHANGED <<taskVars, head, generation, flagVars, passVars, farVars>>

\* The last run of a series moves the kind on before the registrations close
After ==
    /\ pc[Run] = "after"
    /\ repeats' = (repeats /\ output < Outputs)
    /\ Go(Run, IF repeats' THEN "begin" ELSE "close")
    /\ UNCHANGED <<state, readers, attached, output, head, generation, flagVars, passVars,
                   farVars, then>>

\* `close_extras`
Close ==
    /\ pc[Run] = "close"
    /\ \/ attached /\ CLOSED' = TRUE /\ REWALK' = TRUE /\ Call(Run, "done")
       \/ ~attached /\ Go(Run, "done") /\ UNCHANGED <<CLOSED, REWALK, then>>
    /\ UNCHANGED <<taskVars, head, generation, LOCKED, passVars, farVars>>

-----------------------------------------------------------------------------
(* The task's other handles, and the far ends.                             *)

Cancel ==
    /\ Cancels /\ state' = "Cancelled"
    /\ state \in {"Pending", "Running", "Ready"} \/ (state = "Taken" /\ repeats)
    /\ UNCHANGED <<repeats, readers, attached, output, head, generation, flagVars, passVars,
                   farVars, pc, then>>

Take ==
    /\ Takes /\ state = "Ready" /\ state' = "Taken"
    /\ UNCHANGED <<repeats, readers, attached, output, head, generation, flagVars, passVars,
                   farVars, pc, then>>

\* A far end takes nothing more (`Forward::finished`)
FarFinishes(r) ==
    /\ Finishes /\ far[r] = "open" /\ far' = [far EXCEPT ![r] = "finished"]
    /\ UNCHANGED <<taskVars, head, generation, flagVars, passVars, handed, got, pc, then>>

-----------------------------------------------------------------------------
RegisterStep(r) == Push(r) \/ OverState(r) \/ OverKind(r) \/ MarkClosed(r)
WalkStep(a) ==
    \/ Ask(a) \/ LookHead(a) \/ LookLock(a) \/ Lock(a) \/ Request(a) \/ Unlock(a) \/ Again(a)
    \/ LookClosed(a) \/ SwapHead(a) \/ Enter(a) \/ Check(a) \/ LookGeneration(a)
    \/ (\E r \in Registrations : Visit(a, r) \/ VisitPanics(a, r)) \/ Leave(a) \/ PutBack(a)
RunStep ==
    \/ Begin \/ Recycle \/ Write \/ Panic \/ SettleFailed \/ NoteOutput \/ Publish \/ ForwardOutput \/ After \/ Close

Next ==
    \/ \E r \in Late : Attach(r) \/ RegisterStep(r)
    \/ \E a \in Actors : WalkStep(a)
    \/ RunStep \/ Cancel \/ Take
    \/ \E r \in Registrations : FarFinishes(r)

\* A thread inside a walk or a run keeps going.  Nobody has to register, take,
\* cancel or finish
Spec ==
    /\ Init /\ [][Next]_vars
    /\ \A r \in Late : WF_vars(RegisterStep(r) \/ WalkStep(r))
    /\ WF_vars(RunStep \/ WalkStep(Run))

-----------------------------------------------------------------------------
(* Properties.                                                             *)

Walking == {"request", "closed", "swap", "enter", "check", "generation", "visit", "back", "unlock"}

\* Types: what the words of `Receivers` hold; outputs are never counted ahead of the runs
\* that wrote them (`note_output`)
TypeOK ==
    /\ state \in {"Pending", "Running", "Ready", "Taken", "Cancelled", "Failed"}
    /\ {repeats, attached, LOCKED, REWALK, CLOSED, closed, readable} \subseteq BOOLEAN
    /\ readers \in Nat /\ output \in 0 .. Outputs /\ generation \in 0 .. output
    /\ gen \in 0 .. Outputs /\ handed \in [Registrations -> NONE_HANDED .. Outputs]
    /\ head \subseteq Registrations /\ nodes \subseteq Registrations
    /\ kept \subseteq Registrations
    /\ pc \in [Actors -> Walking \cup
         {"none", "push", "over", "kind", "mark", "walk", "look", "look_lock", "lock", "again", "begin",
          "recycle", "write", "fail", "note", "publish", "forward", "after", "close", "done"}]
    /\ then \in [Actors -> {"done", "after", "fail"}]
    /\ far \in [Registrations -> {"none", "open", "finished", "failed"}]
    /\ got \in [Registrations -> [1 .. Outputs -> Nat]]

\* "The one walk at a time": the lock admits one thread, and a registration is
\* in one place, on the stack or in the pass
OneWalk ==
    /\ \A a, b \in Actors : {pc[a], pc[b]} \subseteq Walking => a = b
    /\ LOCKED <=> \E a \in Actors : pc[a] \in Walking
    /\ head \cap nodes = {} /\ head \cap kept = {} /\ nodes \cap kept = {}

\* "No output reaches one twice", counted by generation though it is
NoneTwice == \A r \in Registrations : \A o \in 1 .. Outputs : got[r][o] <= 1

\* Registrations made, at spawn or by a thread
Linked == {r \in Early : far[r] # "none"}
Made == Linked \cup {r \in Late : pc[r] \notin {"none", "push"}}

\* Once every thread is done with the task
Quiet == \A a \in Actors : pc[a] \in {"none", "done"}

\* `close`: "every registration is let go, including any made later".  No request
\* is lost between two walks, whoever they are by, and a task that ran to its end
\* is closed, by the run or by whoever registers after it
AllLetGo == Quiet /\ (CLOSED \/ state \in {"Ready", "Taken"}) => head = {}

\* `register`: "a task that already publishes nothing more lets the registration
\* go", however it came to its end
OverLetsGo == Quiet => head = {}

\* "An output published before a registration still reaches it": the last output,
\* left readable, has reached every registration whose far end is open
LastReaches ==
    Quiet /\ state = "Ready" =>
        \A r \in Made : far[r] = "open" => got[r][output] = 1

\* The registrations between any two walks, publishes and closes: one walk has them,
\* none is given an output twice, and when all is quiet none is left behind that should
\* have been let go or have had the last output (`walk`, `pass`, `close`)
ReceiversInv == TypeOK /\ OneWalk /\ NoneTwice /\ AllLetGo /\ LastReaches

\* A walk asked to look again and again still ends: whoever registers or publishes
\* gets its thread back, and the run gets to its end
WalksEnd == \A a \in Actors : pc[a] = "walk" ~> pc[a] = "done"

\* `TaskBuilder::give_to`: "a repeat gives every run's output".  A registration
\* linked at spawn is given each of them
EveryOutput ==
    Quiet /\ state = "Ready" =>
        \A r \in Linked : far[r] = "open" => \A o \in 1 .. output : got[r][o] = 1
=============================================================================
