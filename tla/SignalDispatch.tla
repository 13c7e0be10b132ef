-------------------------- MODULE SignalDispatch ---------------------------
(***************************************************************************)
(* One signal: whether the runtime's counting handler is on it, who keeps  *)
(* it there, and what each task waiting for it has been told.  The four    *)
(* words of `dispatch.rs` are atomics used without a lock, so every load,  *)
(* store and `sigaction` is a step of its own.                             *)
(***************************************************************************)
EXTENDS Integers, FiniteSets

CONSTANTS
    Keepers,    \* tasks with `SignalReleasePolicy::Hold`
    Droppers,   \* tasks with `SignalReleasePolicy::OnDrop`
    Releases,   \* whether the user ever calls `release`
    Width,      \* the count wraps at Width: 2^32 in the code
    Deliveries  \* signals that may be counted (bound)

Tasks == Keepers \cup Droppers
Caller == "release"     \* the thread that calls `Signal::release`
Actors == Tasks \cup {Caller}

ASSUME SignalAssumption ==
    /\ IsFiniteSet(Keepers) /\ IsFiniteSet(Droppers)
    /\ Keepers \cap Droppers = {} /\ Caller \notin Tasks
    /\ Releases \in BOOLEAN
    /\ Width \in Nat \ {0} /\ Deliveries \in Nat

VARIABLES
    COUNTS,     \* arrivals counted, modulo Width
    CAUGHT,     \* the handler is installed, or about to be
    HELD,       \* something asked to keep the signal for good
    WATCHERS,   \* live claims that want it handed back
    handler,    \* what the kernel does with it: "default" or "count"
    pc,         \* where each task and the releasing caller are
    seen,       \* the count each task last reported
    start,      \* for each task, counted deliveries when it began
    told,       \* for each task, the total its runs have returned
    counted     \* deliveries the handler counted

words == <<CAUGHT, HELD, WATCHERS, handler>>
signalVars == <<COUNTS, words, pc, seen, start, told, counted>>

SignalInit ==
    /\ COUNTS = 0 /\ CAUGHT = FALSE /\ HELD = FALSE /\ WATCHERS = 0
    /\ handler = "default"
    /\ pc = [a \in Actors |-> "new"]
    /\ seen = [t \in Tasks |-> 0] /\ start = [t \in Tasks |-> 0]
    /\ told = [t \in Tasks |-> 0]
    /\ counted = 0

Go(a, p) == pc' = [pc EXCEPT ![a] = p]

-----------------------------------------------------------------------------
(* Taking a signal over.                                                   *)

\* `catch`, before the handler: the promise to keep it, or a claim on it
Catch(t) ==
    /\ pc[t] = "new"
    /\ HELD' = (HELD \/ t \in Keepers)
    /\ WATCHERS' = IF t \in Droppers THEN WATCHERS + 1 ELSE WATCHERS
    /\ Go(t, "install")
    /\ UNCHANGED <<COUNTS, CAUGHT, handler, seen, start, told, counted>>

\* `install` swaps the flag, and only the first goes on to the kernel
InstallSwap(t) ==
    /\ pc[t] = "install"
    /\ CAUGHT' = TRUE
    /\ Go(t, IF CAUGHT THEN "begin" ELSE "sigaction")
    /\ UNCHANGED <<COUNTS, HELD, WATCHERS, handler, seen, start, told, counted>>

InstallHandler(t) ==
    /\ pc[t] = "sigaction"
    /\ handler' = "count" /\ Go(t, "begin")
    /\ UNCHANGED <<COUNTS, CAUGHT, HELD, WATCHERS, seen, start, told, counted>>

\* The kernel refuses: the flag is put back and the claim is dropped
InstallFails(t) ==
    /\ pc[t] = "sigaction"
    /\ CAUGHT' = FALSE /\ Go(t, IF t \in Droppers THEN "drop" ELSE "gone")
    /\ UNCHANGED <<COUNTS, HELD, WATCHERS, handler, seen, start, told, counted>>

\* `SignalTask::advance` starts from the count it finds
BeginCount(t) ==
    /\ pc[t] = "begin"
    /\ seen' = [seen EXCEPT ![t] = COUNTS] /\ start' = [start EXCEPT ![t] = counted]
    /\ Go(t, "watching")
    /\ UNCHANGED <<COUNTS, words, told, counted>>

\* Mutant: the difference is taken without wrapping
AdvanceUnwrapped(t) ==
    /\ pc[t] = "watching" /\ COUNTS # seen[t]
    /\ told' = [told EXCEPT ![t] = @ + (IF COUNTS > seen[t] THEN COUNTS - seen[t] ELSE 0)]
    /\ seen' = [seen EXCEPT ![t] = COUNTS]
    /\ UNCHANGED <<COUNTS, words, pc, start, counted>>

\* A look that finds something new returns how many; the next run, or the poll
\* that bounds a park, looks again
Advance(t) ==
    /\ pc[t] = "watching" /\ COUNTS # seen[t]
    /\ told' = [told EXCEPT ![t] = @ + ((COUNTS - seen[t]) % Width)]
    /\ seen' = [seen EXCEPT ![t] = COUNTS]
    /\ UNCHANGED <<COUNTS, words, pc, start, counted>>

\* Mutant: the copy takes no claim of its own
CloneTaskUncounted(t, u) ==
    /\ pc[t] = "watching" /\ pc[u] = "new"
    /\ (t \in Droppers <=> u \in Droppers)
    /\ seen' = [seen EXCEPT ![u] = seen[t]]
    /\ start' = [start EXCEPT ![u] = start[t]] /\ told' = [told EXCEPT ![u] = told[t]]
    /\ Go(u, "watching")
    /\ UNCHANGED <<COUNTS, words, counted>>

\* A copy of a watching task is another watcher, and counts from the same place
CloneTask(t, u) ==
    /\ pc[t] = "watching" /\ pc[u] = "new"
    /\ (t \in Droppers <=> u \in Droppers)
    /\ WATCHERS' = IF t \in Droppers THEN WATCHERS + 1 ELSE WATCHERS
    /\ seen' = [seen EXCEPT ![u] = seen[t]]
    /\ start' = [start EXCEPT ![u] = start[t]] /\ told' = [told EXCEPT ![u] = told[t]]
    /\ Go(u, "watching")
    /\ UNCHANGED <<COUNTS, CAUGHT, HELD, handler, counted>>

-----------------------------------------------------------------------------
(* Handing it back.                                                        *)

DropTask(t) ==
    /\ pc[t] = "watching"
    /\ Go(t, IF t \in Droppers THEN "drop" ELSE "gone")
    /\ UNCHANGED <<COUNTS, words, seen, start, told, counted>>

\* `Watcher::drop` counts itself out, and only the last goes on
DropWatcher(t) ==
    /\ pc[t] = "drop"
    /\ WATCHERS' = WATCHERS - 1
    /\ Go(t, IF WATCHERS = 1 THEN "held" ELSE "gone")
    /\ UNCHANGED <<COUNTS, CAUGHT, HELD, handler, seen, start, told, counted>>

CheckHeld(t) ==
    /\ pc[t] = "held"
    /\ Go(t, IF HELD THEN "gone" ELSE "restore")
    /\ UNCHANGED <<COUNTS, words, seen, start, told, counted>>

\* `release` takes the promise away, then restores
Release ==
    /\ Releases /\ pc[Caller] = "new"
    /\ HELD' = FALSE /\ Go(Caller, "restore")
    /\ UNCHANGED <<COUNTS, CAUGHT, WATCHERS, handler, seen, start, told, counted>>

\* `restore` swaps the flag, and only whoever cleared it goes on
RestoreSwap(a) ==
    /\ pc[a] = "restore"
    /\ CAUGHT' = FALSE
    /\ Go(a, IF CAUGHT THEN "default" ELSE "gone")
    /\ UNCHANGED <<COUNTS, HELD, WATCHERS, handler, seen, start, told, counted>>

RestoreDefault(a) ==
    /\ pc[a] = "default"
    /\ handler' = "default" /\ Go(a, "gone")
    /\ UNCHANGED <<COUNTS, CAUGHT, HELD, WATCHERS, seen, start, told, counted>>

\* A signal arrives, and the handler is one atomic add.  While the default is in
\* place nothing of the runtime's changes.  Width signals between two looks of a
\* task would read as none: fewer arrive, as 2^32 in one SIGNAL_POLL would be
Deliver ==
    /\ handler = "count" /\ counted < Deliveries
    /\ \A t \in Tasks : pc[t] = "watching" => counted - start[t] - told[t] < Width - 1
    /\ COUNTS' = (COUNTS + 1) % Width /\ counted' = counted + 1
    /\ UNCHANGED <<words, pc, seen, start, told>>

-----------------------------------------------------------------------------
WatchStep(t) ==
    \/ InstallSwap(t) \/ InstallHandler(t) \/ BeginCount(t) \/ Advance(t)
    \/ DropWatcher(t) \/ CheckHeld(t)

SignalNext ==
    \/ Deliver \/ Release
    \/ \E t \in Tasks : Catch(t) \/ WatchStep(t) \/ InstallFails(t) \/ DropTask(t)
    \/ \E t, u \in Tasks : CloneTask(t, u)
    \/ \E a \in Actors : RestoreSwap(a) \/ RestoreDefault(a)

SignalSpec == SignalInit /\ [][SignalNext]_signalVars

-----------------------------------------------------------------------------
(* Properties.                                                             *)

\* Types: the four words of `dispatch.rs` stay in range, the wrapping count included
SignalTypeOK ==
    /\ COUNTS \in 0..(Width - 1) /\ CAUGHT \in BOOLEAN /\ HELD \in BOOLEAN
    /\ WATCHERS \in Nat /\ handler \in {"default", "count"}
    /\ pc \in [Actors -> {"new", "install", "sigaction", "begin", "watching", "drop",
                          "held", "restore", "default", "gone"}]
    /\ seen \in [Tasks -> 0..(Width - 1)] /\ start \in [Tasks -> Nat]
    /\ told \in [Tasks -> Nat] /\ counted \in Nat

\* Live claims: taken before the handler, given up by the drop
Claims == {t \in Droppers : pc[t] \in {"install", "sigaction", "begin", "watching", "drop"}}

\* Every copy of a task holds a claim, no claim outlives its task, and one whose
\* `sigaction` was refused gives it up once (`Watcher`, `catch`)
WatchersCounted == SignalTypeOK /\ WATCHERS = Cardinality(Claims)

\* `SignalTask`: "A `.repeat()` of one loses nothing".  What the runs of a task
\* have returned, with what its next look returns, is every delivery counted
\* since it began, across the wrap of the count
NothingLost ==
    \A t \in Tasks : pc[t] = "watching" =>
        told[t] + ((COUNTS - seen[t]) % Width) = counted - start[t]

\* `Watcher`: "nothing is handed back underneath a task still waiting", and
\* `catch`: "nothing can hand the signal back between installing it and this
\* being known".  Unless the user released it, the default is never put back
\* while a task watches
NotHandedBack ==
    [][handler = "count" /\ handler' = "default" /\ ~Releases =>
         \A t \in Tasks : pc[t] # "watching"]_signalVars

\* `Watcher::drop`: "The last one out hands the signal back, unless something
\* asked to keep it".  While no task watches or is on its way in or out, a signal
\* nothing holds has its default back
HandedBack ==
    (\A a \in Actors : pc[a] \in {"new", "gone"}) /\ ~HELD => handler = "default"
=============================================================================
