------------------------------- MODULE Gather -------------------------------
(***************************************************************************)
(* A waiting task that receives from a set of others (`receive_all`): the  *)
(* outputs of the set are gathered a round at a time, and a full round is  *)
(* given to the task by whichever of them filled it.  The give, and what   *)
(* letting go of a handle does to the task, are Gate's.  A task in the set *)
(* is named for the copy of the target's handle it gives with.             *)
(* `receive_any` gives each output straight on: several givers of Gate.    *)
(***************************************************************************)
EXTENDS Gate

CONSTANTS
    Leaves,     \* tasks that can be in the set
    Target,     \* the handle `Gather` holds
    Source,     \* the handle the task was spawned with
    Outs        \* outputs each task publishes at most (bound)

ASSUME GatherAssumption ==
    /\ Leaves \subseteq Givers /\ {Target, Source} \subseteq Givers \ Leaves /\ Target # Source
    /\ Outs \in Nat

VARIABLES
    linked,     \* whether the task receives from a set; if not it is as in Gate
    set,        \* the tasks in it
    slots,      \* this round: the output each has filled it with, 0 for none
    target,     \* whether `target` still holds its handle
    broken,     \* whether a task of the set has gone
    giving,     \* rounds emptied and not yet given
    lpc,        \* where each task's thread is
    outs,       \* outputs each has published
    gone,       \* tasks whose `GatherLeaf` is being dropped or has been
    lost        \* rounds emptied that found no target

gatherVars == <<linked, set, slots, target, broken, giving, lpc, outs, gone, lost>>
allVars == <<vars, gatherVars>>

\* `receive_all`: the set is linked while the handle it was spawned with can give
GatherInit ==
    /\ linked \in BOOLEAN /\ set \in IF linked THEN {Leaves, {}} ELSE {{}}
    /\ slots = [l \in Leaves |-> 0] /\ target = linked /\ broken = FALSE /\ giving = 0
    /\ lpc = [l \in Leaves |-> "unlinked"] /\ outs = [l \in Leaves |-> 0]
    /\ gone = {} /\ lost = 0
    /\ \E k \in Spawned : series = k[1] /\ counted = k[2]
    /\ written = FALSE
    /\ gate = "WAITING" /\ gives_left = Gives /\ givers = IF linked THEN 2 ELSE 1
    /\ state = "Pending" /\ task = "slot" /\ queue = 0 /\ runsLeft = Runs /\ released = FALSE
    /\ \E first \in IF linked THEN {{Target, Source}} ELSE {{l} : l \in Leaves} :
         pc = [a \in Actors |-> IF a \in Givers \ first THEN "none" ELSE "idle"]
    /\ saw = [a \in Actors |-> "WAITING"] /\ to = [a \in Actors |-> "WAITING"]
    /\ then = [g \in Givers |-> "idle"] /\ mine = [g \in Givers |-> 0]
    /\ mail = 0 /\ accepted = 0 /\ handed = 0 /\ started = 0

At(l, p) == linked /\ lpc[l] = p
Move(l, p) == lpc' = [lpc EXCEPT ![l] = p]
Round == UNCHANGED <<linked, set, outs, gone>>

-----------------------------------------------------------------------------
(* Linking.                                                                *)

\* `link`, one task after another: it is counted and registered
Link(l) ==
    /\ At(l, "unlinked") /\ l \in set /\ Move(l, "run")
    /\ Round /\ UNCHANGED <<vars, slots, target, broken, giving, lost>>

\* `settle` of a set with nothing in it, which is full before anything arrives: the
\* linking thread fills it, with the copy a task of the set would have used
Settle(l) ==
    /\ At(l, "unlinked") /\ set = {} /\ \A k \in Leaves : lpc[k] = "unlinked"
    /\ giving' = giving + 1 /\ Move(l, "copy")
    /\ Round /\ UNCHANGED <<vars, slots, target, broken, lost>>

\* `into_plain`: only the set gives from here on
IntoPlain ==
    /\ linked /\ pc[Source] = "idle"
    /\ IF set = {} THEN \E l \in Leaves : lpc[l] = "out" ELSE \A l \in set : lpc[l] # "unlinked"
    /\ DropGiver(Source) /\ UNCHANGED gatherVars

-----------------------------------------------------------------------------
(* `GatherLeaf::deliver` and `fill`.                                       *)

Publishes(l) ==
    /\ At(l, "run") /\ outs[l] < Outs /\ Move(l, "fill") /\ outs' = [outs EXCEPT ![l] = @ + 1]
    /\ UNCHANGED <<vars, linked, set, gone, slots, target, broken, giving, lost>>

\* Under the slots' lock; a round that is full is emptied there too
Fill(l) ==
    LET filled == [slots EXCEPT ![l] = outs[l]] IN
    /\ At(l, "fill")
    /\ IF \A k \in set : filled[k] # 0
       THEN slots' = [k \in Leaves |-> 0] /\ giving' = giving + 1 /\ Move(l, "copy")
       ELSE slots' = filled /\ Move(l, "visited") /\ UNCHANGED giving
    /\ Round /\ UNCHANGED <<vars, target, broken, lost>>

\* A copy of the target, so nothing is locked while the give runs
CopyTarget(l) ==
    /\ At(l, "copy")
    /\ \/ target /\ Go(l, "idle") /\ givers' = givers + 1 /\ Move(l, "give") /\ UNCHANGED lost
       \/ ~target /\ Move(l, "lower") /\ lost' = lost + 1 /\ UNCHANGED <<givers, pc>>
    /\ Round /\ UNCHANGED <<slots, target, broken, giving, gate, gives_left, slotVars, valueVars, saw, to, then>>

\* The give, which a task that is over refuses
GiveRound(l) ==
    /\ At(l, "give") /\ Move(l, "given")
    /\ Look(l) \/ ((gate = "FINISHED" \/ state \in Over) /\ UNCHANGED vars)
    /\ Round /\ UNCHANGED <<slots, target, broken, giving, lost>>

DropCopy(l) ==
    /\ At(l, "given") /\ pc[l] = "idle" /\ DropGiver(l) /\ Move(l, "lower")
    /\ Round /\ UNCHANGED <<slots, target, broken, giving, lost>>

\* Given before `giving` is lowered, and lowered before `broken` is read
Lower(l) ==
    /\ At(l, "lower") /\ pc[l] \in {"none", "gone"}
    /\ giving' = giving - 1 /\ Move(l, "broken")
    /\ Round /\ UNCHANGED <<vars, slots, target, broken, lost>>

ReadBroken(l) ==
    /\ At(l, "broken") /\ Move(l, IF broken \/ set = {} THEN "let_go" ELSE "visited")
    /\ Round /\ UNCHANGED <<vars, slots, target, broken, giving, lost>>

\* `let_go`: whoever takes the handle out drops it
LetGoTarget(l) ==
    /\ At(l, "let_go") /\ Move(l, IF l \in gone \/ set = {} THEN "out" ELSE "visited")
    /\ target' = FALSE /\ IF target THEN DropGiver(Target) ELSE UNCHANGED vars
    /\ Round /\ UNCHANGED <<slots, broken, giving, lost>>

\* The end of a `visit`: a forward that is `finished` is dropped
Visited(l) ==
    /\ At(l, "visited")
    /\ IF ~target \/ gate = "FINISHED"
       THEN Move(l, "gone") /\ gone' = gone \cup {l} ELSE Move(l, "run") /\ UNCHANGED gone
    /\ UNCHANGED <<vars, linked, set, outs, slots, target, broken, giving, lost>>

-----------------------------------------------------------------------------
(* A task leaves the set.                                                  *)

\* It publishes nothing more, and its `GatherLeaf` is dropped
Ends(l) ==
    /\ At(l, "run") /\ Move(l, "gone") /\ gone' = gone \cup {l}
    /\ UNCHANGED <<vars, linked, set, outs, slots, target, broken, giving, lost>>

\* `leaf_gone`: first it says so
LeafGone(l) ==
    /\ At(l, "gone") /\ broken' = TRUE /\ Move(l, "coming")
    /\ Round /\ UNCHANGED <<vars, slots, target, giving, lost>>

\* Mutant: a round already emptied out of the slots is forgotten
StillComingSlot(l) ==
    /\ At(l, "coming") /\ Move(l, IF slots[l] # 0 THEN "out" ELSE "let_go")
    /\ Round /\ UNCHANGED <<vars, slots, target, broken, giving, lost>>

\* Then, under the slots' lock, it asks whether a round is still to come: its own
\* slot is full, or one is on its way
StillComing(l) ==
    /\ At(l, "coming") /\ Move(l, IF slots[l] # 0 \/ giving # 0 THEN "out" ELSE "let_go")
    /\ Round /\ UNCHANGED <<vars, slots, target, broken, giving, lost>>

\* `fail`: the copy into the slot panicked, so the target is written off and the
\* forward dropped
Fail(l) ==
    /\ At(l, "fill") /\ WriteOffs /\ Move(l, "gone") /\ gone' = gone \cup {l}
    /\ target' = FALSE /\ IF target THEN WriteOff(Target) ELSE UNCHANGED vars
    /\ UNCHANGED <<linked, set, outs, slots, broken, giving, lost>>

-----------------------------------------------------------------------------
FillStep(l) ==
    \/ Publishes(l) \/ Fill(l) \/ CopyTarget(l) \/ GiveRound(l) \/ DropCopy(l) \/ Lower(l)
    \/ ReadBroken(l) \/ LetGoTarget(l) \/ Visited(l)
LeafStep(l) == Link(l) \/ Settle(l) \/ FillStep(l) \/ Ends(l) \/ LeafGone(l) \/ StillComing(l) \/ Fail(l)

\* The target's own calls go on as in Gate; its handles are the set's to use
TargetStep ==
    \/ \E g \in Givers : GiverStep(g)
    \/ \E a \in Actors : CommonStep(a) \/ StartRefused(a)
    \/ \E x \in Workers : RunStep(x) \/ Panic(x) \/ AgainRefused(x)

GatherNext ==
    \/ ~linked /\ Next /\ pc'[Target] = "none" /\ pc'[Source] = "none" /\ UNCHANGED gatherVars
    \/ linked /\ TargetStep /\ UNCHANGED gatherVars
    \/ IntoPlain \/ \E l \in Leaves : LeafStep(l)

GatherSpec == GatherInit /\ [][GatherNext]_allVars

-----------------------------------------------------------------------------
(* Properties.                                                             *)

\* No thread of the set is inside a call
Settled == Quiet /\ \A l \in Leaves : lpc[l] \in {"unlinked", "run", "out"}

\* A round that has been emptied out of the slots finds its target, whoever leaves
\* the set meanwhile, and rounds are given one at a time, so in order.  Once a task
\* that owes its slot has left, no round can fill and the target is let go, and so
\* it is once an empty set has been handed on (`fill`, `leaf_gone`, `settle`)
RoundsReach ==
    /\ lost = 0 \/ written
    /\ giving <= 1
    /\ Settled /\ target => ~(\E l \in gone : slots[l] = 0) /\ (linked /\ set = {} => pc[Source] = "idle")

\* `leaf_gone`: this round "still can" fill "if that task's slot is already full", and
\* the target is let go "by the fill that gives it, not here"
RoundStillFills ==
    linked /\ set # {} /\ ~target /\ ~written => \E l \in gone : slots[l] = 0
=============================================================================
