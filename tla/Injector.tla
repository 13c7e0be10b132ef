------------------------------ MODULE Injector ------------------------------
(***************************************************************************)
(* The shared queue: a pushed side and a served side per band, both linked *)
(* through the tasks' headers, turned over by `flip` under a flag nobody   *)
(* waits for.  A link or a head is an index, an id or 0; ids start at 1    *)
(* and are spawned in order, so an id is also its task's sequence.         *)
(***************************************************************************)
EXTENDS Integers, FiniteSets, Sequences, Functions

CONSTANTS
    Workers,        \* threads that push and pop
    Manager,        \* the thread that refills, ages and promotes
    NumIds,         \* tasks
    NumBands,       \* PRIORITY_BANDS
    BandOf,         \* the band each task's class picks
    Relief,         \* STARVE_RELIEF
    Mortal,         \* tasks whose slot may be retired while they are queued
    Pushes, Ticks   \* pushes, and passes of the manager (bounds)

Threads == Workers \cup {Manager}
Ids == 1 .. NumIds
Bands == 0 .. (NumBands - 1)

ASSUME InjectorAssumption ==
    /\ IsFiniteSet(Workers) /\ Manager \notin Workers
    /\ NumIds \in Nat \ {0} /\ NumBands \in Nat \ {0} /\ BandOf \in [Ids -> Nat]
    /\ Mortal \subseteq Ids /\ Relief \in Nat \ {0} /\ Pushes \in Nat /\ Ticks \in Nat

VARIABLES
    incoming,       \* the pushed side's head, per band
    ready,          \* the served side's head and its tag, per band
    flipping,       \* bands being turned over
    len,            \* tasks counted in
    relief,         \* oldest first pops left
    link,           \* each header's `queue_next`
    queued,         \* tasks marked QUEUED_SHARED
    live,           \* tasks whose slot is live
    out,            \* tasks nobody has queued, free to be pushed
    pushes, ticks,  \* pushes and passes so far
    pc, loc         \* each thread's place and what it holds

sides == <<incoming, ready, flipping, link>>
counts == <<len, relief>>
tasks == <<queued, live, out, pushes, ticks>>
vars == <<sides, counts, tasks, pc, loc>>

NoHead == [tag |-> 0, index |-> 0]
\* What a thread holds: the pop it is in the middle of (op), its band, the id or
\* link it read, and the two ends of the list it is turning over
Nothing == [op |-> "none", band |-> 0, id |-> 0, head |-> NoHead, next |-> 0,
            cursor |-> 0, reversed |-> 0, again |-> FALSE]

Init ==
    /\ incoming = [b \in Bands |-> 0] /\ ready = [b \in Bands |-> NoHead]
    /\ flipping = {} /\ link = [i \in Ids |-> 0]
    /\ len = 0 /\ relief = 0
    /\ queued = {} /\ live = Ids /\ out = Ids /\ pushes = 0 /\ ticks = 0
    /\ pc = [t \in Threads |-> "idle"] /\ loc = [t \in Threads |-> Nothing]

Go(t, p) == pc' = [pc EXCEPT ![t] = p]
Hold(t, r) == loc' = [loc EXCEPT ![t] = r]
Done(t) == Go(t, "idle") /\ Hold(t, Nothing)
Smaller(a, b) == IF a < b THEN a ELSE b

-----------------------------------------------------------------------------
(* `push`, and the second half of `promote`, which pushes one band up.     *)

\* Marked and counted before it can be found
Push(t, i) ==
    /\ pc[t] = "idle" /\ i \in out \cap live /\ pushes < Pushes
    /\ queued' = queued \cup {i} /\ out' = out \ {i} /\ pushes' = pushes + 1
    /\ len' = len + 1
    /\ Hold(t, [Nothing EXCEPT !.op = "push", !.id = i,
                               !.band = Smaller(BandOf[i], NumBands - 1)])
    /\ Go(t, "push")
    /\ UNCHANGED <<sides, relief, live, ticks>>

\* The head is read and the task pointed at it
PushLink(t) ==
    /\ pc[t] = "push"
    /\ Hold(t, [loc[t] EXCEPT !.next = incoming[loc[t].band]])
    /\ link' = [link EXCEPT ![loc[t].id] = incoming[loc[t].band]]
    /\ Go(t, "push_cas")
    /\ UNCHANGED <<incoming, ready, flipping, counts, tasks>>

PushCas(t) ==
    /\ pc[t] = "push_cas"
    /\ IF incoming[loc[t].band] = loc[t].next
       THEN incoming' = [incoming EXCEPT ![loc[t].band] = loc[t].id] /\ Done(t)
       ELSE UNCHANGED incoming /\ Go(t, "push") /\ UNCHANGED loc
    /\ UNCHANGED <<ready, flipping, link, counts, tasks>>

-----------------------------------------------------------------------------
(* `pop_banded`, `take`, `pop_ready`.  `op` is what the pop is for:        *)
(* "relief" tries the oldest band, "pop" goes down the bands, "promote"    *)
(* looks at the served side of one band only.                              *)

Pop(t) ==
    /\ pc[t] = "idle"
    /\ IF relief # 0
       THEN Hold(t, [Nothing EXCEPT !.op = "relief"]) /\ Go(t, "oldest")
       ELSE Hold(t, [Nothing EXCEPT !.op = "pop", !.band = NumBands - 1]) /\ Go(t, "ready")
    /\ UNCHANGED <<sides, counts, tasks>>

\* What comes after a band turned out to be empty
BandEmpty(t) ==
    CASE loc[t].op = "relief" ->
            Hold(t, [Nothing EXCEPT !.op = "pop", !.band = NumBands - 1]) /\ Go(t, "ready")
      [] loc[t].op = "pop" /\ loc[t].band > 0 ->
            Hold(t, [Nothing EXCEPT !.op = "pop", !.band = loc[t].band - 1]) /\ Go(t, "ready")
      [] OTHER -> Done(t)

\* `oldest`: one band's served head is read at a time, from the bottom
Oldest(t) ==
    /\ pc[t] = "oldest"
    /\ LET l == loc[t]
           i == ready[l.cursor].index
           better == i # 0 /\ i \in live /\ (l.id = 0 \/ i < l.id)
           seen == [l EXCEPT !.id = IF better THEN i ELSE l.id,
                             !.band = IF better THEN l.cursor ELSE l.band,
                             !.cursor = l.cursor + 1]
       IN  IF l.cursor < NumBands - 1
           THEN Hold(t, seen) /\ UNCHANGED pc
           ELSE CASE l.op = "age" -> Hold(t, seen) /\ Go(t, "age")
                  [] l.op = "relief" /\ seen.id # 0 ->
                        Hold(t, [Nothing EXCEPT !.op = "relief", !.band = seen.band])
                        /\ Go(t, "ready")
                  [] OTHER -> BandEmpty(t)
    /\ UNCHANGED <<sides, counts, tasks>>

\* The served head is read.  Empty, a `take` turns the band over and looks
\* once more
ReadyLoad(t) ==
    /\ pc[t] = "ready"
    /\ LET l == loc[t] IN
       CASE ready[l.band].index # 0 ->
              Hold(t, [l EXCEPT !.head = ready[l.band]]) /\ Go(t, "link")
         [] ready[l.band].index = 0 /\ l.op # "promote" /\ ~l.again ->
              Go(t, "flip") /\ UNCHANGED loc
         [] OTHER -> BandEmpty(t)
    /\ UNCHANGED <<sides, counts, tasks>>

ReadyLink(t) ==
    /\ pc[t] = "link"
    /\ Hold(t, [loc[t] EXCEPT !.next = link[loc[t].head.index]])
    /\ Go(t, "ready_cas")
    /\ UNCHANGED <<sides, counts, tasks>>

\* Mutant: the tag is not bumped on the way out
PoppedUntagged(h, next) == [tag |-> h.tag, index |-> next]

\* The served side after its head has gone
Popped(h, next) == [tag |-> h.tag + 1, index |-> next]

Retry(t) == Go(t, "ready") /\ Hold(t, [loc[t] EXCEPT !.head = NoHead, !.next = 0])

\* A retired task is counted out and stepped over
ReadyCas(t) ==
    /\ pc[t] = "ready_cas"
    /\ LET l == loc[t] IN
       \/ /\ ready[l.band] # l.head
          /\ Retry(t) /\ UNCHANGED <<ready, len>>
       \/ /\ ready[l.band] = l.head
          /\ ready' = [ready EXCEPT ![l.band] = Popped(l.head, l.next)]
          /\ \/ /\ l.head.index \notin live
                /\ len' = len - 1 /\ Retry(t)
             \/ /\ l.head.index \in live
                /\ Hold(t, [Nothing EXCEPT !.op = l.op, !.band = l.band, !.id = l.head.index])
                /\ Go(t, IF l.op = "promote" THEN "raise" ELSE "claim") /\ UNCHANGED len
    /\ UNCHANGED <<incoming, flipping, link, relief, tasks>>

\* Counted out, then claimed, which only the queue's own mark allows.  A relief
\* pop spends its budget
Claim(t) ==
    /\ pc[t] = "claim"
    /\ len' = len - 1
    /\ LET i == loc[t].id IN
       IF i \in queued \cap live
       THEN /\ queued' = queued \ {i} /\ out' = out \cup {i}
            /\ relief' = IF loc[t].op = "relief" /\ relief > 0 THEN relief - 1 ELSE relief
            /\ Done(t)
       ELSE Go(t, "ready") /\ Hold(t, [loc[t] EXCEPT !.id = 0])
            /\ UNCHANGED <<queued, out, relief>>
    /\ UNCHANGED <<sides, live, pushes, ticks>>

-----------------------------------------------------------------------------
(* `flip`.                                                                 *)

\* What a caller does with the answer: a `take` looks at the served side again,
\* or gives the band up; `refill` goes on to the next band
Flipped(t, answer) ==
    LET l == loc[t] IN
    CASE l.op = "refill" /\ l.band < NumBands - 1 ->
            Hold(t, [Nothing EXCEPT !.op = "refill", !.band = l.band + 1]) /\ Go(t, "flip")
      [] l.op = "refill" /\ l.band = NumBands - 1 ->
            Hold(t, [Nothing EXCEPT !.op = "age"]) /\ Go(t, "oldest")
      [] l.op # "refill" /\ answer ->
            Hold(t, [Nothing EXCEPT !.op = l.op, !.band = l.band, !.again = TRUE])
            /\ Go(t, "ready")
      [] OTHER -> BandEmpty(t)

\* Mutant: the flag is set but nobody looks at it
FlipUnlocked(t) ==
    /\ pc[t] = "flip"
    /\ flipping' = flipping \cup {loc[t].band}
    /\ Go(t, "flip_look")
    /\ UNCHANGED <<incoming, ready, link, counts, tasks, loc>>

\* A band another thread is turning over is not waited for
FlipLock(t) ==
    /\ pc[t] = "flip"
    /\ flipping' = flipping \cup {loc[t].band}
    /\ IF loc[t].band \in flipping
       THEN Flipped(t, TRUE)
       ELSE Go(t, "flip_look") /\ UNCHANGED loc
    /\ UNCHANGED <<incoming, ready, link, counts, tasks>>

\* Filled while this was taking the lock
FlipLook(t) ==
    /\ pc[t] = "flip_look"
    /\ Hold(t, [loc[t] EXCEPT !.head = ready[loc[t].band]])
    /\ Go(t, IF ready[loc[t].band].index # 0 THEN "flip_unlock" ELSE "flip_swap")
    /\ UNCHANGED <<sides, counts, tasks>>

FlipSwap(t) ==
    /\ pc[t] = "flip_swap"
    /\ Hold(t, [loc[t] EXCEPT !.cursor = incoming[loc[t].band]])
    /\ incoming' = [incoming EXCEPT ![loc[t].band] = 0]
    /\ Go(t, IF incoming[loc[t].band] = 0 THEN "flip_unlock" ELSE "flip_turn")
    /\ UNCHANGED <<ready, flipping, link, counts, tasks>>

\* One node is turned to point the other way
FlipTurn(t) ==
    /\ pc[t] = "flip_turn"
    /\ LET l == loc[t] IN
       /\ Hold(t, [l EXCEPT !.cursor = link[l.cursor], !.reversed = l.cursor])
       /\ Go(t, IF link[l.cursor] = 0 THEN "flip_store" ELSE "flip_turn")
       /\ link' = [link EXCEPT ![l.cursor] = l.reversed]
    /\ UNCHANGED <<incoming, ready, flipping, counts, tasks>>

FlipStore(t) ==
    /\ pc[t] = "flip_store"
    /\ ready' = [ready EXCEPT ![loc[t].band] = Popped(loc[t].head, loc[t].reversed)]
    /\ Go(t, "flip_unlock")
    /\ UNCHANGED <<incoming, flipping, link, counts, tasks, loc>>

\* Worth another look if the served side was or has been filled
FlipUnlock(t) ==
    /\ pc[t] = "flip_unlock"
    /\ flipping' = flipping \ {loc[t].band}
    /\ Flipped(t, loc[t].head.index # 0 \/ loc[t].reversed # 0)
    /\ UNCHANGED <<incoming, ready, link, counts, tasks>>

-----------------------------------------------------------------------------
(* The manager: `refill`, then `age`, which may `promote`.  Whether the    *)
(* oldest task is old enough is the clock's choice.                        *)

Refill ==
    /\ pc[Manager] = "idle" /\ ticks < Ticks
    /\ ticks' = ticks + 1
    /\ Hold(Manager, [Nothing EXCEPT !.op = "refill"]) /\ Go(Manager, "flip")
    /\ UNCHANGED <<sides, counts, queued, live, out, pushes>>

SetStarving ==
    /\ pc[Manager] = "age"
    /\ LET l == loc[Manager] IN
       \/ /\ l.id = 0 \/ l.id \in live
          /\ relief' = 0 /\ Done(Manager)
       \/ /\ l.id # 0 /\ l.id \notin live
          /\ Done(Manager) /\ UNCHANGED relief
       \/ /\ l.id \in live
          /\ relief' = Relief
          /\ IF l.band + 1 < NumBands
             THEN Hold(Manager, [Nothing EXCEPT !.op = "promote", !.band = l.band])
                  /\ Go(Manager, "ready")
             ELSE Done(Manager)
    /\ UNCHANGED <<sides, len, tasks>>

\* A task that died since is counted out; a live one is pushed a band up, still
\* marked and still counted
Raise ==
    /\ pc[Manager] = "raise"
    /\ LET l == loc[Manager] IN
       IF l.id \in live
       THEN /\ Hold(Manager, [Nothing EXCEPT !.op = "push", !.id = l.id, !.band = l.band + 1])
            /\ Go(Manager, "push") /\ UNCHANGED len
       ELSE len' = len - 1 /\ Done(Manager)
    /\ UNCHANGED <<sides, relief, tasks>>

\* The shutdown's walk retires a task that is still linked (external: the pool's
\* owner); its header stays readable, and its id is not handed out again
Retire(i) ==
    /\ i \in queued \cap live \cap Mortal /\ live' = live \ {i}
    /\ UNCHANGED <<sides, counts, queued, out, pushes, ticks, pc, loc>>

-----------------------------------------------------------------------------
PopStep(t) ==
    \/ Oldest(t) \/ ReadyLoad(t) \/ ReadyLink(t) \/ ReadyCas(t) \/ Claim(t)
    \/ FlipLock(t) \/ FlipLook(t) \/ FlipSwap(t) \/ FlipTurn(t) \/ FlipStore(t)
    \/ FlipUnlock(t) \/ PushLink(t) \/ PushCas(t)

Next ==
    \/ \E t \in Workers : Pop(t) \/ \E i \in Ids : Push(t, i)
    \/ \E t \in Threads : PopStep(t)
    \/ Refill \/ SetStarving \/ Raise
    \/ \E i \in Ids : Retire(i)

Spec == Init /\ [][Next]_vars

-----------------------------------------------------------------------------
(* Properties.                                                             *)

\* The indices reached from one, along the headers' links
RECURSIVE Chain(_)
Chain(i) == IF i = 0 THEN <<>> ELSE <<i>> \o Chain(link[i])

RECURSIVE Stack(_)
Stack(i) == IF i = 0 THEN <<>> ELSE Append(Stack(link[i]), i)

\* The list a thread is turning over, oldest push first
Turning(b) ==
    LET turners == {t \in Threads : pc[t] \in {"flip_turn", "flip_store"} /\ loc[t].band = b}
    IN  IF turners = {} THEN <<>>
        ELSE LET l == loc[CHOOSE t \in turners : TRUE]
             IN  Stack(l.cursor) \o Chain(l.reversed)

Line(b) == Chain(ready[b].index) \o Turning(b) \o Stack(incoming[b])
Waiting == UNION {Range(Line(b)) : b \in Bands}
Quiet == \A t \in Threads : pc[t] = "idle"

Fifo == INSTANCE BandedFifo WITH q <- [b \in Bands |-> Line(b)]

\* Whatever the pushes, pops, flips and promotions in flight, a band is a queue:
\* a task joins it at the back, leaves it from the front, and is in one band at
\* a time (`push`, `pop_ready` with its tag, `flip`)
FifoPerBand == Fifo!Spec

\* The count is "only ever high, never low", so a worker that reads it before it
\* parks never misses a task; and when nobody is in the middle of anything it is
\* exact (`len`, against `push`, `take`, `promote` and a retired task)
CountHigh ==
    LET waiting == Cardinality(Waiting)
    IN  IF Quiet THEN len = waiting ELSE len >= waiting

\* A task pushed and not popped is in the queue, so that the next pop of its
\* band finds it: none is dropped between the two sides or between two bands
NoneLost ==
    Quiet => /\ Waiting \cap live = queued \cap live
             /\ flipping = {}

\* The counts and the two sides of every band agree: a worker that trusts the count
\* misses nothing, and nothing falls between the sides (`len`, `flip`, `promote`)
QueueInv == CountHigh /\ NoneLost
=============================================================================
