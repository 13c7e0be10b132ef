--------------------------- MODULE TaskSlotProofs ---------------------------
(***************************************************************************)
(* Theorems about TaskSlot, for any number of handles, pool threads, runs, *)
(* deaths and shutdowns.  They rest on counting the threads in a set, on   *)
(* what a thread that moves leaves alone, and on the slot's references.    *)
(***************************************************************************)
EXTENDS TaskSlot, FiniteSetTheorems, TLAPS

\* tlapm infers types before it calls the SMT solver, which is most of its work on the
\* steps below; a fact with a CASE in it makes it go on without them
LEMMA Untyped == CASE TRUE -> TRUE
BY ZenonT(30)
USE Untyped

IInv == TypeOK /\ SlotInv

\* Only thread a moves, apart from sleepers it wakes
Moved(a) ==
    \A b \in Actors \ {a} : \/ pc'[b] = pc[b]
                            \/ pc[b] = "blocked" /\ pc'[b] = "wait"

\* Where thread a can be
PcOf(a) == IF a \in Handles THEN HandlePc
           ELSE IF a \in Workers THEN WorkerPc ELSE ReaperPc

\* The part of TypeOK about where the threads are
PcTyped ==
    /\ pc \in [Actors -> HandlePc \cup WorkerPc \cup ReaperPc]
    /\ \A h \in Handles : pc[h] \in HandlePc
    /\ \A w \in Workers : pc[w] \in WorkerPc
    /\ pc[Reaper] \in ReaperPc

One(p) == IF p THEN 1 ELSE 0

ReadPc == {"check", "clone", "leave", "leave_bad"}
RestPc == {"idle", "release", "unref"}

\* The counters change by what thread a's own membership changes by
Balance(a) ==
    /\ listeners' = listeners + One(a \in Live') - One(a \in Live)
                      + One(a \in Releasing') - One(a \in Releasing)
                      + One(held') - One(held)
    /\ readers' = readers + One(a \in Reading') - One(a \in Reading)
    /\ state' = "Free" => listeners' = 0

\* Thread a leaves every counter alone, and stays in the sets they count
Steady(a) ==
    /\ UNCHANGED <<listeners, readers, held>>
    /\ state' = "Free" => state = "Free"
    /\ pc[a] # "unref" /\ pc'[a] # "unref"
    /\ a \in Handles => /\ pc[a] \notin {"none", "gone"} /\ pc'[a] \notin {"none", "gone"}
                        /\ pc'[a] \in ReadPc <=> pc[a] \in ReadPc

\* Thread a leaves the pool, the queue, the runs left and the executor's reference
\* alone, and takes up neither the duty nor the task
Aside(a) ==
    /\ UNCHANGED <<pool, queue, held, runsLeft>>
    /\ task' => task
    /\ pc'[a] \in DutyPc => pc[a] \in DutyPc
    /\ IF a \in Handles
         THEN pc'[a] # "none" /\ (pc'[a] \in {"submit", "push"} => pc[a] \in {"submit", "push"})
         ELSE pc[a] # "idle"
    /\ a \in Workers => /\ Running(a)' => Running(a) \/ ~task'
                        /\ pc[a] \in RestPc => pc'[a] \in RestPc

-----------------------------------------------------------------------------
\* Adding or removing one element changes a finite set's cardinality by what
\* its membership changed by
LEMMA CardStep ==
    ASSUME NEW S, NEW T, NEW a, IsFiniteSet(S), S \ {a} = T \ {a}
    PROVE  /\ Cardinality(S) \in Nat /\ Cardinality(T) \in Nat
           /\ Cardinality(T) = Cardinality(S) + One(a \in T) - One(a \in S)
<1>1. IsFiniteSet(S \ {a}) /\ Cardinality(S \ {a}) = Cardinality(S) - One(a \in S)
  BY FS_RemoveElement, FS_CardinalityType DEF One
<1>2. T = (IF a \in T THEN (S \ {a}) \cup {a} ELSE S \ {a})
  OBVIOUS
<1>3. IsFiniteSet(T) /\ Cardinality(T) = Cardinality(S \ {a}) + One(a \in T)
  <2>1. CASE a \in T
    BY <2>1, <1>1, <1>2, FS_AddElement DEF One
  <2>2. CASE a \notin T
    <3>1. T = S \ {a}
      BY <2>2, <1>2
    <3>2. Cardinality(S \ {a}) \in Nat
      BY <1>1, FS_CardinalityType
    <3> QED  BY <2>2, <1>1, <3>1, <3>2 DEF One
  <2> QED  BY <2>1, <2>2
<1> QED  BY <1>1, <1>3, FS_CardinalityType DEF One

\* The three sets the counters count are finite
LEMMA SetsFinite ==
    ASSUME TypeOK
    PROVE  /\ IsFiniteSet(Live) /\ IsFiniteSet(Releasing) /\ IsFiniteSet(Reading)
           /\ Cardinality(Live) \in Nat /\ Cardinality(Releasing) \in Nat
           /\ Cardinality(Reading) \in Nat
<1>1. IsFiniteSet(Actors)
  BY SlotAssumption, FS_Union, FS_AddElement DEF Actors
<1>2. Live \in SUBSET Actors /\ Releasing \in SUBSET Actors /\ Reading \in SUBSET Actors
  BY DEF Live, Releasing, Reading, Actors
<1> QED  BY <1>1, <1>2, FS_Subset, FS_CardinalityType

\* What one thread's move does to the three counts
LEMMA Deltas ==
    ASSUME TypeOK, TypeOK', NEW a \in Actors, Moved(a)
    PROVE  /\ Cardinality(Live') = Cardinality(Live) + One(a \in Live') - One(a \in Live)
           /\ Cardinality(Releasing') =
                Cardinality(Releasing) + One(a \in Releasing') - One(a \in Releasing)
           /\ Cardinality(Reading') =
                Cardinality(Reading) + One(a \in Reading') - One(a \in Reading)
<1>1. Live \ {a} = Live' \ {a}
  BY DEF Live, Moved, Actors
<1>2. Releasing \ {a} = Releasing' \ {a}
  BY DEF Releasing, Moved
<1>3. Reading \ {a} = Reading' \ {a}
  BY DEF Reading, Moved, Actors
<1> QED  BY <1>1, <1>2, <1>3, SetsFinite, CardStep

\* A step whose thread accounts for itself keeps the counters exact
LEMMA Balanced ==
    ASSUME IInv, TypeOK', NEW a \in Actors, Moved(a), Balance(a)
    PROVE  RefsCounted' /\ ReadersCounted'
<1>1. TypeOK /\ RefsCounted /\ ReadersCounted
  BY DEF IInv, SlotInv
<1>2. /\ Cardinality(Live') = Cardinality(Live) + One(a \in Live') - One(a \in Live)
      /\ Cardinality(Releasing') =
           Cardinality(Releasing) + One(a \in Releasing') - One(a \in Releasing)
      /\ Cardinality(Reading') =
           Cardinality(Reading) + One(a \in Reading') - One(a \in Reading)
  BY <1>1, Deltas
<1>3. Cardinality(Live) \in Nat /\ Cardinality(Releasing) \in Nat /\ Cardinality(Reading) \in Nat
  BY <1>1, SetsFinite
<1>4. \A p : One(p) \in {0, 1}
  BY DEF One
<1>5. ReadersCounted'
  BY <1>1, <1>2, <1>3, <1>4 DEF Balance, ReadersCounted, TypeOK
<1>6. listeners = Cardinality(Live) + Cardinality(Releasing) + One(held)
  BY <1>1 DEF RefsCounted, One
<1>7. listeners' = Cardinality(Live') + Cardinality(Releasing') + One(held')
  BY <1>2, <1>3, <1>4, <1>6 DEF Balance
<1>8. RefsCounted'
  BY <1>7 DEF RefsCounted, Balance, One
<1> QED  BY <1>5, <1>8

\* A step that leaves the counters alone keeps them exact
LEMMA SteadyBalance ==
    ASSUME IInv, NEW a \in Actors, Steady(a)
    PROVE  Balance(a)
<1>1. (a \in Live' <=> a \in Live) /\ (a \in Reading' <=> a \in Reading)
  BY DEF Steady, Live, Reading, ReadPc
<1>2. a \notin Releasing /\ a \notin Releasing'
  BY DEF Steady, Releasing
<1>3. listeners \in Nat /\ readers \in Nat /\ (state = "Free" => listeners = 0)
  BY DEF IInv, TypeOK, SlotInv, RefsCounted
<1>4. listeners' = listeners /\ readers' = readers /\ held' = held
  BY DEF Steady
<1>5. state' = "Free" => listeners' = 0
  BY <1>3, <1>4 DEF Steady
<1> QED  BY <1>1, <1>2, <1>3, <1>4, <1>5 DEF Balance, One

\* A thread that goes to a place of its own kind is the only one that moves
LEMMA GoMoves ==
    ASSUME TypeOK, NEW a \in Actors, NEW p \in PcOf(a), Go(a, p)
    PROVE  PcTyped' /\ Moved(a) /\ pc'[a] = p
<1>1. /\ pc \in [Actors -> HandlePc \cup WorkerPc \cup ReaperPc]
      /\ pc' = [pc EXCEPT ![a] = p]
      /\ p \in HandlePc \cup WorkerPc \cup ReaperPc
  BY DEF TypeOK, Go, PcOf
<1>2. /\ pc' \in [Actors -> HandlePc \cup WorkerPc \cup ReaperPc]
      /\ pc'[a] = p /\ \A b \in Actors : b # a => pc'[b] = pc[b]
  BY <1>1
<1>3. PcTyped'
  BY <1>2, SlotAssumption DEF TypeOK, PcTyped, PcOf, Actors
<1> QED  BY <1>2, <1>3 DEF Moved

\* So it is when it wakes the others on its way
LEMMA WakeMoves ==
    ASSUME TypeOK, NEW a \in Actors, NEW p \in PcOf(a), WakeAll(a, p)
    PROVE  PcTyped' /\ Moved(a) /\ pc'[a] = p
<1>1. /\ pc \in [Actors -> HandlePc \cup WorkerPc \cup ReaperPc]
      /\ p \in HandlePc \cup WorkerPc \cup ReaperPc
      /\ "wait" \in HandlePc
  BY DEF TypeOK, PcOf, HandlePc
<1>2. /\ pc' \in [Actors -> HandlePc \cup WorkerPc \cup ReaperPc]
      /\ pc'[a] = p
      /\ \A b \in Actors : b # a => pc'[b] = IF pc[b] = "blocked" THEN "wait" ELSE pc[b]
  BY <1>1 DEF WakeAll
<1>3. /\ \A w \in Workers : pc[w] # "blocked"
      /\ pc[Reaper] # "blocked"
  BY DEF TypeOK, WorkerPc, ReaperPc
<1>4. PcTyped'
  BY <1>1, <1>2, <1>3, SlotAssumption DEF TypeOK, PcTyped, PcOf, Actors
<1> QED  BY <1>2, <1>4 DEF Moved

\* What the threads that do not move keep
LEMMA Others ==
    ASSUME IInv, NEW a \in Actors, Moved(a)
    PROVE  /\ \A b \in Actors : b # a => (pc'[b] \in DutyPc <=> pc[b] \in DutyPc)
           /\ \A w \in Workers : w \in Actors /\ w \notin Handles /\ (w # a => pc'[w] = pc[w])
           /\ Reaper \in Actors /\ Reaper \notin Handles \cup Workers
           /\ Reaper # a => pc'[Reaper] = pc[Reaper]
           /\ \A h \in Handles : h \in Actors /\ h \notin Workers
           /\ \A h \in Handles : h # a =>
                /\ pc'[h] = "none" <=> pc[h] = "none"
                /\ pc'[h] \in {"submit", "push"} => pc[h] \in {"submit", "push"}
<1>1. \A b \in Actors : b # a => \/ pc'[b] = pc[b]
                                 \/ pc[b] = "blocked" /\ pc'[b] = "wait"
  BY DEF Moved
<1>2. \A b \in Actors : b # a => (pc'[b] \in DutyPc <=> pc[b] \in DutyPc)
  BY <1>1 DEF DutyPc
<1>3. /\ Reaper \in Actors /\ Reaper \notin Handles \cup Workers
      /\ \A h \in Handles : h \in Actors /\ h \notin Workers
      /\ \A w \in Workers : w \in Actors /\ w \notin Handles
  BY SlotAssumption DEF Actors
<1>4. pc[Reaper] # "blocked" /\ \A w \in Workers : pc[w] # "blocked"
  BY DEF IInv, TypeOK, WorkerPc, ReaperPc
<1>5. \A h \in Handles : h # a =>
        /\ pc'[h] = "none" <=> pc[h] = "none"
        /\ pc'[h] \in {"submit", "push"} => pc[h] \in {"submit", "push"}
  BY <1>1, <1>3
<1> QED  BY <1>1, <1>2, <1>3, <1>4, <1>5

\* A step that does not take up the duty leaves it where it is
LEMMA DutyKept ==
    ASSUME IInv, NEW a \in Actors, Moved(a), UNCHANGED <<pool, queue, held>>,
           pc'[a] \in DutyPc => pc[a] \in DutyPc,
           a \in Workers => pc[a] # "idle"
    PROVE  DutyUnique'
<1>1. DutyUnique
  BY DEF IInv, SlotInv
<1>2. CASE pool \in {"open", "closed"}
  <2>1. \A b \in Actors : pc'[b] \in DutyPc => pc[b] \in DutyPc
    BY Others
  <2> QED  BY <1>1, <1>2, <2>1 DEF DutyUnique, OnDuty
<1>3. CASE pool \notin {"open", "closed"}
  <2>1. \A w \in Workers : pc[w] = "idle"
    BY <1>1, <1>3 DEF DutyUnique
  <2>2. \A w \in Workers : pc'[w] = "idle"
    BY <2>1, Others
  <2> QED  BY <1>3, <2>2 DEF DutyUnique
<1> QED  BY <1>2, <1>3

\* A step of a thread that is under way was not the first
LEMMA StartedKept ==
    ASSUME IInv, NEW a \in Actors, Moved(a),
           IF a \in Handles THEN pc'[a] # "none" ELSE pc[a] # "idle" \/ queue # 0
    PROVE  NotStarted'
<1>1. CASE a \in Handles
  BY <1>1 DEF NotStarted
<1>2. CASE a \notin Handles
  <2>1. a \in Workers \/ a = Reaper
    BY <1>2 DEF Actors
  <2>2. PICK h \in Handles : pc[h] # "none"
    BY <1>2, <2>1 DEF IInv, SlotInv, NotStarted
  <2>3. pc'[h] # "none"
    BY <1>2, <2>2, Others
  <2> QED  BY <2>3 DEF NotStarted
<1> QED  BY <1>1, <1>2

\* A step that starts nothing leaves a finished series finished
LEMMA RunsKept ==
    ASSUME IInv, NEW a \in Actors, Moved(a), runsLeft' = runsLeft,
           runsLeft = 0 => /\ queue' = 0
                           /\ a \in Handles => pc'[a] \notin {"submit", "push"}
                           /\ a \in Workers => pc'[a] \in RestPc
    PROVE  RunsRemain'
<1> SUFFICES ASSUME runsLeft = 0
             PROVE  /\ \A h \in Handles : pc'[h] \notin {"submit", "push"}
                    /\ \A w \in Workers : pc'[w] \in RestPc
  BY DEF RunsRemain, RestPc
<1>1. /\ \A h \in Handles : pc[h] \notin {"submit", "push"}
      /\ \A w \in Workers : pc[w] \in RestPc
  BY DEF IInv, SlotInv, RunsRemain, RestPc
<1>2. \A h \in Handles : pc'[h] \notin {"submit", "push"}
  BY <1>1, Others
<1>3. \A w \in Workers : pc'[w] \in RestPc
  BY <1>1, Others
<1> QED  BY <1>2, <1>3

\* A step that does not put the task back leaves it with its one holder
LEMMA TaskKept ==
    ASSUME IInv, NEW a \in Actors, Moved(a), task' => task,
           a \in Workers => (Running(a)' => Running(a) \/ ~task')
    PROVE  TaskHeldOnce'
<1> SUFFICES ASSUME NEW w \in Workers, Running(w)' PROVE ~task'
  BY DEF TaskHeldOnce
<1>1. Running(w) => ~task
  BY DEF IInv, SlotInv, TaskHeldOnce
<1>2. CASE w = a
  BY <1>1, <1>2
<1>3. CASE w # a
  <2>1. pc'[w] = pc[w]
    BY <1>3, Others
  <2>2. Running(w)
    BY <2>1 DEF Running
  <2> QED  BY <1>1, <2>2
<1> QED  BY <1>2, <1>3

\* A step on the side leaves the duty and the task where they are
LEMMA AsideInv ==
    ASSUME IInv, NEW a \in Actors, Moved(a), Aside(a)
    PROVE  DutyUnique' /\ NotStarted' /\ RunsRemain' /\ TaskHeldOnce'
<1>0. a \in Workers => a \notin Handles
  BY SlotAssumption
<1>1. DutyUnique'
  BY <1>0, DutyKept DEF Aside
<1>2. NotStarted'
  BY StartedKept DEF Aside
<1>3. runsLeft = 0 => /\ queue = 0
                      /\ a \in Handles => pc[a] \notin {"submit", "push"}
                      /\ a \in Workers => pc[a] \in RestPc
  BY DEF IInv, SlotInv, RunsRemain, RestPc
<1>4. RunsRemain'
  BY <1>3, RunsKept DEF Aside
<1>5. TaskHeldOnce'
  BY TaskKept DEF Aside
<1> QED  BY <1>1, <1>2, <1>4, <1>5

\* A step that counts exactly, on the side, keeps the invariant
LEMMA StepInv ==
    ASSUME IInv, TypeOK', NEW a \in Actors, Moved(a), Balance(a) \/ Steady(a), Aside(a)
    PROVE  IInv'
<1>1. Balance(a)
  BY SteadyBalance
<1> QED  BY <1>1, Balanced, AsideInv DEF IInv, SlotInv

\* Whoever holds a reference keeps the slot, and no counter goes below zero
LEMMA Alive ==
    ASSUME IInv
    PROVE  /\ held => listeners >= 1 /\ state # "Free"
           /\ \A a \in Actors : pc[a] = "unref" => listeners >= 1 /\ state # "Free"
           /\ \A h \in Handles :
                /\ pc[h] \notin {"none", "gone"} => listeners >= 1 /\ state # "Free"
                /\ pc[h] \in {"check", "clone", "leave", "leave_bad"} => readers >= 1
<1>1. TypeOK /\ RefsCounted /\ ReadersCounted
  BY DEF IInv, SlotInv
<1>2. /\ Cardinality(Live) \in Nat /\ Cardinality(Releasing) \in Nat /\ Cardinality(Reading) \in Nat
      /\ Cardinality(Live) = 0 <=> Live = {}
      /\ Cardinality(Releasing) = 0 <=> Releasing = {}
      /\ Cardinality(Reading) = 0 <=> Reading = {}
  BY <1>1, SetsFinite, FS_EmptySet
<1>3. held => listeners >= 1
  BY <1>1, <1>2 DEF RefsCounted
<1>4. \A a \in Actors : pc[a] = "unref" => listeners >= 1
  BY <1>1, <1>2 DEF RefsCounted, Releasing
<1>5. \A h \in Handles : pc[h] \notin {"none", "gone"} => listeners >= 1
  BY <1>1, <1>2 DEF RefsCounted, Live
<1>6. \A h \in Handles : pc[h] \in {"check", "clone", "leave", "leave_bad"} => readers >= 1
  BY <1>1, <1>2 DEF ReadersCounted, Reading
<1> QED  BY <1>1, <1>3, <1>4, <1>5, <1>6 DEF RefsCounted

\* Handing an output to an owner leaves every fate a fate
LEMMA OwnTyped ==
    ASSUME TypeOK
    PROVE  Own(fate, bits) \in [1..Runs -> Fates]
BY DEF TypeOK, Own, Fates

\* What giving up a reference does to the slot
LEMMA DropListenerTyped ==
    ASSUME IInv, DropListener, listeners >= 1, state # "Free"
    PROVE  /\ state' \in States /\ listeners' \in Nat /\ task' \in BOOLEAN
           /\ fate' \in [1..Runs -> Fates] /\ (task' => task)
           /\ listeners' = listeners - 1 /\ (state' = "Free" => listeners' = 0)
<1>1. TypeOK
  BY DEF IInv
<1>2. listeners' = listeners - 1 /\ listeners' \in Nat
  BY <1>1 DEF DropListener, TypeOK
<1>3. CASE listeners = 1
  <2>1. state' = "Free" /\ task' = FALSE /\ (fate' = Own(fate, bits) \/ fate' = fate)
    BY <1>3 DEF DropListener
  <2>2. fate' \in [1..Runs -> Fates]
    BY <1>1, <2>1, OwnTyped DEF TypeOK
  <2>3. state' \in States /\ listeners' = 0
    BY <1>2, <1>3, <2>1 DEF States
  <2>4. task' \in BOOLEAN /\ ~task'
    BY <2>1
  <2> QED  BY <1>2, <2>2, <2>3, <2>4, ZenonT(30)
<1>4. CASE listeners # 1
  <2>1. UNCHANGED <<state, task, fate>>
    BY <1>4 DEF DropListener
  <2>2. state \in States /\ fate \in [1..Runs -> Fates]
    BY <1>1 DEF TypeOK
  <2>3. task \in BOOLEAN
    BY <1>1 DEF TypeOK
  <2> QED  BY <1>2, <2>1, <2>2, <2>3, ZenonT(30)
<1> QED  BY <1>3, <1>4

-----------------------------------------------------------------------------
(* The steps of the handles, and those every thread shares.                *)

\* The steps a creating handle, a worker and the reaper share
LEMMA SharedStepInv ==
    ASSUME IInv, NEW a \in Actors,
           Submit(a) \/ Push(a) \/ WakeFailed(a) \/ Release(a) \/ Unref(a)
    PROVE  IInv'
<1> USE DEF callVars, counters, slotVars
<1>a. /\ a \in Handles \cup Workers \cup {Reaper}
      /\ a \in Handles => a \notin Workers \cup {Reaper}
      /\ a \in Workers => a # Reaper
  BY SlotAssumption DEF Actors
<1>b. TypeOK /\ SlotInv
  BY DEF IInv
<1>c. pc[a] \in PcOf(a)
  BY <1>a, <1>b DEF TypeOK, PcOf
<1>1. CASE Submit(a)
  <2>1. a # Reaper
    BY <1>1, <1>a, <1>c DEF Submit, PcOf, ReaperPc
  <2>2. /\ pc[a] = "submit" /\ pc'[a] \in {"push", "refuse", "give_up"}
        /\ a \in Workers => pc'[a] # "refuse"
        /\ PcTyped' /\ Moved(a)
    <3>1. CASE a \in Handles
      BY <3>1, <1>1, <1>a, <1>b, GoMoves DEF Submit, PcOf, HandlePc
    <3>2. CASE a \in Workers
      BY <3>2, <1>1, <1>a, <1>b, GoMoves DEF Submit, PcOf, WorkerPc
    <3> QED  BY <3>1, <3>2, <2>1, <1>a
  <2>3. TypeOK'
    BY <1>1, <1>b, <2>2 DEF Submit, TypeOK, PcTyped
  <2>4. Steady(a)
    BY <1>1, <2>2 DEF Submit, Steady, ReadPc
  <2>5. Aside(a)
    BY <1>1, <2>2 DEF Submit, Aside, DutyPc, Running, RestPc
  <2> QED  BY <2>2, <2>3, <2>4, <2>5, StepInv
<1>2. CASE Push(a)
  <2>1. a # Reaper
    BY <1>2, <1>a, <1>c DEF Push, PcOf, ReaperPc
  <2>2. pc[a] = "push" /\ pc'[a] = "idle" /\ PcTyped' /\ Moved(a)
    BY <1>2, <1>a, <1>b, GoMoves DEF Push, PcOf, HandlePc, WorkerPc, ReaperPc
  <2>3. TypeOK'
    BY <1>2, <1>b, <2>2 DEF Push, TypeOK, PcTyped
  <2>4. Balance(a)
    <3>1. Steady(a)
      BY <1>2, <2>2 DEF Push, Steady, ReadPc
    <3> QED  BY <3>1, SteadyBalance
  <2>5. DutyUnique'
    <3>1. CASE pool \in {"open", "closed"}
      <4>1. OnDuty(a) /\ ~OnDuty(a)'
        BY <2>2 DEF OnDuty, DutyPc
      <4>2. queue = 0 /\ held /\ \A b \in Actors : b # a => ~OnDuty(b)
        BY <3>1, <4>1, <1>b DEF SlotInv, DutyUnique
      <4>3. \A b \in Actors : ~OnDuty(b)'
        BY <4>1, <4>2, <2>2, Others DEF OnDuty
      <4>4. queue' = 1 /\ held' = held /\ pool' = pool
        BY <1>2, <4>2 DEF Push
      <4> QED  BY <3>1, <4>2, <4>3, <4>4 DEF DutyUnique
    <3>2. CASE pool \notin {"open", "closed"}
      <4>1. \A w \in Workers : pc[w] = "idle"
        BY <3>2, <1>b DEF SlotInv, DutyUnique
      <4>2. \A w \in Workers : pc'[w] = "idle"
        BY <4>1, <2>2, Others
      <4>3. pool' = pool
        BY <1>2 DEF Push
      <4> QED  BY <3>2, <4>2, <4>3 DEF DutyUnique
    <3> QED  BY <3>1, <3>2
  <2>6. NotStarted'
    BY <2>2, StartedKept
  <2>7. RunsRemain'
    <3>1. runsLeft # 0
      BY <1>a, <1>b, <2>1, <2>2 DEF SlotInv, RunsRemain
    <3>2. runsLeft' = runsLeft
      BY <1>2 DEF Push
    <3> QED  BY <3>1, <3>2 DEF RunsRemain
  <2>8. TaskHeldOnce'
    <3>1. task' = task /\ ~Running(a)'
      BY <1>2, <2>2 DEF Push, Running
    <3> QED  BY <3>1, <2>2, TaskKept
  <2> QED  BY <2>2, <2>3, <2>4, <2>5, <2>6, <2>7, <2>8, Balanced DEF IInv, SlotInv
<1>3. CASE WakeFailed(a)
  <2>1. pc[a] = "wake_failed" /\ pc'[a] = "release" /\ PcTyped' /\ Moved(a)
    BY <1>3, <1>a, <1>b, WakeMoves DEF WakeFailed, PcOf, HandlePc, WorkerPc, ReaperPc
  <2>2. TypeOK'
    BY <1>3, <1>b, <2>1 DEF WakeFailed, TypeOK, PcTyped
  <2>3. Steady(a)
    BY <1>3, <2>1 DEF WakeFailed, Steady, ReadPc
  <2>4. Aside(a)
    BY <1>3, <2>1 DEF WakeFailed, Aside, DutyPc, Running, RestPc
  <2> QED  BY <2>1, <2>2, <2>3, <2>4, StepInv
<1>4. CASE Release(a)
  <2>0. held => state # "Free"
    BY Alive
  <2>1. /\ pc[a] = "release" /\ pc'[a] = (IF held THEN "unref" ELSE "idle")
        /\ PcTyped' /\ Moved(a) /\ held' = FALSE
    <3>1. Go(a, IF held THEN "unref" ELSE "idle") /\ held' = FALSE /\ pc[a] = "release"
      BY <1>4, <1>b, <2>0 DEF Release, TypeOK
    <3>2. (IF held THEN "unref" ELSE "idle") \in PcOf(a)
      BY <1>a DEF PcOf, HandlePc, WorkerPc, ReaperPc
    <3> QED  BY <3>1, <3>2, <1>b, GoMoves
  <2>2. TypeOK'
    BY <1>4, <1>b, <2>1 DEF Release, TypeOK, PcTyped
  <2>3. Balance(a)
    <3>1. (a \in Live' <=> a \in Live) /\ (a \in Reading' <=> a \in Reading)
      BY <2>1 DEF Live, Reading
    <3>2. a \notin Releasing /\ (a \in Releasing' <=> held)
      BY <2>1 DEF Releasing
    <3>3. /\ listeners' = listeners /\ readers' = readers /\ state' = state
          /\ listeners \in Nat /\ readers \in Nat /\ (state = "Free" => listeners = 0)
      BY <1>4, <1>b DEF Release, TypeOK, SlotInv, RefsCounted
    <3> QED  BY <2>1, <3>1, <3>2, <3>3 DEF Balance, One
  <2>4. DutyUnique'
    <3>1. CASE pool \in {"open", "closed"}
      <4>1. OnDuty(a) /\ ~OnDuty(a)'
        BY <2>1 DEF OnDuty, DutyPc
      <4>2. queue = 0 /\ \A b \in Actors : b # a => ~OnDuty(b)
        BY <3>1, <4>1, <1>b DEF SlotInv, DutyUnique
      <4>3. \A b \in Actors : ~OnDuty(b)'
        BY <4>1, <4>2, <2>1, Others DEF OnDuty
      <4>4. queue' = 0 /\ pool' = pool
        BY <1>4, <4>2 DEF Release
      <4> QED  BY <3>1, <4>3, <4>4 DEF DutyUnique
    <3>2. CASE pool \notin {"open", "closed"}
      <4>1. \A w \in Workers : pc[w] = "idle"
        BY <3>2, <1>b DEF SlotInv, DutyUnique
      <4>2. \A w \in Workers : pc'[w] = "idle"
        BY <4>1, <2>1, Others
      <4>3. pool' = pool
        BY <1>4 DEF Release
      <4> QED  BY <3>2, <4>2, <4>3 DEF DutyUnique
    <3> QED  BY <3>1, <3>2
  <2>5. NotStarted'
    BY <2>1, StartedKept
  <2>6. RunsRemain'
    <3>1. runsLeft' = runsLeft /\ queue' = queue /\ (runsLeft = 0 => queue = 0)
      BY <1>4, <1>b DEF Release, SlotInv, RunsRemain
    <3> QED  BY <3>1, <2>1, RunsKept DEF RestPc
  <2>7. TaskHeldOnce'
    <3>1. task' = task /\ ~Running(a)'
      BY <1>4, <2>1 DEF Release, Running
    <3> QED  BY <3>1, <2>1, TaskKept
  <2> QED  BY <2>1, <2>2, <2>3, <2>4, <2>5, <2>6, <2>7, Balanced DEF IInv, SlotInv
<1>5. CASE Unref(a)
  <2>1. pc[a] = "unref" /\ pc'[a] = "idle" /\ PcTyped' /\ Moved(a)
    BY <1>5, <1>a, <1>b, GoMoves DEF Unref, PcOf, HandlePc, WorkerPc, ReaperPc
  <2>2. listeners >= 1 /\ state # "Free"
    BY <2>1, Alive
  <2>3. /\ state' \in States /\ listeners' \in Nat /\ task' \in BOOLEAN
        /\ fate' \in [1..Runs -> Fates] /\ (task' => task)
        /\ listeners' = listeners - 1 /\ (state' = "Free" => listeners' = 0)
    BY <1>5, <2>2, DropListenerTyped DEF Unref
  <2>4. TypeOK'
    BY <1>5, <1>b, <2>1, <2>3 DEF Unref, TypeOK, PcTyped
  <2>5. Balance(a)
    <3>1. (a \in Live' <=> a \in Live) /\ (a \in Reading' <=> a \in Reading)
      BY <2>1 DEF Live, Reading
    <3>2. a \in Releasing /\ a \notin Releasing'
      BY <2>1 DEF Releasing
    <3>3. readers' = readers /\ held' = held /\ listeners \in Nat /\ readers \in Nat
      BY <1>5, <1>b DEF Unref, TypeOK
    <3> QED  BY <2>3, <3>1, <3>2, <3>3 DEF Balance, One
  <2>6. Aside(a)
    BY <1>5, <2>1, <2>3 DEF Unref, Aside, DutyPc, Running, RestPc
  <2> QED  BY <2>1, <2>4, <2>5, <2>6, StepInv
<1> QED
  BY <1>1, <1>2, <1>3, <1>4, <1>5

\* The steps of a call on a handle
LEMMA HandleStepInv ==
    ASSUME IInv, NEW h \in Handles, HandleStep(h)
    PROVE  IInv'
<1> USE DEF callVars, counters, slotVars
<1>a. h \in Actors /\ h # Reaper /\ h \notin Workers
  BY SlotAssumption DEF Actors
<1>b. TypeOK /\ SlotInv
  BY DEF IInv
<1>1. CASE Refuse(h)
  <2>1. pc[h] = "refuse" /\ pc'[h] = "wake_failed" /\ PcTyped' /\ Moved(h)
    BY <1>1, <1>a, <1>b, GoMoves DEF Refuse, PcOf, HandlePc
  <2>2. TypeOK'
    BY <1>1, <1>b, <2>1 DEF Refuse, TypeOK, PcTyped, States
  <2>3. Steady(h)
    BY <1>1, <1>a, <2>1 DEF Refuse, Steady, ReadPc
  <2>4. Aside(h)
    BY <1>1, <1>a, <2>1 DEF Refuse, Aside, DutyPc, Running, RestPc
  <2> QED  BY <1>a, <2>1, <2>2, <2>3, <2>4, StepInv
<1>2. CASE Wait(h)
  <2>1. pc[h] = "wait" /\ pc'[h] \in {"block", "drop", "idle", "enter", "claim_result"} /\ PcTyped' /\ Moved(h)
    BY <1>2, <1>a, <1>b, GoMoves DEF Wait, Finish, PcOf, HandlePc
  <2>2. TypeOK'
    BY <1>2, <1>b, <2>1 DEF Wait, Finish, TypeOK, PcTyped, States
  <2>3. Steady(h)
    BY <1>2, <1>a, <2>1 DEF Wait, Steady, ReadPc
  <2>4. Aside(h)
    BY <1>2, <1>a, <2>1 DEF Wait, Aside, DutyPc, Running, RestPc
  <2> QED  BY <1>a, <2>1, <2>2, <2>3, <2>4, StepInv
<1>3. CASE Block(h)
  <2>1. pc[h] = "block" /\ pc'[h] \in {"blocked", "wait"} /\ PcTyped' /\ Moved(h)
    BY <1>3, <1>a, <1>b, GoMoves DEF Block, PcOf, HandlePc
  <2>2. TypeOK'
    BY <1>3, <1>b, <2>1 DEF Block, TypeOK, PcTyped, States
  <2>3. Steady(h)
    BY <1>3, <1>a, <2>1 DEF Block, Steady, ReadPc
  <2>4. Aside(h)
    BY <1>3, <1>a, <2>1 DEF Block, Aside, DutyPc, Running, RestPc
  <2> QED  BY <1>a, <2>1, <2>2, <2>3, <2>4, StepInv
<1>4. CASE EnterRead(h)
  <2>1. pc[h] = "enter" /\ pc'[h] = "check" /\ PcTyped' /\ Moved(h)
    BY <1>4, <1>a, <1>b, GoMoves DEF EnterRead, PcOf, HandlePc
  <2>2. TypeOK'
    BY <1>4, <1>b, <2>1 DEF EnterRead, TypeOK, PcTyped
  <2>3. Balance(h)
    <3>1. h \in Live /\ h \in Live' /\ h \notin Reading /\ h \in Reading'
      BY <2>1 DEF Live, Reading
    <3>2. h \notin Releasing /\ h \notin Releasing'
      BY <2>1 DEF Releasing
    <3>3. /\ listeners' = listeners /\ readers' = readers + 1 /\ held' = held /\ state' = state
          /\ listeners \in Nat /\ readers \in Nat /\ (state = "Free" => listeners = 0)
      BY <1>4, <1>b DEF EnterRead, TypeOK, SlotInv, RefsCounted
    <3> QED  BY <3>1, <3>2, <3>3 DEF Balance, One
  <2>4. Aside(h)
    BY <1>4, <1>a, <2>1 DEF EnterRead, Aside, DutyPc, Running, RestPc
  <2> QED  BY <1>a, <2>1, <2>2, <2>3, <2>4, StepInv
<1>5. CASE CheckRead(h)
  <2>1. pc[h] = "check" /\ pc'[h] \in {"clone", "leave_bad"} /\ PcTyped' /\ Moved(h)
    BY <1>5, <1>a, <1>b, GoMoves DEF CheckRead, PcOf, HandlePc
  <2>2. TypeOK'
    BY <1>5, <1>b, <2>1 DEF CheckRead, TypeOK, PcTyped, States
  <2>3. Steady(h)
    BY <1>5, <1>a, <2>1 DEF CheckRead, Steady, ReadPc
  <2>4. Aside(h)
    BY <1>5, <1>a, <2>1 DEF CheckRead, Aside, DutyPc, Running, RestPc
  <2> QED  BY <1>a, <2>1, <2>2, <2>3, <2>4, StepInv
<1>6. CASE CloneOutput(h)
  <2>1. pc[h] = "clone" /\ pc'[h] = "leave" /\ PcTyped' /\ Moved(h)
    BY <1>6, <1>a, <1>b, GoMoves DEF CloneOutput, PcOf, HandlePc
  <2>2. TypeOK'
    BY <1>6, <1>b, <2>1 DEF CloneOutput, TypeOK, PcTyped, States
  <2>3. Steady(h)
    BY <1>6, <1>a, <2>1 DEF CloneOutput, Steady, ReadPc
  <2>4. Aside(h)
    BY <1>6, <1>a, <2>1 DEF CloneOutput, Aside, DutyPc, Running, RestPc
  <2> QED  BY <1>a, <2>1, <2>2, <2>3, <2>4, StepInv
<1>7. CASE LeaveRead(h)
  <2>1. /\ pc[h] \in {"leave", "leave_bad"} /\ pc'[h] \in {"drop", "idle", "lost"}
        /\ PcTyped' /\ Moved(h)
    BY <1>7, <1>a, <1>b, GoMoves DEF LeaveRead, Finish, PcOf, HandlePc
  <2>2. readers >= 1
    BY <2>1, Alive
  <2>3. TypeOK'
    BY <1>7, <1>b, <2>1, <2>2 DEF LeaveRead, TypeOK, PcTyped
  <2>4. Balance(h)
    <3>1. h \in Live /\ h \in Live' /\ h \in Reading /\ h \notin Reading'
      BY <2>1 DEF Live, Reading
    <3>2. h \notin Releasing /\ h \notin Releasing'
      BY <2>1 DEF Releasing
    <3>3. /\ listeners' = listeners /\ readers' = readers - 1 /\ held' = held /\ state' = state
          /\ listeners \in Nat /\ readers \in Nat /\ (state = "Free" => listeners = 0)
      BY <1>7, <1>b DEF LeaveRead, TypeOK, SlotInv, RefsCounted
    <3> QED  BY <3>1, <3>2, <3>3 DEF Balance, One
  <2>5. Aside(h)
    BY <1>7, <1>a, <2>1 DEF LeaveRead, Aside, DutyPc, Running, RestPc
  <2> QED  BY <1>a, <2>1, <2>3, <2>4, <2>5, StepInv
<1>8. CASE Lost(h)
  <2>1. pc[h] = "lost" /\ pc'[h] \in {"wait", "drop", "idle"} /\ PcTyped' /\ Moved(h)
    BY <1>8, <1>a, <1>b, GoMoves DEF Lost, Finish, PcOf, HandlePc
  <2>2. TypeOK'
    BY <1>8, <1>b, <2>1 DEF Lost, Finish, TypeOK, PcTyped, States
  <2>3. Steady(h)
    BY <1>8, <1>a, <2>1 DEF Lost, Steady, ReadPc
  <2>4. Aside(h)
    BY <1>8, <1>a, <2>1 DEF Lost, Aside, DutyPc, Running, RestPc
  <2> QED  BY <1>a, <2>1, <2>2, <2>3, <2>4, StepInv
<1>9. CASE ClaimResult(h)
  <2>1. pc[h] = "claim_result" /\ pc'[h] \in {"spin", "lost"} /\ PcTyped' /\ Moved(h)
    BY <1>9, <1>a, <1>b, GoMoves DEF ClaimResult, PcOf, HandlePc
  <2>2. TypeOK'
    BY <1>9, <1>b, <2>1 DEF ClaimResult, TypeOK, PcTyped, States
  <2>3. Steady(h)
    BY <1>9, <1>a, <2>1 DEF ClaimResult, Steady, ReadPc
  <2>4. Aside(h)
    BY <1>9, <1>a, <2>1 DEF ClaimResult, Aside, DutyPc, Running, RestPc
  <2> QED  BY <1>a, <2>1, <2>2, <2>3, <2>4, StepInv
<1>10. CASE SpinReaders(h)
  <2>1. pc[h] = "spin" /\ pc'[h] = "empty" /\ PcTyped' /\ Moved(h)
    BY <1>10, <1>a, <1>b, GoMoves DEF SpinReaders, PcOf, HandlePc
  <2>2. TypeOK'
    BY <1>10, <1>b, <2>1 DEF SpinReaders, TypeOK, PcTyped, States
  <2>3. Steady(h)
    BY <1>10, <1>a, <2>1 DEF SpinReaders, Steady, ReadPc
  <2>4. Aside(h)
    BY <1>10, <1>a, <2>1 DEF SpinReaders, Aside, DutyPc, Running, RestPc
  <2> QED  BY <1>a, <2>1, <2>2, <2>3, <2>4, StepInv
<1>11. CASE Empty(h)
  <2>1. pc[h] = "empty" /\ pc'[h] = "read" /\ PcTyped' /\ Moved(h)
    BY <1>11, <1>a, <1>b, GoMoves DEF Empty, PcOf, HandlePc
  <2>2. TypeOK'
    BY <1>11, <1>b, <2>1 DEF Empty, TypeOK, PcTyped, States
  <2>3. Steady(h)
    BY <1>11, <1>a, <2>1 DEF Empty, Steady, ReadPc
  <2>4. Aside(h)
    BY <1>11, <1>a, <2>1 DEF Empty, Aside, DutyPc, Running, RestPc
  <2> QED  BY <1>a, <2>1, <2>2, <2>3, <2>4, StepInv
<1>12. CASE ReadOut(h)
  <2>1. pc[h] = "read" /\ pc'[h] \in {"drop", "idle"} /\ PcTyped' /\ Moved(h)
    BY <1>12, <1>a, <1>b, GoMoves DEF ReadOut, Finish, PcOf, HandlePc
  <2>2. fate' \in [1..Runs -> Fates]
    BY <1>12, <1>b, OwnTyped DEF ReadOut
  <2>3. TypeOK'
    BY <1>12, <1>b, <2>1, <2>2 DEF ReadOut, Finish, TypeOK, PcTyped, States
  <2>4. Steady(h)
    BY <1>12, <1>a, <2>1 DEF ReadOut, Steady, ReadPc
  <2>5. Aside(h)
    BY <1>12, <1>a, <2>1 DEF ReadOut, Aside, DutyPc, Running, RestPc
  <2> QED  BY <1>a, <2>1, <2>3, <2>4, <2>5, StepInv
<1>13. CASE Stop(h)
  <2>1. pc[h] = "stop" /\ pc'[h] \in {"drop", "stop_cas"} /\ PcTyped' /\ Moved(h)
    BY <1>13, <1>a, <1>b, GoMoves DEF Stop, PcOf, HandlePc
  <2>2. TypeOK'
    BY <1>13, <1>b, <2>1 DEF Stop, TypeOK, PcTyped, States
  <2>3. Steady(h)
    BY <1>13, <1>a, <2>1 DEF Stop, Steady, ReadPc
  <2>4. Aside(h)
    BY <1>13, <1>a, <2>1 DEF Stop, Aside, DutyPc, Running, RestPc
  <2> QED  BY <1>a, <2>1, <2>2, <2>3, <2>4, StepInv
<1>14. CASE StopCas(h)
  <2>1. pc[h] = "stop_cas" /\ pc'[h] \in {"stopped", "stop"} /\ PcTyped' /\ Moved(h)
    BY <1>14, <1>a, <1>b, GoMoves DEF StopCas, PcOf, HandlePc
  <2>2. TypeOK'
    BY <1>14, <1>b, <2>1 DEF StopCas, TypeOK, PcTyped, States
  <2>3. Steady(h)
    BY <1>14, <1>a, <2>1 DEF StopCas, Steady, ReadPc
  <2>4. Aside(h)
    BY <1>14, <1>a, <2>1 DEF StopCas, Aside, DutyPc, Running, RestPc
  <2> QED  BY <1>a, <2>1, <2>2, <2>3, <2>4, StepInv
<1>15. CASE Stopped(h)
  <2>1. pc[h] = "stopped" /\ pc'[h] = "drop" /\ PcTyped' /\ Moved(h)
    BY <1>15, <1>a, <1>b, WakeMoves DEF Stopped, PcOf, HandlePc
  <2>2. TypeOK'
    BY <1>15, <1>b, <2>1 DEF Stopped, TypeOK, PcTyped, States
  <2>3. Steady(h)
    BY <1>15, <1>a, <2>1 DEF Stopped, Steady, ReadPc
  <2>4. Aside(h)
    BY <1>15, <1>a, <2>1 DEF Stopped, Aside, DutyPc, Running, RestPc
  <2> QED  BY <1>a, <2>1, <2>2, <2>3, <2>4, StepInv
<1> QED
  BY <1>1, <1>2, <1>3, <1>4, <1>5, <1>6, <1>7, <1>8, <1>9, <1>10, <1>11, <1>12, <1>13,
     <1>14, <1>15, <1>a, SharedStepInv DEF HandleStep

\* The calls a user starts, and the handles they drop
LEMMA UserStepInv ==
    ASSUME IInv, NEW h \in Handles,
           Create(h) \/ Call(h) \/ GiveUpWait(h) \/ DropHandle(h)
    PROVE  IInv'
<1> USE DEF callVars, counters, slotVars
<1>a. h \in Actors /\ h # Reaper /\ h \notin Workers
  BY SlotAssumption DEF Actors
<1>b. TypeOK /\ SlotInv
  BY DEF IInv
<1>1. CASE Create(h)
  <2>1. pc[h] = "none" /\ pc'[h] = "submit" /\ PcTyped' /\ Moved(h)
    BY <1>1, <1>a, <1>b, GoMoves DEF Create, PcOf, HandlePc
  <2>2. TypeOK'
    BY <1>1, <1>b, <2>1 DEF Create, TypeOK, PcTyped, States
  <2>3. /\ ~held /\ queue = 0 /\ listeners = 0 /\ runsLeft = Runs
        /\ pc[Reaper] = "idle" /\ \A w \in Workers : pc[w] = "idle"
        /\ \A g \in Handles : pc[g] = "none"
    BY <1>1, <1>b DEF Create, SlotInv, NotStarted
  <2>4. Balance(h)
    <3>1. h \notin Live /\ h \in Live' /\ h \notin Reading /\ h \notin Reading'
      BY <2>1 DEF Live, Reading
    <3>2. h \notin Releasing /\ h \notin Releasing'
      BY <2>1 DEF Releasing
    <3>3. /\ listeners' = 2 /\ held' = TRUE /\ readers' = readers /\ readers \in Nat
          /\ state' # "Free"
      BY <1>1, <1>b DEF Create, TypeOK
    <3> QED  BY <2>3, <3>1, <3>2, <3>3 DEF Balance, One
  <2>5. DutyUnique'
    <3>1. \A b \in Actors : ~OnDuty(b)
      BY <2>3 DEF OnDuty, DutyPc, Actors
    <3>2. \A b \in Actors : OnDuty(b)' => b = h
      BY <3>1, <1>a, <2>1, Others DEF OnDuty
    <3>3. \A w \in Workers : pc'[w] = "idle"
      BY <1>a, <2>1, <2>3, Others
    <3>4. held' = TRUE /\ queue' = 0
      BY <1>1, <2>3 DEF Create
    <3> QED  BY <3>2, <3>3, <3>4 DEF DutyUnique
  <2>6. NotStarted'
    BY <1>a, <2>1, StartedKept
  <2>7. RunsRemain'
    BY <1>1, <2>3, SlotAssumption DEF Create, RunsRemain
  <2>8. TaskHeldOnce'
    BY <1>a, <2>1, <2>3, Others DEF TaskHeldOnce, Running
  <2> QED  BY <1>a, <2>1, <2>2, <2>4, <2>5, <2>6, <2>7, <2>8, Balanced DEF IInv, SlotInv
<1>2. CASE Call(h)
  <2>1. pc[h] = "idle" /\ pc'[h] \in {"stop", "enter", "claim_result", "wait"} /\ PcTyped' /\ Moved(h)
    BY <1>2, <1>a, <1>b, GoMoves DEF Call, PcOf, HandlePc
  <2>2. op' \in [Handles -> Ops]
    BY <1>2, <1>b, <1>a DEF Call, TypeOK, Ops
  <2>3. TypeOK'
    BY <1>2, <1>b, <2>1, <2>2 DEF Call, TypeOK, PcTyped, States
  <2>4. Steady(h)
    BY <1>2, <1>a, <2>1 DEF Call, Steady, ReadPc
  <2>5. Aside(h)
    BY <1>2, <1>a, <2>1 DEF Call, Aside, DutyPc, Running, RestPc
  <2> QED  BY <1>a, <2>1, <2>3, <2>4, <2>5, StepInv
<1>3. CASE GiveUpWait(h)
  <2>1. pc[h] \in {"block", "blocked"} /\ pc'[h] = "idle" /\ PcTyped' /\ Moved(h)
    BY <1>3, <1>a, <1>b, GoMoves DEF GiveUpWait, PcOf, HandlePc
  <2>2. TypeOK'
    BY <1>3, <1>b, <2>1 DEF GiveUpWait, TypeOK, PcTyped, States
  <2>3. Steady(h)
    BY <1>3, <1>a, <2>1 DEF GiveUpWait, Steady, ReadPc
  <2>4. Aside(h)
    BY <1>3, <1>a, <2>1 DEF GiveUpWait, Aside, DutyPc, Running, RestPc
  <2> QED  BY <1>a, <2>1, <2>2, <2>3, <2>4, StepInv
<1>4. CASE DropHandle(h)
  <2>1. pc[h] \in {"idle", "drop"} /\ pc'[h] = "gone" /\ PcTyped' /\ Moved(h)
    BY <1>4, <1>a, <1>b, GoMoves DEF DropHandle, PcOf, HandlePc
  <2>2. listeners >= 1 /\ state # "Free"
    BY <2>1, Alive
  <2>3. /\ state' \in States /\ listeners' \in Nat /\ task' \in BOOLEAN
        /\ fate' \in [1..Runs -> Fates] /\ (task' => task)
        /\ listeners' = listeners - 1 /\ (state' = "Free" => listeners' = 0)
    BY <1>4, <2>2, DropListenerTyped DEF DropHandle
  <2>4. TypeOK'
    BY <1>4, <1>b, <2>1, <2>3 DEF DropHandle, TypeOK, PcTyped
  <2>5. Balance(h)
    <3>1. h \in Live /\ h \notin Live' /\ h \notin Reading /\ h \notin Reading'
      BY <2>1 DEF Live, Reading
    <3>2. h \notin Releasing /\ h \notin Releasing'
      BY <2>1 DEF Releasing
    <3>3. readers' = readers /\ held' = held /\ listeners \in Nat /\ readers \in Nat
      BY <1>4, <1>b DEF DropHandle, TypeOK
    <3> QED  BY <2>3, <3>1, <3>2, <3>3 DEF Balance, One
  <2>6. Aside(h)
    BY <1>4, <1>a, <2>1, <2>3 DEF DropHandle, Aside, DutyPc, Running, RestPc
  <2> QED  BY <1>a, <2>1, <2>4, <2>5, <2>6, StepInv
<1> QED
  BY <1>1, <1>2, <1>3, <1>4

\* A handle is cloned
LEMMA CloneHandleInv ==
    ASSUME IInv, NEW h \in Handles, NEW g \in Handles, CloneHandle(h, g)
    PROVE  IInv'
<1> USE DEF callVars, counters, slotVars
<1>a. h \in Actors /\ g \in Actors /\ g # Reaper /\ g \notin Workers
  BY SlotAssumption DEF Actors
<1>b. TypeOK /\ SlotInv
  BY DEF IInv
<1>1. pc[h] = "idle" /\ pc[g] = "none" /\ pc'[g] = "idle" /\ PcTyped' /\ Moved(g)
  BY <1>a, <1>b, GoMoves DEF CloneHandle, PcOf, HandlePc
<1>2. listeners >= 1 /\ state # "Free"
  BY <1>1, Alive
<1>3. TypeOK'
  BY <1>b, <1>1 DEF CloneHandle, TypeOK, PcTyped
<1>4. Balance(g)
  <2>1. g \notin Live /\ g \in Live' /\ g \notin Reading /\ g \notin Reading'
    BY <1>1 DEF Live, Reading
  <2>2. g \notin Releasing /\ g \notin Releasing'
    BY <1>1 DEF Releasing
  <2>3. /\ listeners' = listeners + 1 /\ readers' = readers /\ held' = held
        /\ state' = state /\ listeners \in Nat /\ readers \in Nat
    BY <1>b DEF CloneHandle, TypeOK
  <2> QED  BY <1>2, <2>1, <2>2, <2>3 DEF Balance, One
<1>5. Aside(g)
  BY <1>a, <1>1 DEF CloneHandle, Aside, DutyPc, Running, RestPc
<1> QED  BY <1>a, <1>1, <1>3, <1>4, <1>5, StepInv

-----------------------------------------------------------------------------
(* The steps of a run, and the theorems.                                   *)

\* The steps of a run on a pool thread
LEMMA RunStepInv ==
    ASSUME IInv, NEW w \in Workers, RunStep(w)
    PROVE  IInv'
<1> USE DEF callVars, counters, slotVars
<1>a. w \in Actors /\ w # Reaper /\ w \notin Handles
  BY SlotAssumption DEF Actors
<1>b. TypeOK /\ SlotInv
  BY DEF IInv
<1>1. CASE Pop(w)
  <2>1. pc[w] = "idle" /\ pc'[w] = "claim" /\ PcTyped' /\ Moved(w)
    BY <1>1, <1>a, <1>b, GoMoves DEF Pop, PcOf, WorkerPc
  <2>2. TypeOK'
    BY <1>1, <1>b, <2>1 DEF Pop, TypeOK, PcTyped
  <2>3. Balance(w)
    <3>1. Steady(w)
      BY <1>1, <1>a, <2>1 DEF Pop, Steady
    <3> QED  BY <1>a, <3>1, SteadyBalance
  <2>4. queue = 1 /\ queue' = 0 /\ held /\ \A b \in Actors : ~OnDuty(b)
    BY <1>1, <1>b DEF Pop, SlotInv, DutyUnique
  <2>5. DutyUnique'
    <3>1. \A b \in Actors : OnDuty(b)' => b = w
      BY <1>a, <2>1, <2>4, Others DEF OnDuty
    <3>2. held' = held /\ pool' = pool /\ pool \in {"open", "closed"}
      BY <1>1 DEF Pop
    <3> QED  BY <2>4, <3>1, <3>2 DEF DutyUnique
  <2>6. NotStarted'
    BY <1>a, <2>1, <2>4, StartedKept
  <2>7. RunsRemain'
    BY <1>1, <1>b, <2>4 DEF Pop, SlotInv, RunsRemain
  <2>8. TaskHeldOnce'
    <3>1. task' = task /\ ~Running(w)'
      BY <1>1, <2>1 DEF Pop, Running
    <3> QED  BY <1>a, <3>1, <2>1, TaskKept
  <2> QED  BY <1>a, <2>1, <2>2, <2>3, <2>5, <2>6, <2>7, <2>8, Balanced DEF IInv, SlotInv
<1>2. CASE Claim(w)
  <2>1. /\ pc[w] = "claim" /\ PcTyped' /\ Moved(w) /\ task' \in BOOLEAN /\ (task' => task)
        /\ (pc'[w] = "begin" /\ ~task') \/ pc'[w] = "idle"
    <3>1. CASE state # "Free" /\ task
      BY <3>1, <1>2, <1>a, <1>b, GoMoves DEF Claim, PcOf, WorkerPc
    <3>2. CASE ~(state # "Free" /\ task)
      BY <3>2, <1>2, <1>a, <1>b, GoMoves DEF Claim, PcOf, WorkerPc, TypeOK
    <3> QED  BY <3>1, <3>2
  <2>2. TypeOK'
    BY <1>2, <1>b, <2>1 DEF Claim, TypeOK, PcTyped
  <2>3. Steady(w)
    BY <1>2, <1>a, <2>1 DEF Claim, Steady
  <2>4. Aside(w)
    BY <1>2, <1>a, <2>1 DEF Claim, Aside, DutyPc, Running, RestPc
  <2> QED  BY <1>a, <2>1, <2>2, <2>3, <2>4, StepInv
<1>3. CASE Begin(w)
  <2>1. pc[w] = "begin" /\ pc'[w] \in {"exec", "recycle", "release"} /\ PcTyped' /\ Moved(w)
    BY <1>3, <1>a, <1>b, GoMoves DEF Begin, PcOf, WorkerPc
  <2>2. TypeOK'
    BY <1>3, <1>b, <2>1 DEF Begin, TypeOK, PcTyped, States
  <2>3. Steady(w)
    BY <1>3, <1>a, <2>1 DEF Begin, Steady, ReadPc
  <2>4. Aside(w)
    BY <1>3, <1>a, <2>1 DEF Begin, Aside, DutyPc, Running, RestPc
  <2> QED  BY <1>a, <2>1, <2>2, <2>3, <2>4, StepInv
<1>4. CASE Recycle(w)
  <2>1. pc[w] = "recycle" /\ pc'[w] = "exec" /\ PcTyped' /\ Moved(w)
    BY <1>4, <1>a, <1>b, GoMoves DEF Recycle, PcOf, WorkerPc
  <2>2. filled' \in BOOLEAN /\ fate' \in [1..Runs -> Fates]
    BY <1>4, <1>b, OwnTyped DEF Recycle, TypeOK
  <2>3. TypeOK'
    BY <1>4, <1>b, <2>1, <2>2 DEF Recycle, TypeOK, PcTyped, States
  <2>4. Steady(w)
    BY <1>4, <1>a, <2>1 DEF Recycle, Steady, ReadPc
  <2>5. Aside(w)
    BY <1>4, <1>a, <2>1 DEF Recycle, Aside, DutyPc, Running, RestPc
  <2> QED  BY <1>a, <2>1, <2>3, <2>4, <2>5, StepInv
<1>5. CASE Exec(w)
  <2>1. pc[w] = "exec" /\ pc'[w] \in {"fill", "panicked", "dead"} /\ PcTyped' /\ Moved(w)
    BY <1>5, <1>a, <1>b, GoMoves DEF Exec, PcOf, WorkerPc
  <2>2. runsLeft \in 1..Runs
    BY <1>b, <2>1 DEF TypeOK, SlotInv, RunsRemain
  <2>3. /\ bits' \in 0..Runs /\ deaths' \in 0..Deaths
        /\ fate' = fate \/ (bits' \in 1..Runs /\ fate' = [fate EXCEPT ![bits'] = "live"])
    BY <1>5, <1>b, <2>2, SlotAssumption DEF Exec, TypeOK
  <2>4. fate' \in [1..Runs -> Fates]
    BY <1>b, <2>3 DEF TypeOK, Fates
  <2>5. TypeOK'
    BY <1>5, <1>b, <2>1, <2>3, <2>4 DEF Exec, TypeOK, PcTyped
  <2>6. Steady(w)
    BY <1>5, <1>a, <2>1 DEF Exec, Steady
  <2>7. Aside(w)
    BY <1>5, <1>a, <2>1 DEF Exec, Aside, DutyPc, Running, RestPc
  <2> QED  BY <1>a, <2>1, <2>5, <2>6, <2>7, StepInv
<1>6. CASE Fill(w)
  <2>1. pc[w] = "fill" /\ pc'[w] = "publish" /\ PcTyped' /\ Moved(w)
    BY <1>6, <1>a, <1>b, GoMoves DEF Fill, PcOf, WorkerPc
  <2>2. TypeOK'
    BY <1>6, <1>b, <2>1 DEF Fill, TypeOK, PcTyped, States
  <2>3. Steady(w)
    BY <1>6, <1>a, <2>1 DEF Fill, Steady, ReadPc
  <2>4. Aside(w)
    BY <1>6, <1>a, <2>1 DEF Fill, Aside, DutyPc, Running, RestPc
  <2> QED  BY <1>a, <2>1, <2>2, <2>3, <2>4, StepInv
<1>7. CASE Publish(w)
  <2>1. pc[w] = "publish" /\ pc'[w] \in {"wake", "release"} /\ PcTyped' /\ Moved(w)
    BY <1>7, <1>a, <1>b, GoMoves DEF Publish, PcOf, WorkerPc
  <2>2. TypeOK'
    BY <1>7, <1>b, <2>1 DEF Publish, TypeOK, PcTyped, States
  <2>3. Steady(w)
    BY <1>7, <1>a, <2>1 DEF Publish, Steady, ReadPc
  <2>4. Aside(w)
    BY <1>7, <1>a, <2>1 DEF Publish, Aside, DutyPc, Running, RestPc
  <2> QED  BY <1>a, <2>1, <2>2, <2>3, <2>4, StepInv
<1>8. CASE WakeReady(w)
  <2>1. pc[w] = "wake" /\ pc'[w] = "after" /\ PcTyped' /\ Moved(w)
    BY <1>8, <1>a, <1>b, WakeMoves DEF WakeReady, PcOf, WorkerPc
  <2>2. TypeOK'
    BY <1>8, <1>b, <2>1 DEF WakeReady, TypeOK, PcTyped, States
  <2>3. Steady(w)
    BY <1>8, <1>a, <2>1 DEF WakeReady, Steady, ReadPc
  <2>4. Aside(w)
    BY <1>8, <1>a, <2>1 DEF WakeReady, Aside, DutyPc, Running, RestPc
  <2> QED  BY <1>a, <2>1, <2>2, <2>3, <2>4, StepInv
<1>9. CASE After(w)
  <2>1. pc[w] = "after" /\ pc'[w] \in {"release", "rearm"} /\ PcTyped' /\ Moved(w)
    BY <1>9, <1>a, <1>b, GoMoves DEF After, PcOf, WorkerPc
  <2>2. runsLeft \in 1..Runs
    BY <1>b, <2>1 DEF TypeOK, SlotInv, RunsRemain
  <2>3. /\ runsLeft' \in 0..Runs /\ (runsLeft' = 0 => pc'[w] # "rearm")
    <3>1. CASE ~repeats
      BY <3>1, <1>9, <2>2 DEF After
    <3>2. CASE repeats /\ repeats' = FALSE /\ Go(w, "release")
      <4>1. pc'[w] = "release"
        BY <3>2, <1>a, <1>b, GoMoves DEF PcOf, WorkerPc
      <4> QED  BY <4>1, <3>2, <1>9, <2>2, SlotAssumption DEF After
    <3>3. CASE repeats /\ runsLeft' # 0
      BY <3>3, <1>9, <2>2, SlotAssumption DEF After
    <3> QED  BY <3>1, <3>2, <3>3, <1>9 DEF After
  <2>4. repeats' \in BOOLEAN
    BY <1>9, <1>b DEF After, TypeOK
  <2>5. TypeOK'
    BY <1>9, <1>b, <2>1, <2>3, <2>4 DEF After, TypeOK, PcTyped
  <2>6. Balance(w)
    <3>1. Steady(w)
      BY <1>9, <1>a, <2>1 DEF After, Steady
    <3> QED  BY <1>a, <3>1, SteadyBalance
  <2>7. pool \in {"open", "closed"}
    BY <1>b, <2>1 DEF SlotInv, DutyUnique
  <2>8. queue = 0 /\ \A b \in Actors : b # w => ~OnDuty(b)
    <3>1. OnDuty(w)
      BY <2>1 DEF OnDuty, DutyPc
    <3> QED  BY <1>a, <1>b, <2>7, <3>1 DEF SlotInv, DutyUnique
  <2>9. DutyUnique'
    <3>1. UNCHANGED <<pool, queue, held>>
      BY <1>9 DEF After
    <3>2. pc[w] \in DutyPc /\ pc[w] # "idle"
      BY <2>1 DEF DutyPc
    <3> QED  BY <1>a, <2>1, <3>1, <3>2, DutyKept
  <2>10. NotStarted'
    BY <1>a, <2>1, StartedKept
  <2>11. RunsRemain'
    <3> SUFFICES ASSUME runsLeft' = 0
                 PROVE  /\ queue' = 0
                        /\ \A h \in Handles : pc'[h] \notin {"submit", "push"}
                        /\ \A v \in Workers : pc'[v] \in {"idle", "release", "unref"}
      BY DEF RunsRemain
    <3>1. \A h \in Handles : pc'[h] \notin {"submit", "push"}
      BY <1>a, <2>1, <2>8, Others DEF OnDuty, DutyPc
    <3>2. \A v \in Workers : v # w => pc'[v] \notin DutyPc
      BY <1>a, <2>1, <2>8, Others DEF OnDuty
    <3>3. \A v \in Workers : pc'[v] \in WorkerPc
      BY <2>1 DEF PcTyped
    <3>4. \A v \in Workers : v # w => pc'[v] \in {"idle", "release", "unref"}
      BY <3>2, <3>3 DEF WorkerPc, DutyPc
    <3>5. pc'[w] = "release" /\ queue' = 0
      BY <1>9, <2>1, <2>3, <2>8 DEF After
    <3> QED  BY <3>1, <3>4, <3>5
  <2>12. TaskHeldOnce'
    <3>1. task' = task /\ Running(w)
      BY <1>9, <2>1 DEF After, Running
    <3> QED  BY <1>a, <3>1, <2>1, TaskKept
  <2> QED
    BY <1>a, <2>1, <2>5, <2>6, <2>9, <2>10, <2>11, <2>12, Balanced DEF IInv, SlotInv
<1>10. CASE Rearm(w)
  <2>1. pc[w] = "rearm" /\ pc'[w] = "submit" /\ PcTyped' /\ Moved(w)
    BY <1>10, <1>a, <1>b, GoMoves DEF Rearm, PcOf, WorkerPc
  <2>2. TypeOK'
    BY <1>10, <1>b, <2>1 DEF Rearm, TypeOK, PcTyped
  <2>3. Balance(w)
    <3>1. Steady(w)
      BY <1>10, <1>a, <2>1 DEF Rearm, Steady
    <3> QED  BY <1>a, <3>1, SteadyBalance
  <2>4. \A v \in Workers : v # w => ~OnDuty(v)
    <3>1. pool \in {"open", "closed"}
      BY <1>b, <2>1 DEF SlotInv, DutyUnique
    <3>2. OnDuty(w)
      BY <2>1 DEF OnDuty, DutyPc
    <3> QED  BY <1>a, <1>b, <3>1, <3>2 DEF SlotInv, DutyUnique, Actors
  <2>5. DutyUnique'
    <3>1. UNCHANGED <<pool, queue, held>>
      BY <1>10 DEF Rearm
    <3>2. pc[w] \in DutyPc /\ pc[w] # "idle"
      BY <2>1 DEF DutyPc
    <3> QED  BY <1>a, <2>1, <3>1, <3>2, DutyKept
  <2>6. NotStarted'
    BY <1>a, <2>1, StartedKept
  <2>7. RunsRemain'
    BY <1>10, <1>b, <2>1 DEF Rearm, SlotInv, RunsRemain
  <2>8. TaskHeldOnce'
    <3>1. ~Running(w)'
      BY <2>1 DEF Running
    <3>2. \A v \in Workers : v # w => pc'[v] = pc[v] /\ pc[v] \in WorkerPc
      BY <1>a, <1>b, <2>1, Others DEF TypeOK
    <3>3. \A v \in Workers : v # w => ~Running(v)'
      BY <2>4, <3>2 DEF Running, OnDuty, DutyPc, WorkerPc
    <3> QED  BY <3>1, <3>3 DEF TaskHeldOnce
  <2> QED  BY <1>a, <2>1, <2>2, <2>3, <2>5, <2>6, <2>7, <2>8, Balanced DEF IInv, SlotInv
<1>11. CASE Settle(w)
  <2>1. pc[w] \in {"give_up", "panicked"} /\ pc'[w] = "wake_failed" /\ PcTyped' /\ Moved(w)
    BY <1>11, <1>a, <1>b, GoMoves DEF Settle, PcOf, WorkerPc
  <2>2. TypeOK'
    BY <1>11, <1>b, <2>1 DEF Settle, TypeOK, PcTyped, States
  <2>3. Steady(w)
    BY <1>11, <1>a, <2>1 DEF Settle, Steady, ReadPc
  <2>4. Aside(w)
    BY <1>11, <1>a, <2>1 DEF Settle, Aside, DutyPc, Running, RestPc
  <2> QED  BY <1>a, <2>1, <2>2, <2>3, <2>4, StepInv
<1>12. CASE SettleLost(w)
  <2>1. pc[w] \in {"give_up", "panicked"} /\ pc'[w] = "release" /\ PcTyped' /\ Moved(w)
    BY <1>12, <1>a, <1>b, GoMoves DEF SettleLost, PcOf, WorkerPc
  <2>2. TypeOK'
    BY <1>12, <1>b, <2>1 DEF SettleLost, TypeOK, PcTyped, States
  <2>3. Steady(w)
    BY <1>12, <1>a, <2>1 DEF SettleLost, Steady, ReadPc
  <2>4. Aside(w)
    BY <1>12, <1>a, <2>1 DEF SettleLost, Aside, DutyPc, Running, RestPc
  <2> QED  BY <1>a, <2>1, <2>2, <2>3, <2>4, StepInv
<1> QED
  BY <1>1, <1>2, <1>3, <1>4, <1>5, <1>6, <1>7, <1>8, <1>9, <1>10, <1>11, <1>12, <1>a,
     SharedStepInv DEF RunStep

\* The steps of `fail` and of a shutdown
LEMMA ReaperMoveInv ==
    ASSUME IInv, Fail \/ SetFailed \/ Drain \/ Sweep
    PROVE  IInv'
<1> USE DEF callVars, counters, slotVars
<1>a. Reaper \in Actors /\ Reaper \notin Handles /\ Reaper \notin Workers
  BY SlotAssumption DEF Actors
<1>b. TypeOK /\ SlotInv
  BY DEF IInv
<1>1. CASE Fail
  <2>1. pc[Reaper] = "fail" /\ pc'[Reaper] \in {"release", "set_failed"} /\ PcTyped' /\ Moved(Reaper)
    BY <1>1, <1>a, <1>b, GoMoves DEF Fail, PcOf, ReaperPc
  <2>2. TypeOK'
    BY <1>1, <1>b, <2>1 DEF Fail, TypeOK, PcTyped, States
  <2>3. Steady(Reaper)
    BY <1>1, <1>a, <2>1 DEF Fail, Steady, ReadPc
  <2>4. Aside(Reaper)
    BY <1>1, <1>a, <2>1 DEF Fail, Aside, DutyPc, Running, RestPc
  <2> QED  BY <1>a, <2>1, <2>2, <2>3, <2>4, StepInv
<1>2. CASE SetFailed
  <2>1. pc[Reaper] = "set_failed" /\ pc'[Reaper] = "wake_failed" /\ PcTyped' /\ Moved(Reaper)
    BY <1>2, <1>a, <1>b, GoMoves DEF SetFailed, PcOf, ReaperPc
  <2>2. TypeOK'
    BY <1>2, <1>b, <2>1 DEF SetFailed, TypeOK, PcTyped, States
  <2>3. Steady(Reaper)
    BY <1>2, <1>a, <2>1 DEF SetFailed, Steady, ReadPc
  <2>4. Aside(Reaper)
    BY <1>2, <1>a, <2>1 DEF SetFailed, Aside, DutyPc, Running, RestPc
  <2> QED  BY <1>a, <2>1, <2>2, <2>3, <2>4, StepInv
<1>3. CASE Drain
  <2>1. pc[Reaper] = "idle" /\ pc'[Reaper] = "fail" /\ PcTyped' /\ Moved(Reaper)
    BY <1>3, <1>a, <1>b, GoMoves DEF Drain, PcOf, ReaperPc
  <2>2. TypeOK'
    BY <1>3, <1>b, <2>1 DEF Drain, TypeOK, PcTyped
  <2>3. Balance(Reaper)
    <3>1. Steady(Reaper)
      BY <1>3, <1>a, <2>1 DEF Drain, Steady
    <3> QED  BY <1>a, <3>1, SteadyBalance
  <2>4. DutyUnique'
    <3>1. \A w \in Workers : pc[w] = "idle"
      BY <1>3, <1>b DEF Drain, SlotInv, DutyUnique
    <3>2. \A w \in Workers : pc'[w] = "idle"
      BY <1>a, <2>1, <3>1, Others
    <3> QED  BY <1>3, <3>2 DEF Drain, DutyUnique
  <2>5. queue # 0 /\ runsLeft' = runsLeft /\ task' = task
    BY <1>3, <1>b DEF Drain, TypeOK
  <2>6. NotStarted'
    BY <1>a, <2>1, <2>5, StartedKept
  <2>7. RunsRemain'
    BY <1>b, <2>5 DEF SlotInv, RunsRemain
  <2>8. TaskHeldOnce'
    BY <1>a, <2>1, <2>5, TaskKept
  <2> QED  BY <1>a, <2>1, <2>2, <2>3, <2>4, <2>6, <2>7, <2>8, Balanced DEF IInv, SlotInv
<1>4. CASE Sweep
  <2>1. /\ pc[Reaper] = "idle" /\ PcTyped' /\ Moved(Reaper)
        /\ pc'[Reaper] = IF state \in {"Free", "Running"} THEN "idle" ELSE "fail"
    BY <1>4, <1>a, <1>b, GoMoves DEF Sweep, PcOf, ReaperPc
  <2>2. TypeOK'
    BY <1>4, <1>b, <2>1 DEF Sweep, TypeOK, PcTyped
  <2>3. Balance(Reaper)
    <3>1. Steady(Reaper)
      BY <1>4, <1>a, <2>1 DEF Sweep, Steady
    <3> QED  BY <1>a, <3>1, SteadyBalance
  <2>4. \A w \in Workers : pc[w] = "idle" /\ pc'[w] = "idle"
    <3>1. \A w \in Workers : pc[w] = "idle"
      BY <1>4, <1>b DEF Sweep, SlotInv, DutyUnique
    <3> QED  BY <1>a, <2>1, <3>1, Others
  <2>5. DutyUnique'
    BY <1>4, <2>4 DEF Sweep, DutyUnique
  <2>6. UNCHANGED <<state, held, queue, task, listeners, runsLeft>>
    BY <1>4 DEF Sweep
  <2>7. NotStarted'
    <3> SUFFICES ASSUME \A h \in Handles : pc'[h] = "none"
                 PROVE  /\ state = "Free" /\ ~held /\ queue = 0 /\ ~task /\ listeners = 0
                        /\ runsLeft = Runs
                        /\ pc'[Reaper] = "idle" /\ \A w \in Workers : pc'[w] = "idle"
      BY <2>6 DEF NotStarted
    <3>1. \A h \in Handles : pc[h] = "none"
      BY <1>a, <2>1, Others
    <3>2. /\ state = "Free" /\ ~held /\ queue = 0 /\ ~task /\ listeners = 0
          /\ runsLeft = Runs
      BY <1>b, <3>1 DEF SlotInv, NotStarted
    <3> QED  BY <2>1, <2>4, <3>2
  <2>8. RunsRemain'
    <3>1. runsLeft = 0 => queue = 0
      BY <1>b DEF SlotInv, RunsRemain
    <3> QED  BY <1>a, <2>1, <2>6, <3>1, RunsKept
  <2>9. TaskHeldOnce'
    BY <1>a, <2>1, <2>6, TaskKept
  <2> QED  BY <1>a, <2>1, <2>2, <2>3, <2>5, <2>7, <2>8, <2>9, Balanced DEF IInv, SlotInv
<1> QED
  BY <1>1, <1>2, <1>3, <1>4

\* A sweep takes over a dead thread's duty: it passes from one thread to another
LEMMA RecoverInv ==
    ASSUME IInv, NEW w \in Workers, Recover(w)
    PROVE  IInv'
<1> USE DEF callVars, counters, slotVars
<1>a. /\ w \in Actors /\ Reaper \in Actors /\ w # Reaper
      /\ w \notin Handles /\ Reaper \notin Handles \cup Workers
      /\ Handles \subseteq Actors /\ Workers \subseteq Actors
  BY SlotAssumption DEF Actors
<1>b. TypeOK /\ SlotInv
  BY DEF IInv
<1>1. /\ pc[w] = "dead" /\ pc[Reaper] = "idle"
      /\ pc' \in [Actors -> HandlePc \cup WorkerPc \cup ReaperPc]
      /\ pc'[w] = "idle" /\ pc'[Reaper] = "fail"
      /\ \A b \in Actors : b # w /\ b # Reaper => pc'[b] = pc[b]
  <2>1. pc \in [Actors -> HandlePc \cup WorkerPc \cup ReaperPc]
    BY <1>b DEF TypeOK
  <2>2. {"idle", "fail"} \subseteq HandlePc \cup WorkerPc \cup ReaperPc
    BY DEF WorkerPc, ReaperPc
  <2> QED  BY <1>a, <2>1, <2>2 DEF Recover
<1>2. \A h \in Handles : pc'[h] = pc[h]
  BY <1>a, <1>1
<1>3. UNCHANGED <<state, listeners, readers, held, task, queue, pool, runsLeft>>
  BY DEF Recover
<1>4. PcTyped'
  <2>1. \A v \in Workers : pc'[v] = pc[v] \/ pc'[v] = "idle"
    BY <1>a, <1>1
  <2> QED  BY <1>b, <1>1, <1>2, <2>1 DEF TypeOK, PcTyped, WorkerPc, ReaperPc
<1>5. TypeOK'
  BY <1>b, <1>4 DEF Recover, TypeOK, PcTyped
<1>6. RefsCounted' /\ ReadersCounted'
  <2>1. Live' = Live /\ Reading' = Reading
    BY <1>2 DEF Live, Reading
  <2>2. \A b \in Actors : pc'[b] = "unref" <=> pc[b] = "unref"
    BY <1>1
  <2>3. Releasing' = Releasing
    BY <2>2 DEF Releasing
  <2> QED  BY <1>b, <1>3, <2>1, <2>3 DEF SlotInv, RefsCounted, ReadersCounted
<1>7. DutyUnique'
  <2>1. pool \in {"open", "closed"}
    BY <1>b, <1>1 DEF SlotInv, DutyUnique
  <2>2. OnDuty(w) /\ ~OnDuty(w)'
    BY <1>1 DEF OnDuty, DutyPc
  <2>3. queue = 0 /\ held /\ \A b \in Actors : b # w => ~OnDuty(b)
    BY <1>a, <1>b, <2>1, <2>2 DEF SlotInv, DutyUnique
  <2>4. \A b \in Actors : OnDuty(b)' => b = Reaper
    BY <1>1, <2>2, <2>3 DEF OnDuty
  <2> QED  BY <1>3, <2>1, <2>3, <2>4 DEF DutyUnique
<1>8. NotStarted'
  BY <1>b, <1>1, <1>2 DEF SlotInv, NotStarted
<1>9. RunsRemain'
  BY <1>b, <1>1, <1>3 DEF SlotInv, RunsRemain
<1>10. TaskHeldOnce'
  <2>1. \A v \in Workers : Running(v)' => Running(v)
    BY <1>a, <1>1 DEF Running
  <2> QED  BY <1>b, <1>3, <2>1 DEF SlotInv, TaskHeldOnce
<1> QED  BY <1>5, <1>6, <1>7, <1>8, <1>9, <1>10 DEF IInv, SlotInv

\* The pool closes, its last thread leaves, or nothing happens
LEMMA QuietStepInv ==
    ASSUME IInv, StopAll \/ Close \/ UNCHANGED vars
    PROVE  IInv'
<1> USE DEF counters, slotVars
<1>1. TypeOK /\ SlotInv
  BY DEF IInv
<1>2. /\ UNCHANGED <<state, listeners, readers, held, task, queue, runsLeft, pc>>
      /\ UNCHANGED <<filled, repeats, bits, fate, deaths, op, seen>>
  BY DEF StopAll, Close, vars
<1>3. /\ pool' \in {"open", "closed", "gone", "swept"}
      /\ IF pool' \in {"open", "closed"}
           THEN pool \in {"open", "closed"}
           ELSE \A w \in Workers : pc[w] = "idle"
  BY <1>1 DEF StopAll, Close, vars, TypeOK, SlotInv, DutyUnique
<1>4. TypeOK'
  BY <1>1, <1>2, <1>3 DEF TypeOK
<1>5. RefsCounted' /\ ReadersCounted'
  <2>1. Live' = Live /\ Releasing' = Releasing /\ Reading' = Reading
    BY <1>2 DEF Live, Releasing, Reading
  <2> QED  BY <1>1, <1>2, <2>1 DEF SlotInv, RefsCounted, ReadersCounted
<1>6. DutyUnique'
  BY <1>1, <1>2, <1>3 DEF SlotInv, DutyUnique, OnDuty
<1>7. NotStarted' /\ RunsRemain' /\ TaskHeldOnce'
  BY <1>1, <1>2 DEF SlotInv, NotStarted, RunsRemain, TaskHeldOnce, Running
<1> QED  BY <1>4, <1>5, <1>6, <1>7 DEF IInv, SlotInv

\* The invariant holds of a slot no task has been put in yet
LEMMA InitInv == Init => IInv
<1> SUFFICES ASSUME Init PROVE IInv
  OBVIOUS
<1>a. PcTyped
  BY SlotAssumption DEF Init, PcTyped, HandlePc, WorkerPc, ReaperPc, Actors
<1>b. fate \in [1..Runs -> Fates] /\ runsLeft \in 0..Runs /\ bits \in 0..Runs /\ deaths \in 0..Deaths
  BY SlotAssumption DEF Init, Fates
<1>c. op \in [Handles -> Ops] /\ seen \in [Handles -> States]
  BY DEF Init, Ops, Joins, Takes, States
<1>1. TypeOK
  BY <1>a, <1>b, <1>c, SlotAssumption DEF Init, TypeOK, PcTyped, States
<1>2. Live = {} /\ Releasing = {} /\ Reading = {}
  BY SlotAssumption DEF Init, Live, Releasing, Reading, Actors
<1>3. RefsCounted /\ ReadersCounted
  BY <1>2, FS_EmptySet DEF Init, RefsCounted, ReadersCounted
<1>4. DutyUnique /\ NotStarted /\ RunsRemain /\ TaskHeldOnce
  BY SlotAssumption DEF Init, DutyUnique, OnDuty, DutyPc, NotStarted, RunsRemain,
     TaskHeldOnce, Running, Actors
<1> QED  BY <1>1, <1>3, <1>4 DEF IInv, SlotInv

\* Every step of every thread keeps it
LEMMA NextInv == IInv /\ [Next]_vars => IInv'
<1> SUFFICES ASSUME IInv, [Next]_vars PROVE IInv'
  OBVIOUS
<1>1. Reaper \in Actors
  BY DEF Actors
<1>2. CASE \E h \in Handles : Create(h) \/ Call(h) \/ GiveUpWait(h) \/ DropHandle(h)
  BY <1>2, UserStepInv
<1>3. CASE \E h, g \in Handles : CloneHandle(h, g)
  BY <1>3, CloneHandleInv
<1>4. CASE \E h \in Handles : HandleStep(h)
  BY <1>4, HandleStepInv
<1>5. CASE \E w \in Workers : RunStep(w)
  BY <1>5, RunStepInv
<1>6. CASE ReaperStep
  BY <1>1, <1>6, RecoverInv, QuietStepInv, ReaperMoveInv, SharedStepInv DEF ReaperStep
<1>7. CASE Close \/ UNCHANGED vars
  BY <1>7, QuietStepInv
<1> QED  BY <1>2, <1>3, <1>4, <1>5, <1>6, <1>7 DEF Next

\* The counters of a slot are exact in every reachable state: `listeners` is its
\* live handles and owed references, `readers` its reads under way, and the duty
\* to run or settle the task is in one place
THEOREM SlotCorrect == Spec => [](TypeOK /\ SlotInv)
BY InitInv, NextInv, PTL DEF Spec, IInv

\* The slot is never emptied under a live handle, under a thread that is giving
\* its reference back, under a run, or before a dead thread's task is failed
THEOREM SlotSafe == Spec => []SlotOutlivesUse
<1>1. IInv => SlotOutlivesUse
  <2> SUFFICES ASSUME IInv, state = "Free" PROVE
        /\ Live = {} /\ Releasing = {}
        /\ \A w \in Workers : ~Running(w) /\ pc[w] \notin {"dead", "give_up"}
    BY DEF SlotOutlivesUse
  <2>1. Live = {} /\ Releasing = {}
    BY Alive DEF Live, Releasing
  <2>2. \A w \in Workers : ~OnDuty(w)
    BY Alive DEF IInv, TypeOK, SlotInv, DutyUnique, OnDuty, DutyPc, Actors
  <2>3. \A w \in Workers : pc[w] \in WorkerPc
    BY DEF IInv, TypeOK
  <2> QED  BY <2>1, <2>2, <2>3 DEF OnDuty, DutyPc, Running, WorkerPc
<1> QED  BY <1>1, InitInv, NextInv, PTL DEF Spec

\* However many threads pick the task up, one has it at a time, and none while
\* it is in the slot
THEOREM RunsAlone == Spec => []OneRunAtATime
<1>1. IInv => OneRunAtATime
  <2> SUFFICES ASSUME IInv PROVE OneRunAtATime
    OBVIOUS
  <2>1. \A w \in Workers : Running(w) => OnDuty(w) /\ pc[w] # "idle"
    BY DEF IInv, TypeOK, WorkerPc, Running, OnDuty, DutyPc
  <2> QED
    BY <2>1 DEF IInv, SlotInv, DutyUnique, TaskHeldOnce, OneRunAtATime, Actors
<1> QED  BY <1>1, InitInv, NextInv, PTL DEF Spec
=============================================================================
