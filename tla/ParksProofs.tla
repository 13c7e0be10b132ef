---------------------------- MODULE ParksProofs -----------------------------
(***************************************************************************)
(* One thread at a time has a task that parks, waits out its interval, or  *)
(* times out, whoever comes to wake it or to take it down (RunsAlone), for *)
(* any number of pool threads and any scenes.                              *)
(***************************************************************************)
EXTENDS Series, FiniteSetTheorems, TLAPS

\* tlapm infers types before it calls the SMT solver, which is most of its work on the
\* steps below; a fact with a CASE in it makes it go on without them
LEMMA Untyped == CASE TRUE -> TRUE
BY ZenonT(30)

USE Untyped

-----------------------------------------------------------------------------
(* The invariant.                                                          *)

\* Where an actor is while it has the task's next turn in its hands: the
\* spawn, a run, a wake it has claimed, or a park it is taking down
HoldPc == InRun \cup {"spawn", "lost", "claim", "unwatch", "take_down", "let_go", "half",
                      "queue", "fire", "misfire", "recover_watch", "overdue_parked", "overdue_end"}
Holds(a) == pc[a] \in HoldPc

\* Where each actor of a task that is no schedule can be
WorkerPc == InRun \cup {"idle", "claim", "arm", "disarm", "lost", "watch_timer", "watch", "check",
                        "unpark", "unwatch", "take_down", "let_go", "unpin"}
ManagerPc == {"listen", "fetched", "handle", "half", "queue", "fire", "misfire", "overdue",
              "overdue_parked", "overdue_end", "overdue_running", "unpark", "unwatch", "take_down",
              "let_go", "dead", "recover", "recover_park", "recover_watch", "recover_wait",
              "give_up", "orphan", "out"}
SpawnerPc == {"spawn", "arm", "disarm", "lost", "done"}
CancellerPc == {"idle", "unpark", "unwatch", "take_down", "let_go", "done"}
CloserPc == {"idle", "close", "swap", "join", "drain", "sweep", "unpark", "unwatch", "take_down",
             "let_go", "stopped"}

Timers == {"none", "park", "wait", "clock"}
Events == [what : Timers \cup {"watch", "tout"}, word : Nat]

Types ==
    /\ \A w \in Workers : pc[w] \in WorkerPc
    /\ pc["manager"] \in ManagerPc /\ pc["spawner"] \in SpawnerPc
    /\ pc["canceller"] \in CancellerPc /\ pc["closer"] \in CloserPc
    /\ parked \in BOOLEAN /\ armed \in BOOLEAN /\ held \in BOOLEAN /\ handle \in BOOLEAN
    /\ closed \in BOOLEAN /\ alive \in {"up", "down", "closed"} /\ deaths \in Nat
    /\ word \in Nat /\ ran \in Nat
    /\ kq \in [watch : BOOLEAN, timer : Timers, tout : Nat] /\ batch \in Seq(Events)

\* The turn is in one place: with one actor, in the pool's queue, in the park, or
\* in the wait
Token ==
    /\ pool \in {0, 1}
    /\ \A a, b \in Actors : Holds(a) /\ Holds(b) => a = b
    /\ pool = 1 => ~parked /\ ~armed /\ \A a \in Actors : ~Holds(a)
    /\ parked => ~armed /\ \A a \in Actors : ~Holds(a)
    /\ armed => \A a \in Actors : ~Holds(a)

\* Wherever it is, the executor's reference keeps the slot for it
Held ==
    /\ \A a \in Actors : Holds(a) => held \/ a \in {"canceller", "spawner"}
    /\ pool = 1 => held
    /\ parked => held
    /\ armed => held \/ alive = "closed"

\* A run has the boxed task, and a park has put it back
Boxed ==
    /\ \A w \in Workers : pc[w] \in InRun => task = "run"
    /\ parked => task = "slot"

\* A thread that parks a task keeps the slot until it has checked for a cancel,
\* and a canceller has its handle
ParkPc == {"watch_timer", "watch", "check", "unpark", "unwatch", "take_down", "let_go", "unpin"}

Kept ==
    /\ \A w \in Workers : pc[w] \in ParkPc => w \in pins
    /\ pc["canceller"] \notin {"idle", "done"} => handle
    /\ pc["canceller"] # "idle" => pc["spawner"] = "done"

\* Nothing has happened to the task before its spawn is through
Early ==
    pc["spawner"] # "done" =>
        /\ kq = NoEvents /\ batch = <<>> /\ pc["manager"] \in {"listen", "out"}
        /\ \A w \in Workers : pc[w] = "idle"
        /\ pool = 0 /\ ~parked /\ (held \/ (closed /\ alive = "closed"))
        /\ pc["closer"] \in {"idle", "close", "swap", "join", "drain", "sweep", "stopped"}

\* How the manager and the runtime end
Ending ==
    /\ pc["closer"] # "idle" => scene.stop
    /\ pc["closer"] \notin {"idle", "close"} => closed
    /\ pc["closer"] \notin {"idle", "close", "swap", "join"} => pc["manager"] = "out" /\ alive = "closed"
    /\ pc["closer"] \notin {"idle", "close", "swap", "join", "drain"} =>
         pool = 0 /\ \A w \in Workers : pc[w] = "idle"
    /\ alive = "closed" =>
         \/ pc["manager"] = "out"
         \/ deaths > Limit /\ pc["manager"] \in {"orphan", "unpark", "unwatch", "take_down", "let_go"}
    /\ pc["manager"] = "orphan" => alive = "closed"
    /\ pc["manager"] \in {"dead", "recover", "recover_park", "recover_watch", "recover_wait"} => deaths > 0
    /\ pc["manager"] \in {"give_up", "orphan"} => deaths > Limit
    /\ pc["manager"] = "half" => batch # <<>>
    /\ deaths <= scene.faults
    /\ alive # "up" => scene.stop \/ deaths > Limit

\* Between `armed` and the timer behind it.  A restarted manager arms the wait of
\* a repeat again whether or not its run is at this point, so this says nothing of
\* a repeat whose manager dies: such a one keeps its queue
Arming == {"arm", "disarm"}
Guarded == scene.kind = "once" \/ scene.faults = 0
NoTurn == pool = 0 /\ ~parked /\ \A a \in Actors : ~Holds(a)

Armed ==
    /\ scene.kind = "once" => \A w \in Workers : pc[w] \notin {"rearm", "arm", "disarm", "lost"}
    /\ Guarded => \A a, b \in Actors : pc[a] \in Arming /\ pc[b] \in Arming => a = b
    /\ Guarded => \A a \in Actors : pc[a] \in Arming => armed \/ (alive = "closed" /\ NoTurn)
    /\ Guarded => \A w \in Workers : pc[w] \in Arming => armed /\ held
    /\ \A a \in Actors : pc[a] = "disarm" => alive # "up"

\* A repeat's wait that is over has one event, and nobody is arming another
WaitsIn(b) == {i \in DOMAIN b : b[i].what = "wait"}
Lasting == scene.kind = "every" /\ scene.faults = 0

Awaited ==
    Lasting =>
        /\ pc["manager"] \in {"listen", "out"} => batch = <<>>
        /\ kq.timer = "wait" \/ WaitsIn(batch) # {} => armed /\ \A a \in Actors : pc[a] \notin Arming
        /\ kq.timer = "wait" => WaitsIn(batch) = {} /\ alive # "closed"
        /\ \A i, j \in WaitsIn(batch) : i = j

TurnInv == Types /\ Token /\ Held /\ Boxed /\ Kept /\ Early /\ Ending /\ Armed /\ Awaited

\* A schedule's slot has no task in it, so nobody runs or parks one
TaskPc == (HoldPc \ {"spawn", "lost"}) \cup {"watch", "watch_timer", "check"}

CalmInv ==
    /\ ~parked /\ pool = 0 /\ \A w \in Workers : pc[w] = "idle"
    /\ \A a \in Actors : pc[a] \notin TaskPc
    /\ pc["spawner"] # "unpark" /\ series \in {"delayed", "going", "finished"}

IInv ==
    /\ scene \in Scenes /\ DOMAIN pc = Actors
    /\ scene.kind # "series" => TurnInv /\ run = <<>>
    /\ scene.kind = "series" => CalmInv

\* A repeat keeps its manager, and one whose runtime stops has had no deaths.  The
\* claim is false of others: README.md
ScenesHold ==
    \A s \in Scenes : s.kind = "every" => s.faults <= Limit /\ (s.stop => s.faults = 0)

-----------------------------------------------------------------------------
(* One actor moves.                                                        *)

Moves(a) == DOMAIN pc' = Actors /\ \A b \in Actors : b # a => pc'[b] = pc[b]

LEMMA GoMoves ==
    ASSUME DOMAIN pc = Actors, NEW a \in Actors, NEW p, Go(a, p)
    PROVE  Moves(a) /\ pc'[a] = p
BY DEF Go, Moves

\* The part of the turn that an action of a sees and moves
Sees(a) == Holds(a) \/ pool = 1 \/ parked \/ armed

TokenFits(a) ==
    /\ pool' \in {0, 1}
    /\ pc'[a] \in HoldPc \/ pool' = 1 \/ parked' \/ armed' => Sees(a)
    /\ pool' = 1 => ~parked' /\ ~armed' /\ pc'[a] \notin HoldPc
    /\ parked' => ~armed' /\ pc'[a] \notin HoldPc
    /\ armed' => pc'[a] \notin HoldPc

\* The turn stays in one place if what a sees of it does
LEMMA TokenKeeps ==
    ASSUME Token, NEW a \in Actors, Moves(a), TokenFits(a)
    PROVE  Token'
<1>1. Sees(a) => \A b \in Actors : b # a => ~Holds(b)
  BY DEF Token, Sees
<1>2. \A b \in Actors : b # a => (Holds(b)' <=> Holds(b))
  BY DEF Moves, Holds
<1>3. Holds(a)' <=> pc'[a] \in HoldPc
  BY DEF Holds
<1> QED  BY <1>1, <1>2, <1>3 DEF Token, TokenFits

HeldFits(a) ==
    /\ held /\ ~held' => Sees(a) /\ (armed => \A w \in Workers : pc[w] \notin Arming)
    /\ ~held' => /\ pc'[a] \in HoldPc => a \in {"canceller", "spawner"}
                 /\ pool' # 1 /\ ~parked' /\ (armed' => alive' = "closed")

\* So does the reference that goes with it
LEMMA HeldKeeps ==
    ASSUME Token, Held, NEW a \in Actors, Moves(a), HeldFits(a)
    PROVE  Held'
<1>1. Sees(a) => \A b \in Actors : b # a => ~Holds(b)
  BY DEF Token, Sees
<1>2. \A b \in Actors : b # a => (Holds(b)' <=> Holds(b))
  BY DEF Moves, Holds
<1>3. Holds(a)' <=> pc'[a] \in HoldPc
  BY DEF Holds
<1> QED  BY <1>1, <1>2, <1>3 DEF Held, HeldFits

BoxFits(a) ==
    /\ a \in Workers /\ pc'[a] \in InRun => task' = "run"
    /\ parked' => task' = "slot"
    /\ task' # task => Holds(a)

\* Only whoever has the turn moves the task
LEMMA BoxKeeps ==
    ASSUME Token, Boxed, NEW a \in Actors, Moves(a), BoxFits(a)
    PROVE  Boxed'
<1>1. Workers \subseteq Actors
  BY DEF Actors
<1>2. \A w \in Workers : pc[w] \in InRun => Holds(w)
  BY DEF Holds, HoldPc
<1>3. ASSUME NEW w \in Workers, pc'[w] \in InRun
      PROVE  task' = "run"
  <2>1. CASE w = a
    BY <1>3, <2>1 DEF BoxFits
  <2>2. CASE w # a
    BY <1>1, <1>2, <1>3, <2>2 DEF Moves, BoxFits, Token, Boxed
  <2> QED  BY <2>1, <2>2
<1> QED  BY <1>3 DEF Boxed, BoxFits

ArmFits(a) ==
    /\ scene.kind = "once" /\ a \in Workers => pc'[a] \notin {"rearm", "arm", "disarm", "lost"}
    /\ pc'[a] \in Arming => pc[a] \in Arming \/ (armed' /\ Holds(a) /\ (held => held'))
    /\ pc'[a] = "disarm" => alive' # "up"
    /\ Guarded /\ armed /\ ~armed' =>
         pc'[a] \notin Arming /\ \A b \in Actors : b # a => pc[b] \notin Arming
    /\ alive = "closed" => alive' = "closed"
    /\ alive # "up" => alive' # "up"

\* Nobody takes the wait of whoever is still arming it
LEMMA ArmKeeps ==
    ASSUME Types, Token, Held, Armed, NEW a \in Actors, Moves(a), TokenFits(a), HeldFits(a), ArmFits(a),
           scene' = scene
    PROVE  Armed'
<1>1. Workers \subseteq Actors /\ (Guarded' <=> Guarded)
  BY DEF Actors, Guarded
<1>2. \A b \in Actors : b # a => pc'[b] = pc[b] /\ (Holds(b)' <=> Holds(b))
  BY DEF Moves, Holds
<1>3. scene'.kind = "once" => \A w \in Workers : pc'[w] \notin {"rearm", "arm", "disarm", "lost"}
  BY <1>1, <1>2 DEF Armed, ArmFits
<1>4. \A b \in Actors : pc'[b] = "disarm" => alive' # "up"
  BY <1>2 DEF Armed, ArmFits
<1>5. ASSUME Guarded, NEW b \in Actors, NEW c \in Actors, pc'[b] \in Arming, pc'[c] \in Arming
      PROVE  b = c
  <2>1. \A d \in Actors : d # a /\ pc[d] \in Arming => ~Holds(a)
    BY <1>5 DEF Armed, NoTurn, Token
  <2>2. \A d, e \in Actors : pc[d] \in Arming /\ pc[e] \in Arming => d = e
    BY <1>5 DEF Armed
  <2> QED  BY <1>2, <1>5, <2>1, <2>2 DEF ArmFits
<1>6. ASSUME Guarded, NEW b \in Actors, pc'[b] \in Arming, ~armed'
      PROVE  alive' = "closed" /\ NoTurn'
  <2>1. pc[b] \in Arming
    BY <1>2, <1>6 DEF ArmFits
  <2>2. ~armed
    BY <1>2, <1>6, <2>1 DEF ArmFits
  <2>3. alive = "closed" /\ NoTurn
    BY <1>6, <2>1, <2>2 DEF Armed
  <2>4. ~Sees(a)
    BY <2>2, <2>3 DEF Sees, NoTurn
  <2>5. pc'[a] \notin HoldPc /\ pool' # 1 /\ ~parked'
    BY <2>4 DEF TokenFits
  <2>6. \A d \in Actors : ~Holds(d)'
    BY <1>2, <2>3, <2>5 DEF NoTurn, Holds
  <2> QED  BY <2>3, <2>5, <2>6 DEF NoTurn, ArmFits, TokenFits
<1>7. ASSUME Guarded, NEW w \in Workers, pc'[w] \in Arming
      PROVE  armed' /\ held'
  <2>1. CASE pc[w] \in Arming
    <3>1. armed /\ held
      BY <1>7, <2>1 DEF Armed
    <3>2. armed'
      BY <1>1, <1>7, <2>1, <3>1 DEF ArmFits
    <3> QED  BY <2>1, <3>1, <3>2 DEF HeldFits
  <2>2. CASE pc[w] \notin Arming
    <3>1. w = a /\ armed' /\ Holds(a) /\ (held => held')
      BY <1>1, <1>2, <1>7, <2>2 DEF ArmFits
    <3>2. w \notin {"canceller", "spawner"}
      BY ParksAssumption
    <3> QED  BY <3>1, <3>2 DEF Held
  <2> QED  BY <2>1, <2>2
<1> QED  BY <1>1, <1>3, <1>4, <1>5, <1>6, <1>7 DEF Armed

\* Events past the first
LEMMA TailWaits ==
    ASSUME batch \in Seq(Events), batch # <<>>
    PROVE  /\ Tail(batch) \in Seq(Events)
           /\ \A i \in WaitsIn(Tail(batch)) : i \in Nat /\ i >= 1 /\ i + 1 \in WaitsIn(batch)
           /\ Head(batch).what = "wait" => 1 \in WaitsIn(batch)
<1>1. /\ Tail(batch) \in Seq(Events) /\ Len(batch) \in Nat /\ Len(batch) >= 1
      /\ DOMAIN batch = 1..Len(batch) /\ DOMAIN Tail(batch) = 1..(Len(batch) - 1)
  OBVIOUS
<1>2. \A i \in 1..(Len(batch) - 1) : Tail(batch)[i] = batch[i + 1]
  OBVIOUS
<1>3. Head(batch) = batch[1]
  OBVIOUS
<1> QED  BY <1>1, <1>2, <1>3 DEF WaitsIn

WaitFits(a) ==
    Lasting =>
        /\ pc'["manager"] \in {"listen", "out"} => batch' = <<>>
        /\ kq'.timer = "wait" => kq.timer = "wait" /\ (alive' = "closed" => alive = "closed")
        /\ batch' \in {batch, <<>>} \/ (batch # <<>> /\ batch' = Tail(batch))
        /\ armed /\ ~armed' => kq'.timer # "wait" /\ WaitsIn(batch') = {}
        /\ pc'[a] \in Arming => pc[a] \in Arming \/ ~armed

\* The events of a wait only go
LEMMA WaitKeeps ==
    ASSUME Awaited, batch \in Seq(Events), NEW a \in Actors, Moves(a), WaitFits(a), scene' = scene
    PROVE  Awaited'
<1> SUFFICES ASSUME Lasting
             PROVE  /\ pc'["manager"] \in {"listen", "out"} => batch' = <<>>
                    /\ kq'.timer = "wait" \/ WaitsIn(batch') # {} => armed' /\ \A b \in Actors : pc'[b] \notin Arming
                    /\ kq'.timer = "wait" => WaitsIn(batch') = {} /\ alive' # "closed"
                    /\ \A i, j \in WaitsIn(batch') : i = j
  BY DEF Awaited, Lasting
<1>1. /\ kq.timer = "wait" \/ WaitsIn(batch) # {} => armed /\ \A b \in Actors : pc[b] \notin Arming
      /\ kq.timer = "wait" => WaitsIn(batch) = {} /\ alive # "closed"
      /\ \A i, j \in WaitsIn(batch) : i = j
  BY DEF Awaited
<1>2. /\ WaitsIn(batch') # {} => WaitsIn(batch) # {}
      /\ \A i, j \in WaitsIn(batch') : i = j
  <2>1. CASE batch' = batch
    BY <1>1, <2>1
  <2>2. CASE batch' = <<>>
    BY <2>2 DEF WaitsIn
  <2>3. CASE batch # <<>> /\ batch' = Tail(batch)
    <3>1. \A i \in WaitsIn(batch') : i \in Nat /\ i + 1 \in WaitsIn(batch)
      BY <2>3, TailWaits
    <3> QED  BY <1>1, <3>1
  <2> QED  BY <2>1, <2>2, <2>3 DEF WaitFits
<1>3. /\ pc'["manager"] \in {"listen", "out"} => batch' = <<>>
      /\ kq'.timer = "wait" => kq.timer = "wait" /\ (alive' = "closed" => alive = "closed")
      /\ armed /\ ~armed' => kq'.timer # "wait" /\ WaitsIn(batch') = {}
      /\ pc'[a] \in Arming => pc[a] \in Arming \/ ~armed
  BY DEF WaitFits
<1>4. \A b \in Actors : b # a => pc'[b] = pc[b]
  BY DEF Moves
<1>5. kq'.timer = "wait" \/ WaitsIn(batch') # {} => armed' /\ \A b \in Actors : pc'[b] \notin Arming
  BY <1>1, <1>2, <1>3, <1>4
<1> QED  BY <1>1, <1>2, <1>3, <1>5

\* All of it
LEMMA TurnKeeps ==
    ASSUME TurnInv, NEW a \in Actors, Moves(a), scene' = scene, TokenFits(a), HeldFits(a), BoxFits(a),
           ArmFits(a), WaitFits(a), Types', Kept', Early', Ending'
    PROVE  TurnInv'
<1>1. Token' /\ Held' /\ Boxed' /\ Armed'
  BY TokenKeeps, HeldKeeps, BoxKeeps, ArmKeeps DEF TurnInv
<1>2. Awaited'
  BY WaitKeeps DEF TurnInv, Types
<1> QED  BY <1>1, <1>2 DEF TurnInv

-----------------------------------------------------------------------------
(* The pool's threads.                                                     *)

\* A thread with work to do: the spawn is through, and the runtime has not
\* finished stopping
LEMMA WorkerActs ==
    ASSUME TurnInv, NEW w \in Workers, pc[w] # "idle" \/ pool # 0
    PROVE  /\ w \in Actors /\ w \notin {"manager", "spawner", "canceller", "closer"}
           /\ pc["spawner"] = "done" /\ pc["closer"] \in {"idle", "close", "swap", "join", "drain"}
           /\ {"manager", "spawner", "canceller", "closer"} \subseteq Actors /\ Workers \subseteq Actors
<1>1. w \in Actors /\ w \notin {"manager", "spawner", "canceller", "closer"}
      /\ {"manager", "spawner", "canceller", "closer"} \subseteq Actors /\ Workers \subseteq Actors
  BY ParksAssumption DEF Actors
<1>2. pc["spawner"] = "done"
  BY DEF TurnInv, Early
<1>3. pc["closer"] \in {"idle", "close", "swap", "join", "drain"}
  BY DEF TurnInv, Types, CloserPc, Ending
<1> QED  BY <1>1, <1>2, <1>3

WorkerTypes(w) ==
    /\ pc'[w] \in WorkerPc
    /\ parked' \in BOOLEAN /\ armed' \in BOOLEAN /\ held' \in BOOLEAN
    /\ word' \in Nat /\ ran' \in Nat /\ kq' \in [watch : BOOLEAN, timer : Timers, tout : Nat]

\* What such a thread does leaves the manager and the runtime as they are
LEMMA WorkerKeeps ==
    ASSUME TurnInv, NEW w \in Workers, pc[w] # "idle" \/ pool # 0, Moves(w),
           UNCHANGED <<scene, handle, closed, alive, batch, deaths>>, WorkerTypes(w),
           TokenFits(w), HeldFits(w), BoxFits(w), ArmFits(w), WaitFits(w),
           \A x \in Workers : x # w /\ x \in pins => x \in pins',
           pc'[w] \in ParkPc => w \in pins'
    PROVE  TurnInv'
<1>1. /\ w \in Actors /\ w \notin {"manager", "spawner", "canceller", "closer"}
      /\ pc["spawner"] = "done" /\ pc["closer"] \in {"idle", "close", "swap", "join", "drain"}
      /\ {"manager", "spawner", "canceller", "closer"} \subseteq Actors /\ Workers \subseteq Actors
  BY WorkerActs
<1>2. /\ pc'["manager"] = pc["manager"] /\ pc'["spawner"] = pc["spawner"]
      /\ pc'["canceller"] = pc["canceller"] /\ pc'["closer"] = pc["closer"]
      /\ \A x \in Workers : x # w => pc'[x] = pc[x]
  BY <1>1 DEF Moves
<1>3. Types'
  BY <1>2 DEF TurnInv, Types, WorkerTypes
<1>4. Kept'
  BY <1>2 DEF TurnInv, Kept
<1>5. Early'
  BY <1>1, <1>2 DEF Early
<1>6. Ending'
  BY <1>1, <1>2 DEF TurnInv, Ending
<1> QED  BY <1>1, <1>3, <1>4, <1>5, <1>6, TurnKeeps

\* A thread that has the turn keeps it
LEMMA RunOn ==
    ASSUME TurnInv, NEW w \in Workers, Moves(w), pc[w] \in HoldPc, pc'[w] \in HoldPc, pc'[w] \in WorkerPc,
           pc'[w] # "lost", scene.kind = "once" => pc'[w] # "rearm",
           UNCHANGED <<scene, parked, armed, held, pins, handle, pool, closed, alive, batch, deaths>>,
           word' \in Nat, ran' \in Nat, kq' \in [watch : BOOLEAN, timer : Timers, tout : Nat],
           kq'.timer = "wait" => kq.timer = "wait",
           pc'[w] \in InRun => task' = "run", pc'[w] \in ParkPc => pc[w] \in ParkPc
    PROVE  TurnInv'
<1>1. w \in Actors /\ pc[w] # "idle" /\ w \notin {"manager", "canceller", "spawner"}
  BY ParksAssumption DEF HoldPc, InRun, Actors
<1>2. Holds(w) /\ ~parked /\ ~armed /\ pool = 0 /\ held
  BY <1>1 DEF Holds, TurnInv, Token, Held
<1>3. pc'[w] \notin Arming
  BY DEF HoldPc, InRun, Arming
<1>4. TokenFits(w) /\ HeldFits(w)
  BY <1>2 DEF TokenFits, HeldFits, Sees
<1>5. BoxFits(w)
  BY <1>2 DEF BoxFits
<1>6. ArmFits(w)
  BY <1>3, <1>2 DEF ArmFits, Arming
<1>7. WaitFits(w)
  <2>1. pc'["manager"] = pc["manager"]
    BY <1>1 DEF Moves, Actors
  <2> QED  BY <1>3, <2>1 DEF WaitFits, TurnInv, Awaited
<1>8. WorkerTypes(w)
  BY DEF WorkerTypes, TurnInv, Types
<1>9. pc'[w] \in ParkPc => w \in pins'
  BY DEF TurnInv, Kept
<1> QED  BY <1>1, <1>4, <1>5, <1>6, <1>7, <1>8, <1>9, WorkerKeeps

\* A thread is done with the turn, and gives the reference back if it had one to
\* give
LEMMA RunEnd ==
    ASSUME TurnInv, NEW w \in Workers, Moves(w), pc[w] \in HoldPc, pc'[w] \in {"idle", "unpin"},
           UNCHANGED <<scene, parked, armed, word, pins, handle, pool, closed, kq, alive, batch, deaths, ran>>,
           held' \in {held, FALSE}, pc'[w] = "unpin" => pc[w] \in ParkPc
    PROVE  TurnInv'
<1>1. w \in Actors /\ pc[w] # "idle" /\ w \notin {"manager", "canceller", "spawner"}
  BY ParksAssumption DEF HoldPc, InRun, Actors
<1>2. Holds(w) /\ ~parked /\ ~armed /\ pool = 0 /\ held
  BY <1>1 DEF Holds, TurnInv, Token, Held
<1>3. pc'[w] \notin Arming /\ pc'[w] \notin HoldPc /\ pc'[w] \notin InRun
  BY DEF HoldPc, InRun, Arming
<1>4. TokenFits(w) /\ HeldFits(w)
  BY <1>2, <1>3 DEF TokenFits, HeldFits, Sees
<1>5. BoxFits(w)
  BY <1>2, <1>3 DEF BoxFits
<1>6. ArmFits(w)
  BY <1>3, <1>2 DEF ArmFits, Arming
<1>7. WaitFits(w)
  <2>1. pc'["manager"] = pc["manager"]
    BY <1>1 DEF Moves, Actors
  <2> QED  BY <1>3, <2>1 DEF WaitFits, TurnInv, Awaited
<1>8. WorkerTypes(w)
  BY ZenonT(30) DEF WorkerTypes, TurnInv, Types, WorkerPc
<1>9. pc'[w] \in ParkPc => w \in pins'
  BY DEF TurnInv, Kept, ParkPc
<1> QED  BY <1>1, <1>4, <1>5, <1>6, <1>7, <1>8, <1>9, WorkerKeeps

\* A thread without the turn goes about its watches
LEMMA LookOn ==
    ASSUME TurnInv, NEW w \in Workers, Moves(w), pc[w] # "idle",
           pc'[w] \in {"watch", "check", "unpark", "unpin", "idle"},
           UNCHANGED <<scene, task, parked, armed, word, held, handle, pool, closed, alive, batch, deaths, ran>>,
           kq' \in [watch : BOOLEAN, timer : Timers, tout : Nat], kq'.timer = "wait" => kq.timer = "wait",
           \A x \in Workers : x # w /\ x \in pins => x \in pins', pc'[w] # "idle" => w \in pins'
    PROVE  TurnInv'
<1>1. w \in Actors /\ w \notin {"manager", "canceller", "spawner"}
  BY ParksAssumption DEF Actors
<1>2. pc'[w] \notin Arming /\ pc'[w] \notin HoldPc /\ pc'[w] \notin InRun /\ pc'[w] \in WorkerPc
  BY DEF HoldPc, InRun, Arming, WorkerPc
<1>3. TokenFits(w)
  BY <1>2 DEF TokenFits, Sees, TurnInv, Token
<1>4. HeldFits(w)
  BY <1>2 DEF HeldFits, TurnInv, Held
<1>5. BoxFits(w)
  BY <1>2 DEF BoxFits, TurnInv, Boxed
<1>6. ArmFits(w)
  BY <1>2 DEF ArmFits, Arming, InRun
<1>7. WaitFits(w)
  <2>1. pc'["manager"] = pc["manager"]
    BY <1>1 DEF Moves, Actors
  <2> QED  BY <1>2, <2>1 DEF WaitFits, TurnInv, Awaited
<1>8. WorkerTypes(w)
  BY <1>2 DEF WorkerTypes, TurnInv, Types
<1>9. pc'[w] \in ParkPc => w \in pins'
  BY DEF ParkPc
<1> QED  BY <1>1, <1>3, <1>4, <1>5, <1>6, <1>7, <1>8, <1>9, WorkerKeeps

\* The queue with one registration changed
LEMMA Registered ==
    ASSUME kq \in [watch : BOOLEAN, timer : Timers, tout : Nat]
    PROVE  /\ \A n \in Nat : /\ [kq EXCEPT !["tout"] = n] \in [watch : BOOLEAN, timer : Timers, tout : Nat]
                             /\ [kq EXCEPT !["tout"] = n].timer = kq.timer
           /\ \A t \in Timers : /\ [kq EXCEPT !["timer"] = t] \in [watch : BOOLEAN, timer : Timers, tout : Nat]
                                /\ [kq EXCEPT !["timer"] = t].timer = t
           /\ \A b \in BOOLEAN : /\ [kq EXCEPT !["watch"] = b] \in [watch : BOOLEAN, timer : Timers, tout : Nat]
                                 /\ [kq EXCEPT !["watch"] = b].timer = kq.timer
BY DEF Timers

\* The steps of a run that change nothing of where the turn is
LEMMA RunTurn ==
    ASSUME TurnInv, DOMAIN pc = Actors, NEW w \in Workers,
           Claim(w) \/ Begin(w) \/ TimeRun(w) \/ ArmTimeout(w) \/ Untime(w) \/ Settle(w) \/ After(w) \/ Fell(w)
    PROVE  TurnInv'
<1> USE DEF slotVars, queueVars, CloseAndRelease
<1>1. w \in Actors /\ Workers \subseteq Actors
  BY DEF Actors
<1>2. /\ word \in Nat /\ ran \in Nat /\ held \in BOOLEAN
      /\ kq \in [watch : BOOLEAN, timer : Timers, tout : Nat]
  BY DEF TurnInv, Types
<1>3. pc[w] \in InRun => task = "run"
  BY DEF TurnInv, Boxed
<1>4. CASE Claim(w)
  <2>1. /\ Moves(w) /\ pc[w] = "claim"
        /\ UNCHANGED <<scene, parked, armed, word, held, pins, handle, pool, closed, kq, alive, batch, deaths, ran>>
        /\ \/ pc'[w] = "begin" /\ task' = "run"
           \/ pc'[w] = "idle"
    BY <1>1, <1>4, GoMoves DEF Claim
  <2>2. CASE pc'[w] = "begin"
    BY <1>2, <2>1, <2>2, RunOn DEF HoldPc, InRun, WorkerPc, ParkPc
  <2>3. CASE pc'[w] = "idle"
    BY <1>2, <2>1, <2>3, RunEnd DEF HoldPc
  <2> QED  BY <2>1, <2>2, <2>3
<1>5. CASE Begin(w)
  <2>1. /\ Moves(w) /\ pc[w] = "begin"
        /\ UNCHANGED <<scene, parked, armed, word, pins, handle, pool, closed, kq, alive, batch, deaths>>
        /\ \/ pc'[w] \in {"time", "step"} /\ UNCHANGED <<task, held>> /\ ran' \in {ran, ran + 1}
           \/ pc'[w] = "idle" /\ held' = FALSE /\ ran' = ran
    BY <1>1, <1>5, GoMoves DEF Begin
  <2>2. CASE pc'[w] \in {"time", "step"}
    <3>1. UNCHANGED <<task, held>> /\ ran' \in Nat
      BY <1>2, <2>1, <2>2
    <3> QED  BY <1>2, <1>3, <2>1, <2>2, <3>1, RunOn DEF HoldPc, InRun, WorkerPc, ParkPc
  <2>3. CASE pc'[w] = "idle"
    BY <1>2, <2>1, <2>3, RunEnd, ZenonT(30) DEF HoldPc, InRun
  <2> QED  BY <2>1, <2>2, <2>3
<1>6. CASE TimeRun(w) \/ ArmTimeout(w) \/ Untime(w)
  <2>1. /\ Moves(w) /\ pc[w] \in InRun /\ pc'[w] \in {"timer", "step", "settle", "fell"}
        /\ UNCHANGED <<scene, task, parked, armed, held, pins, handle, pool, closed, alive, batch, deaths, ran>>
        /\ word' \in Nat
    BY <1>1, <1>2, <1>6, GoMoves DEF TimeRun, ArmTimeout, Untime, Register, InRun
  <2>2. kq' \in {kq, [kq EXCEPT !["tout"] = word], [kq EXCEPT !["tout"] = 0]}
    BY <1>6 DEF TimeRun, ArmTimeout, Untime, Register, Unregister
  <2>3. kq' \in [watch : BOOLEAN, timer : Timers, tout : Nat] /\ kq'.timer = kq.timer
    BY <1>2, <2>2, Registered
  <2> QED  BY <1>2, <1>3, <2>1, <2>3, RunOn DEF HoldPc, InRun, WorkerPc, ParkPc
<1>7. CASE Settle(w) \/ After(w) \/ Fell(w)
  <2>1. /\ Moves(w) /\ pc[w] \in {"settle", "after", "fell"}
        /\ UNCHANGED <<scene, parked, armed, word, pins, handle, pool, closed, kq, alive, batch, deaths, ran>>
        /\ \/ pc'[w] \in {"after", "rearm"} /\ UNCHANGED <<task, held>> /\ (pc'[w] = "rearm" => Repeats)
           \/ pc'[w] = "idle" /\ held' = FALSE
    BY <1>1, <1>7, GoMoves DEF Settle, After, Fell
  <2>2. CASE pc'[w] \in {"after", "rearm"}
    <3>1. UNCHANGED <<task, held>> /\ (pc'[w] = "rearm" => Repeats)
      BY <2>1, <2>2
    <3> QED  BY <1>2, <1>3, <2>1, <2>2, <3>1, RunOn DEF HoldPc, InRun, WorkerPc, ParkPc, Repeats
  <2>3. CASE pc'[w] = "idle"
    BY <1>2, <2>1, <2>3, RunEnd, ZenonT(30) DEF HoldPc, InRun
  <2> QED  BY <2>1, <2>2, <2>3
<1> QED  BY <1>4, <1>5, <1>6, <1>7

\* A thread takes the task's entry off the queue, parks the task, or puts a repeat
\* in its wait
LEMMA PassTurn ==
    ASSUME TurnInv, DOMAIN pc = Actors, NEW w \in Workers, Pop(w) \/ Step(w) \/ Rearm(w)
    PROVE  TurnInv'
<1> USE DEF slotVars, queueVars
<1>1. w \in Actors /\ Workers \subseteq Actors /\ w \notin {"manager", "canceller", "spawner"}
      /\ "manager" \in Actors
  BY ParksAssumption DEF Actors
<1>2. /\ word \in Nat /\ ran \in Nat /\ held \in BOOLEAN /\ armed \in BOOLEAN /\ parked \in BOOLEAN
      /\ kq \in [watch : BOOLEAN, timer : Timers, tout : Nat]
  BY DEF TurnInv, Types
<1>3. CASE Pop(w)
  <2>1. /\ Moves(w) /\ pc[w] = "idle" /\ pc'[w] = "claim" /\ pool > 0 /\ pool' = pool - 1
        /\ UNCHANGED <<scene, task, parked, armed, word, held, pins, handle, closed, kq, alive, batch, deaths, ran>>
        /\ pc'["manager"] = pc["manager"]
    BY <1>1, <1>3, GoMoves DEF Pop, Moves
  <2>2. pool = 1 /\ pool' = 0 /\ ~parked /\ ~armed /\ held
    BY <2>1 DEF TurnInv, Token, Held
  <2>3. pc'[w] \notin Arming /\ pc'[w] \notin InRun /\ pc'[w] \in WorkerPc /\ pc'[w] \notin ParkPc
    BY <2>1 DEF Arming, InRun, WorkerPc, ParkPc
  <2>4. TokenFits(w) /\ HeldFits(w)
    BY <2>1, <2>2 DEF TokenFits, HeldFits, Sees
  <2>5. BoxFits(w) /\ ArmFits(w)
    BY <2>1, <2>2, <2>3 DEF BoxFits, ArmFits
  <2>6. WaitFits(w)
    BY <2>1, <2>2, <2>3 DEF WaitFits, TurnInv, Awaited
  <2>7. WorkerTypes(w)
    BY <1>2, <2>1, <2>3 DEF WorkerTypes
  <2> QED  BY <2>1, <2>2, <2>3, <2>4, <2>5, <2>6, <2>7, WorkerKeeps
<1>4. CASE Step(w)
  <2>1. /\ Moves(w) /\ pc[w] = "step" /\ pc'["manager"] = pc["manager"]
        /\ UNCHANGED <<scene, armed, word, held, handle, pool, closed, kq, alive, batch, deaths, ran>>
        /\ \/ /\ pc'[w] \in {"watch_timer", "watch"} /\ pins' = pins \cup {w}
              /\ task' = "slot" /\ parked' = TRUE
           \/ pc'[w] \in {"untime", "panicked"} /\ UNCHANGED <<task, parked, pins>>
    BY <1>1, <1>4, GoMoves DEF Step, Moves
  <2>2. /\ Holds(w) /\ task = "run"
    BY <2>1 DEF Holds, HoldPc, InRun, TurnInv, Boxed
  <2>3. ~parked /\ ~armed /\ pool = 0 /\ held
    BY <1>1, <2>2 DEF TurnInv, Token, Held
  <2>4. CASE pc'[w] \in {"untime", "panicked"}
    <3>1. UNCHANGED <<task, parked, pins>>
      BY <2>1, <2>4
    <3> QED  BY <1>2, <2>1, <2>2, <2>4, <3>1, RunOn DEF HoldPc, InRun, WorkerPc, ParkPc
  <2>5. CASE pc'[w] \in {"watch_timer", "watch"}
    <3>1. pins' = pins \cup {w} /\ task' = "slot" /\ parked' = TRUE
      BY <2>1, <2>5
    <3>2. pc'[w] \notin Arming /\ pc'[w] \notin HoldPc /\ pc'[w] \notin InRun /\ pc'[w] \in WorkerPc
      BY <2>5 DEF Arming, HoldPc, InRun, WorkerPc
    <3>3. TokenFits(w) /\ HeldFits(w)
      BY <2>1, <2>2, <2>3, <3>1, <3>2 DEF TokenFits, HeldFits, Sees
    <3>4. BoxFits(w) /\ ArmFits(w)
      BY <2>1, <2>2, <2>3, <2>5, <3>1, <3>2 DEF BoxFits, ArmFits
    <3>5. WaitFits(w)
      BY <2>1, <2>3, <3>2 DEF WaitFits, TurnInv, Awaited
    <3>6. WorkerTypes(w)
      BY <1>2, <2>1, <3>1, <3>2 DEF WorkerTypes
    <3> QED  BY <2>1, <3>1, <3>3, <3>4, <3>5, <3>6, WorkerKeeps
  <2> QED  BY <2>1, <2>4, <2>5
<1>5. CASE Rearm(w)
  <2>1. /\ Moves(w) /\ pc[w] = "rearm" /\ pc'[w] = "arm" /\ task' = "slot" /\ armed' = TRUE
        /\ UNCHANGED <<scene, parked, word, held, pins, handle, pool, closed, kq, alive, batch, deaths, ran>>
        /\ pc'["manager"] = pc["manager"]
    BY <1>1, <1>5, GoMoves DEF Rearm, Moves
  <2>2. Holds(w) /\ scene.kind # "once"
    BY <2>1 DEF Holds, HoldPc, InRun, TurnInv, Armed
  <2>3. ~parked /\ ~armed /\ pool = 0 /\ held
    BY <1>1, <2>2 DEF TurnInv, Token, Held
  <2>4. pc'[w] \notin HoldPc /\ pc'[w] \notin InRun /\ pc'[w] \in WorkerPc /\ pc'[w] \notin ParkPc
    BY <2>1 DEF HoldPc, InRun, WorkerPc, ParkPc
  <2>5. TokenFits(w) /\ HeldFits(w)
    BY <2>1, <2>2, <2>3, <2>4 DEF TokenFits, HeldFits, Sees
  <2>6. BoxFits(w) /\ ArmFits(w)
    BY <2>1, <2>2, <2>3, <2>4 DEF BoxFits, ArmFits
  <2>7. WaitFits(w)
    BY <2>1, <2>3 DEF WaitFits, TurnInv, Awaited
  <2>8. WorkerTypes(w)
    BY <1>2, <2>1, <2>4 DEF WorkerTypes
  <2> QED  BY <2>1, <2>4, <2>5, <2>6, <2>7, <2>8, WorkerKeeps
<1> QED  BY <1>3, <1>4, <1>5

\* A thread watches what its task waits for, checks for a cancel, and lets the
\* slot go
LEMMA WatchTurn ==
    ASSUME TurnInv, DOMAIN pc = Actors, NEW w \in Workers,
           WatchTimer(w) \/ Watch(w) \/ Check(w) \/ Unpin(w)
    PROVE  TurnInv'
<1> USE DEF slotVars, queueVars
<1>1. w \in Actors /\ Workers \subseteq Actors
  BY DEF Actors
<1>2. kq \in [watch : BOOLEAN, timer : Timers, tout : Nat]
  BY DEF TurnInv, Types
<1>3. pc[w] \in ParkPc => w \in pins
  BY DEF TurnInv, Kept
<1>4. CASE WatchTimer(w) \/ Watch(w) \/ Check(w)
  <2>1. /\ Moves(w) /\ pc[w] \in {"watch_timer", "watch", "check"}
        /\ pc'[w] \in {"watch", "check", "unpark", "unpin"}
        /\ UNCHANGED <<scene, task, parked, armed, word, held, pins, handle, pool, closed, alive, batch, deaths, ran>>
    BY <1>1, <1>4, GoMoves DEF WatchTimer, Watch, Check, Register
  <2>2. kq' \in {kq, [kq EXCEPT !["timer"] = "park"], [kq EXCEPT !["watch"] = TRUE]}
    BY <1>4 DEF WatchTimer, Watch, Check, Register
  <2>3. kq' \in [watch : BOOLEAN, timer : Timers, tout : Nat] /\ (kq'.timer = "wait" => kq.timer = "wait")
    BY <1>2, <2>2, Registered, ZenonT(30) DEF Timers
  <2> QED  BY <1>3, <2>1, <2>3, LookOn DEF ParkPc
<1>5. CASE Unpin(w)
  <2>1. /\ Moves(w) /\ pc[w] = "unpin" /\ pc'[w] = "idle" /\ pins' = pins \ {w}
        /\ UNCHANGED <<scene, task, parked, armed, word, held, handle, pool, closed, kq, alive, batch, deaths, ran>>
    BY <1>1, <1>5, GoMoves DEF Unpin
  <2> QED  BY <1>2, <2>1, LookOn
<1> QED  BY <1>4, <1>5

-----------------------------------------------------------------------------
(* Taking a park down, for whoever comes first.                            *)

TakeDownPc == {"unpark", "unwatch", "take_down", "let_go"}

\* Whoever takes a park down: the spawn is through
LEMMA TakerActs ==
    ASSUME TurnInv, NEW a \in Actors, pc[a] \in TakeDownPc
    PROVE  /\ pc["spawner"] = "done" /\ a # "spawner"
           /\ a \in Workers \/ a \in {"manager", "canceller", "closer"}
<1>1. a # "spawner"
  BY DEF TurnInv, Types, SpawnerPc, TakeDownPc
<1>2. a \in Workers \/ a \in {"manager", "canceller", "closer"}
  BY <1>1 DEF Actors
<1>3. pc["spawner"] = "done"
  BY <1>2 DEF TurnInv, Early, Kept, TakeDownPc
<1> QED  BY <1>1, <1>2, <1>3

\* What it does leaves the rest as it is
LEMMA TakerKeeps ==
    ASSUME TurnInv, NEW a \in Actors, pc[a] \in TakeDownPc, Moves(a), scene \in Scenes,
           pc'[a] \in TakeDownPc \cup {Onward(a)},
           UNCHANGED <<scene, armed, word, pins, handle, pool, closed, alive, batch, deaths, ran>>,
           parked' \in BOOLEAN, held' \in BOOLEAN,
           kq' \in [watch : BOOLEAN, timer : Timers, tout : Nat], kq'.timer = "wait" => kq.timer = "wait",
           TokenFits(a), HeldFits(a), BoxFits(a)
    PROVE  TurnInv'
<1>1. /\ pc["spawner"] = "done" /\ a # "spawner"
      /\ a \in Workers \/ a \in {"manager", "canceller", "closer"}
      /\ {"manager", "spawner", "canceller", "closer"} \subseteq Actors /\ Workers \subseteq Actors
      /\ "manager" \notin Workers /\ "spawner" \notin Workers /\ "canceller" \notin Workers /\ "closer" \notin Workers
  BY TakerActs, ParksAssumption DEF Actors
<1>2. /\ a \in Workers => pc'[a] \in TakeDownPc \cup {"unpin"}
      /\ a = "manager" => pc'[a] \in TakeDownPc \cup {IF alive = "closed" THEN "out" ELSE "handle"}
      /\ a = "canceller" => pc'[a] \in TakeDownPc \cup {"done"}
      /\ a = "closer" => pc'[a] \in TakeDownPc \cup {"stopped"}
  BY <1>1 DEF Onward
<1>3. \A b \in Actors : b # a => pc'[b] = pc[b]
  BY DEF Moves
<1>4. Types'
  <2>1. \A w \in Workers : pc'[w] \in WorkerPc
    BY <1>1, <1>2, <1>3 DEF TurnInv, Types, WorkerPc, TakeDownPc
  <2>2. /\ pc'["manager"] \in ManagerPc /\ pc'["spawner"] \in SpawnerPc
        /\ pc'["canceller"] \in CancellerPc /\ pc'["closer"] \in CloserPc
    BY <1>1, <1>2, <1>3 DEF TurnInv, Types, ManagerPc, CancellerPc, CloserPc, TakeDownPc
  <2> QED  BY <2>1, <2>2 DEF TurnInv, Types
<1>5. Kept'
  BY <1>1, <1>2, <1>3 DEF TurnInv, Kept, ParkPc, TakeDownPc
<1>6. Early'
  BY <1>1, <1>3 DEF Early
<1>7. Ending'
  <2>1. CASE a \in Workers
    <3>1. pc["closer"] \in {"idle", "close", "swap", "join", "drain"}
      BY <2>1, WorkerActs DEF TakeDownPc
    <3> QED  BY <1>1, <1>3, <2>1, <3>1 DEF TurnInv, Ending
  <2>2. CASE a = "manager"
    <3>1. pc["closer"] \in {"idle", "close", "swap", "join"}
      BY <2>2 DEF TurnInv, Types, Ending, TakeDownPc, CloserPc
    <3>2. alive = "closed" => deaths > Limit
      BY <2>2 DEF TurnInv, Ending, TakeDownPc
    <3> QED  BY <1>1, <1>2, <1>3, <2>2, <3>1, <3>2 DEF TurnInv, Ending, TakeDownPc
  <2>3. CASE a = "canceller"
    BY <1>1, <1>3, <2>3 DEF TurnInv, Ending
  <2>4. CASE a = "closer"
    BY <1>1, <1>2, <1>3, <2>4 DEF TurnInv, Ending, TakeDownPc
  <2> QED  BY <1>1, <2>1, <2>2, <2>3, <2>4
<1>8. pc'[a] \notin Arming /\ pc'[a] \notin {"rearm", "lost"}
  BY <1>1, <1>2 DEF Arming, TakeDownPc
<1>9. ArmFits(a)
  BY <1>8 DEF ArmFits, Arming
<1>10. WaitFits(a)
  <2>1. Lasting /\ a = "manager" => alive # "closed"
    BY ParksAssumption DEF TurnInv, Ending, Types, TakeDownPc, Lasting
  <2>2. pc'["manager"] \in {"listen", "out"} /\ Lasting => a # "manager"
    BY <1>1, <1>2, <2>1 DEF TakeDownPc
  <2>3. pc'["manager"] \in {"listen", "out"} /\ Lasting => batch' = <<>>
    BY <1>1, <1>3, <2>2 DEF TurnInv, Awaited
  <2> QED  BY <1>8, <2>3 DEF WaitFits
<1> QED  BY <1>4, <1>5, <1>6, <1>7, <1>9, <1>10, TurnKeeps

\* The queue with a park's registrations taken off
LEMMA Unwatched ==
    ASSUME kq \in [watch : BOOLEAN, timer : Timers, tout : Nat],
           NEW k \in {kq, [kq EXCEPT !.watch = FALSE, !.timer = IF scene.timed THEN "none" ELSE @],
                      [kq EXCEPT !.timer = IF scene.timed THEN "none" ELSE @], [kq EXCEPT !.watch = FALSE]}
    PROVE  k \in [watch : BOOLEAN, timer : Timers, tout : Nat] /\ (k.timer = "wait" => kq.timer = "wait")
BY ZenonT(30) DEF Timers

\* unpark, unwatch_park and take_down
LEMMA TakeDownTurn ==
    ASSUME TurnInv, DOMAIN pc = Actors, scene \in Scenes, NEW a \in Actors, TakeDownStep(a)
    PROVE  TurnInv'
<1> USE DEF slotVars, queueVars
<1>1. /\ parked \in BOOLEAN /\ held \in BOOLEAN
      /\ kq \in [watch : BOOLEAN, timer : Timers, tout : Nat]
  BY DEF TurnInv, Types
<1>2. /\ Onward(a) \notin HoldPc /\ Onward(a) \notin InRun
      /\ "unwatch" \notin InRun /\ "take_down" \notin InRun /\ "let_go" \notin InRun
      /\ {"unwatch", "take_down", "let_go"} \subseteq HoldPc
  <2>1. pc[a] \in TakeDownPc
    BY DEF TakeDownStep, Unpark, Unwatch, TakeDown, LetGo, TakeDownPc
  <2>2. Onward(a) \in {"unpin", "out", "handle", "done", "stopped"}
    BY <2>1, TakerActs DEF Onward
  <2> QED  BY <2>2 DEF HoldPc, InRun
<1>3. CASE Unpark(a)
  <2>1. /\ Moves(a) /\ pc[a] = "unpark" /\ parked' = FALSE /\ pc'[a] = IF parked THEN "unwatch" ELSE Onward(a)
        /\ UNCHANGED <<scene, task, armed, word, held, pins, handle, pool, closed, kq, alive, batch, deaths, ran>>
    BY <1>3, GoMoves DEF Unpark
  <2>2. parked => ~armed /\ pool # 1 /\ held
    BY DEF TurnInv, Token, Held
  <2>3. TokenFits(a)
    BY <1>2, <2>1, <2>2 DEF TokenFits, Sees, TurnInv, Token
  <2>4. HeldFits(a)
    BY <1>2, <2>1, <2>2 DEF HeldFits, TurnInv, Held
  <2>5. BoxFits(a)
    BY <1>2, <2>1 DEF BoxFits
  <2> QED  BY <1>1, <2>1, <2>3, <2>4, <2>5, TakerKeeps, ZenonT(30) DEF TakeDownPc
<1>4. CASE Unwatch(a) \/ TakeDown(a)
  <2>1. /\ Moves(a) /\ pc[a] \in {"unwatch", "take_down"} /\ pc'[a] \in {"take_down", "let_go"}
        /\ UNCHANGED <<scene, parked, armed, word, held, pins, handle, pool, closed, alive, batch, deaths, ran>>
    BY <1>4, GoMoves DEF Unwatch, TakeDown
  <2>2. kq' \in {kq, [kq EXCEPT !.watch = FALSE, !.timer = IF scene.timed THEN "none" ELSE @]}
    BY <1>4 DEF Unwatch, TakeDown
  <2>3. kq' \in [watch : BOOLEAN, timer : Timers, tout : Nat] /\ (kq'.timer = "wait" => kq.timer = "wait")
    BY <1>1, <2>2, Unwatched, ZenonT(30)
  <2>4. Holds(a)
    BY <1>2, <2>1 DEF Holds
  <2>5. ~parked /\ ~armed /\ pool = 0 /\ (held \/ a \in {"canceller", "spawner"})
    BY <2>4 DEF TurnInv, Token, Held
  <2>6. TokenFits(a) /\ HeldFits(a)
    BY <2>1, <2>4, <2>5 DEF TokenFits, HeldFits, Sees
  <2>7. BoxFits(a)
    BY <1>2, <2>1, <2>4, <2>5 DEF BoxFits
  <2> QED  BY <1>1, <2>1, <2>3, <2>6, <2>7, TakerKeeps DEF TakeDownPc
<1>5. CASE LetGo(a)
  <2>1. /\ Moves(a) /\ pc[a] = "let_go" /\ pc'[a] = Onward(a) /\ held' = FALSE
        /\ UNCHANGED <<scene, task, parked, armed, word, pins, handle, pool, closed, kq, alive, batch, deaths, ran>>
    BY <1>5, GoMoves DEF LetGo
  <2>2. Holds(a)
    BY <1>2, <2>1 DEF Holds
  <2>3. ~parked /\ ~armed /\ pool = 0
    BY <2>2 DEF TurnInv, Token
  <2>4. TokenFits(a) /\ HeldFits(a)
    BY <1>2, <2>1, <2>2, <2>3 DEF TokenFits, HeldFits, Sees
  <2>5. BoxFits(a)
    BY <1>2, <2>1, <2>3 DEF BoxFits
  <2> QED  BY <1>1, <2>1, <2>4, <2>5, TakerKeeps, ZenonT(30) DEF TakeDownPc
<1> QED  BY <1>3, <1>4, <1>5 DEF TakeDownStep

-----------------------------------------------------------------------------
(* A wait between runs, or before the first.                               *)

WaitPc == {"arm", "disarm", "lost"}

\* What whoever arms a wait does leaves the rest as it is
LEMMA ArmerRest ==
    ASSUME TurnInv, NEW a \in Actors, pc[a] \in WaitPc, Moves(a),
           pc'[a] \in {"disarm", "lost", IF a = "spawner" THEN "done" ELSE "idle"},
           a = "spawner" /\ pc'[a] # "done" => kq' = kq /\ (held => held'),
           UNCHANGED <<scene, parked, word, pins, handle, pool, closed, alive, batch, deaths, ran>>,
           armed' \in BOOLEAN, held' \in BOOLEAN, kq' \in [watch : BOOLEAN, timer : Timers, tout : Nat]
    PROVE  a \in Workers \cup {"spawner"} /\ Types' /\ Kept' /\ Early' /\ Ending'
<1>1. /\ a \in Workers \cup {"spawner"} /\ "spawner" \notin Workers /\ "manager" \notin Workers
      /\ "canceller" \notin Workers /\ "closer" \notin Workers
      /\ {"manager", "spawner", "canceller", "closer"} \subseteq Actors /\ Workers \subseteq Actors
  BY ParksAssumption DEF TurnInv, Types, ManagerPc, CancellerPc, CloserPc, WaitPc, Actors
<1>2. \A b \in Actors : b # a => pc'[b] = pc[b]
  BY DEF Moves
<1>3. /\ pc'["manager"] = pc["manager"] /\ pc'["canceller"] = pc["canceller"] /\ pc'["closer"] = pc["closer"]
      /\ a # "spawner" => pc'["spawner"] = pc["spawner"] /\ pc'["spawner"] = "done"
      /\ a = "spawner" => pc["spawner"] # "done" /\ \A w \in Workers : pc'[w] = pc[w]
      /\ \A w \in Workers : w # a => pc'[w] = pc[w]
  BY <1>1, <1>2 DEF TurnInv, Early, WaitPc
<1>4. Types'
  BY <1>1, <1>3 DEF TurnInv, Types, WorkerPc, SpawnerPc
<1>5. Kept'
  BY <1>1, <1>3 DEF TurnInv, Kept, ParkPc
<1>6. Early'
  BY <1>1, <1>3 DEF TurnInv, Early
<1>7. Ending'
  <2>1. CASE a \in Workers
    <3>1. pc["closer"] \in {"idle", "close", "swap", "join", "drain"}
      BY <2>1, WorkerActs DEF WaitPc
    <3> QED  BY <1>3, <3>1 DEF TurnInv, Ending
  <2>2. CASE a = "spawner"
    BY <1>3, <2>2 DEF TurnInv, Ending
  <2> QED  BY <1>1, <2>1, <2>2
<1> QED  BY <1>1, <1>4, <1>5, <1>6, <1>7

\* A repeat whose manager can die keeps its queue, so its wait is never refused
LEMMA NeverRefused ==
    ASSUME TurnInv, ScenesHold, scene \in Scenes, scene.kind # "series", alive # "up"
    PROVE  Guarded
BY ParksAssumption DEF TurnInv, Types, Ending, ScenesHold, Guarded

\* arm_timer and its refusal, and the end of a task that nothing is left to run
LEMMA WaitTurn ==
    ASSUME TurnInv, DOMAIN pc = Actors, scene \in Scenes, scene.kind # "series", ScenesHold,
           NEW a \in Actors, WaitStep(a)
    PROVE  TurnInv'
<1> USE DEF slotVars, queueVars
<1>1. /\ armed \in BOOLEAN /\ held \in BOOLEAN
      /\ kq \in [watch : BOOLEAN, timer : Timers, tout : Nat] /\ batch \in Seq(Events)
  BY DEF TurnInv, Types
<1>2. /\ {"arm", "disarm", "idle", "done"} \cap HoldPc = {} /\ "lost" \in HoldPc /\ "lost" \notin Arming
      /\ {"arm", "disarm", "lost", "idle", "done"} \cap InRun = {}
      /\ {"idle", "done"} \cap Arming = {} /\ {"arm", "disarm"} = Arming
  BY DEF HoldPc, InRun, Arming
<1>3. CASE ArmTimer(a)
  <2>1. /\ Moves(a) /\ pc[a] = "arm"
        /\ UNCHANGED <<scene, task, parked, armed, word, held, pins, handle, pool, closed, alive, batch, deaths, ran>>
        /\ \/ /\ alive # "closed" /\ kq' = [kq EXCEPT !["timer"] = "wait"]
              /\ pc'[a] = IF a = "spawner" THEN "done" ELSE "idle"
           \/ alive # "up" /\ kq' = kq /\ pc'[a] = "disarm"
    BY <1>3, GoMoves DEF ArmTimer, Register
  <2>2. kq' \in [watch : BOOLEAN, timer : Timers, tout : Nat]
    BY <1>1, <2>1, Registered DEF Timers
  <2>3. a \in Workers \cup {"spawner"} /\ Types' /\ Kept' /\ Early' /\ Ending'
    BY <1>1, <2>1, <2>2, ArmerRest DEF WaitPc
  <2>4. pc'[a] \notin HoldPc /\ pc'[a] \notin InRun /\ pc'[a] # "lost" /\ pc'[a] # "rearm" /\ pc[a] \in Arming
    BY <1>2, <2>1 DEF InRun
  <2>5. TokenFits(a)
    BY <2>1, <2>4 DEF TokenFits, Sees, TurnInv, Token
  <2>6. HeldFits(a)
    BY <2>1, <2>4 DEF HeldFits, TurnInv, Held
  <2>7. BoxFits(a)
    BY <2>1, <2>4 DEF BoxFits, TurnInv, Boxed
  <2>8. ArmFits(a)
    <3>1. scene.kind = "once" => a \notin Workers
      BY <2>1 DEF TurnInv, Armed
    <3> QED  BY <1>2, <2>1, <2>4, <3>1 DEF ArmFits
  <2>9. Awaited'
    <3>1. CASE kq' = kq
      <4>1. pc'["manager"] = pc["manager"]
        BY <2>1, <2>3, ParksAssumption DEF Moves, Actors
      <4>2. WaitFits(a)
        BY <2>1, <2>4, <3>1, <4>1 DEF WaitFits, TurnInv, Awaited
      <4> QED  BY <1>1, <2>1, <4>2, WaitKeeps DEF TurnInv
    <3>2. CASE alive # "closed" /\ kq' = [kq EXCEPT !["timer"] = "wait"]
              /\ pc'[a] = IF a = "spawner" THEN "done" ELSE "idle"
      <4> SUFFICES ASSUME Lasting
                   PROVE  /\ pc'["manager"] \in {"listen", "out"} => batch' = <<>>
                          /\ armed' /\ \A b \in Actors : pc'[b] \notin Arming
                          /\ WaitsIn(batch') = {} /\ alive' # "closed"
        BY <2>1 DEF Awaited, Lasting
      <4>1. Guarded /\ armed /\ \A b \in Actors : pc[b] \in Arming => b = a
        BY <2>4, <3>2 DEF Lasting, Guarded, TurnInv, Armed
      <4>2. WaitsIn(batch) = {}
        BY <2>4 DEF TurnInv, Awaited
      <4>3. pc'["manager"] = pc["manager"]
        BY <2>1, <2>3, ParksAssumption DEF Moves, Actors
      <4>4. \A b \in Actors : pc'[b] \notin Arming
        BY <1>2, <2>1, <3>2, <4>1 DEF Moves
      <4> QED  BY <2>1, <3>2, <4>1, <4>2, <4>3, <4>4 DEF TurnInv, Awaited
    <3> QED  BY <2>1, <3>1, <3>2
  <2>10. Token' /\ Held' /\ Boxed' /\ Armed'
    BY <2>1, <2>5, <2>6, <2>7, <2>8, TokenKeeps, HeldKeeps, BoxKeeps, ArmKeeps DEF TurnInv
  <2> QED  BY <2>3, <2>9, <2>10 DEF TurnInv
<1>4. CASE Disarm(a)
  <2>1. /\ Moves(a) /\ pc[a] = "disarm" /\ pc'[a] = "lost" /\ armed' = FALSE
        /\ UNCHANGED <<scene, task, parked, word, held, pins, handle, pool, closed, kq, alive, batch, deaths, ran>>
    BY <1>4, GoMoves DEF Disarm
  <2>2. a \in Workers \cup {"spawner"} /\ Types' /\ Kept' /\ Early' /\ Ending'
    BY <1>1, <2>1, ArmerRest, ZenonT(30) DEF WaitPc
  <2>3. Guarded /\ scene.kind = "once" => a \notin Workers
    BY <2>1 DEF TurnInv, Armed
  <2>4. alive # "up" /\ Guarded
    BY <2>1, NeverRefused DEF TurnInv, Armed
  <2>5. /\ \A b \in Actors : pc[b] \in Arming => b = a
        /\ armed \/ (alive = "closed" /\ NoTurn)
        /\ a \in Workers => armed /\ held
    BY <1>2, <2>1, <2>4 DEF TurnInv, Armed
  <2>6. pc'["manager"] = pc["manager"]
    BY <2>1, <2>2, ParksAssumption DEF Moves, Actors
  <2>7. \A b \in Actors : b # a => ~Holds(b) /\ ~Holds(b)'
    BY <2>1, <2>5 DEF TurnInv, Token, NoTurn, Moves, Holds
  <2>8. pool = 0 /\ ~parked
    BY <2>5 DEF TurnInv, Token, NoTurn
  <2>9. Token'
    BY <2>1, <2>7, <2>8 DEF Token
  <2>10. Held'
    BY <2>1, <2>2, <2>5, <2>7, <2>8 DEF Held
  <2>11. BoxFits(a)
    BY <1>2, <2>1, <2>8 DEF BoxFits
  <2>12. Armed'
    <3>1. \A b \in Actors : pc'[b] \notin Arming
      BY <1>2, <2>1, <2>5 DEF Moves
    <3>2. scene.kind = "once" => \A w \in Workers : pc'[w] \notin {"rearm", "arm", "disarm", "lost"}
      BY <2>1, <2>3, <2>4 DEF TurnInv, Armed, Moves, Actors
    <3>3. Workers \subseteq Actors
      BY DEF Actors
    <3> QED  BY <2>1, <3>1, <3>2, <3>3 DEF Armed, Arming
  <2>13. WaitFits(a)
    BY <1>2, <2>1, <2>6 DEF WaitFits, TurnInv, Awaited
  <2>14. Boxed' /\ Awaited'
    BY <1>1, <2>1, <2>11, <2>13, BoxKeeps, WaitKeeps DEF TurnInv
  <2> QED  BY <2>2, <2>9, <2>10, <2>12, <2>14 DEF TurnInv
<1>5. CASE Lost(a)
  <2>1. /\ Moves(a) /\ pc[a] = "lost" /\ pc'[a] = (IF a = "spawner" THEN "done" ELSE "idle") /\ held' = FALSE
        /\ UNCHANGED <<scene, task, parked, armed, word, pins, handle, pool, closed, kq, alive, batch, deaths, ran>>
    BY <1>5, GoMoves DEF Lost
  <2>2. a \in Workers \cup {"spawner"} /\ Types' /\ Kept' /\ Early' /\ Ending'
    BY <1>1, <2>1, ArmerRest, ZenonT(30) DEF WaitPc
  <2>3. pc'[a] \notin HoldPc /\ pc'[a] \notin InRun /\ pc'[a] \notin {"rearm", "arm", "disarm", "lost"}
    BY <1>2, <2>1 DEF InRun
  <2>4. Holds(a)
    BY <1>2, <2>1 DEF Holds
  <2>5. ~parked /\ ~armed /\ pool = 0
    BY <2>4 DEF TurnInv, Token
  <2>6. TokenFits(a) /\ HeldFits(a)
    BY <2>1, <2>3, <2>4, <2>5 DEF TokenFits, HeldFits, Sees
  <2>7. BoxFits(a) /\ ArmFits(a)
    BY <2>1, <2>3, <2>5 DEF BoxFits, ArmFits, Arming
  <2>8. pc'["manager"] = pc["manager"]
    BY <2>1, <2>2, ParksAssumption DEF Moves, Actors
  <2>9. WaitFits(a)
    BY <2>1, <2>3, <2>5, <2>8 DEF WaitFits, TurnInv, Awaited, Arming
  <2> QED  BY <2>1, <2>2, <2>6, <2>7, <2>9, TurnKeeps
<1> QED  BY <1>3, <1>4, <1>5 DEF WaitStep

-----------------------------------------------------------------------------
(* What becomes of the turn in a step.                                     *)

\* It is left where it is
LEMMA LeavesTurn ==
    ASSUME TurnInv, NEW a \in Actors, pc'[a] \notin HoldPc, ~Holds(a) \/ ~armed,
           UNCHANGED <<task, parked, armed, held, pool>>, alive = "closed" => alive' = "closed"
    PROVE  TokenFits(a) /\ HeldFits(a) /\ BoxFits(a)
<1>1. TokenFits(a)
  BY DEF TokenFits, Sees, TurnInv, Token
<1>2. HeldFits(a)
  BY DEF HeldFits, TurnInv, Held
<1>3. BoxFits(a)
  BY DEF BoxFits, TurnInv, Boxed, HoldPc
<1> QED  BY <1>1, <1>2, <1>3

\* It is taken from the park
LEMMA TakesPark ==
    ASSUME TurnInv, NEW a \in Actors, pc'[a] \in HoldPc, pc'[a] \notin InRun,
           parked, ~parked', UNCHANGED <<task, armed, held, pool>>
    PROVE  TokenFits(a) /\ HeldFits(a) /\ BoxFits(a)
<1>1. ~armed /\ pool = 0 /\ held
  BY DEF TurnInv, Token, Held
<1>2. TokenFits(a) /\ HeldFits(a)
  BY <1>1 DEF TokenFits, HeldFits, Sees
<1> QED  BY <1>2 DEF BoxFits

\* It stays with whoever has it
LEMMA KeepsTurn ==
    ASSUME TurnInv, NEW a \in Actors, Holds(a), pc'[a] \in HoldPc, pc'[a] \notin InRun,
           UNCHANGED <<parked, armed, held, pool>>
    PROVE  TokenFits(a) /\ HeldFits(a) /\ BoxFits(a)
<1>1. ~armed /\ pool = 0 /\ ~parked /\ (held \/ a \in {"canceller", "spawner"})
  BY DEF TurnInv, Token, Held
<1>2. TokenFits(a) /\ HeldFits(a)
  BY <1>1 DEF TokenFits, HeldFits, Sees
<1> QED  BY <1>1, <1>2 DEF BoxFits

\* It is over, and the reference may go with it
LEMMA EndsTurn ==
    ASSUME TurnInv, NEW a \in Actors, Holds(a), pc'[a] \notin HoldPc, held' \in {held, FALSE},
           UNCHANGED <<parked, armed, pool>>
    PROVE  TokenFits(a) /\ HeldFits(a) /\ BoxFits(a)
<1>1. ~armed /\ pool = 0 /\ ~parked
  BY DEF TurnInv, Token
<1>2. TokenFits(a) /\ HeldFits(a)
  BY <1>1 DEF TokenFits, HeldFits, Sees
<1> QED  BY <1>1, <1>2 DEF BoxFits, HoldPc

\* It goes to the pool
LEMMA QueuesTurn ==
    ASSUME TurnInv, NEW a \in Actors, Holds(a), held, pc'[a] \notin HoldPc, pool' = pool + 1,
           UNCHANGED <<task, parked, armed, held>>
    PROVE  TokenFits(a) /\ HeldFits(a) /\ BoxFits(a)
<1>1. ~armed /\ pool = 0 /\ ~parked
  BY DEF TurnInv, Token
<1>2. TokenFits(a) /\ HeldFits(a)
  BY <1>1 DEF TokenFits, HeldFits, Sees
<1> QED  BY <1>1, <1>2 DEF BoxFits, HoldPc

-----------------------------------------------------------------------------
(* The manager.                                                            *)

\* While it is up, the runtime has not finished stopping
LEMMA ManagerActs ==
    ASSUME TurnInv, pc["manager"] # "out"
    PROVE  /\ pc["closer"] \in {"idle", "close", "swap", "join"}
           /\ pc["manager"] # "listen" => pc["spawner"] = "done"
           /\ {"manager", "spawner", "canceller", "closer"} \subseteq Actors /\ Workers \subseteq Actors
           /\ "manager" \notin Workers
<1>1. pc["closer"] \in {"idle", "close", "swap", "join"}
  BY DEF TurnInv, Types, Ending, CloserPc
<1>2. pc["manager"] # "listen" => pc["spawner"] = "done"
  BY DEF TurnInv, Early
<1> QED  BY <1>1, <1>2, ParksAssumption DEF Actors

\* The part of Ending that is about the manager
ManagerEnds ==
    /\ alive = "closed" =>
         \/ pc["manager"] = "out"
         \/ deaths > Limit /\ pc["manager"] \in {"orphan", "unpark", "unwatch", "take_down", "let_go"}
    /\ pc["manager"] = "orphan" => alive = "closed"
    /\ pc["manager"] \in {"dead", "recover", "recover_park", "recover_watch", "recover_wait"} => deaths > 0
    /\ pc["manager"] \in {"give_up", "orphan"} => deaths > Limit
    /\ pc["manager"] = "half" => batch # <<>>
    /\ deaths <= scene.faults
    /\ alive # "up" => scene.stop \/ deaths > Limit

\* What it does leaves the pool's threads and the runtime as they are
LEMMA ManagerRest ==
    ASSUME TurnInv, pc["manager"] # "out", Moves("manager"), pc'["manager"] \in ManagerPc,
           \/ pc["spawner"] = "done"
           \/ pc'["manager"] = "out" /\ UNCHANGED <<kq, batch, pool, parked, held, alive>>,
           UNCHANGED <<scene, word, pins, handle, closed, ran>>,
           parked' \in BOOLEAN, armed' \in BOOLEAN, held' \in BOOLEAN,
           alive' \in {"up", "down", "closed"}, deaths' \in Nat,
           kq' \in [watch : BOOLEAN, timer : Timers, tout : Nat], batch' \in Seq(Events), ManagerEnds'
    PROVE  Types' /\ Kept' /\ Early' /\ Ending'
<1>1. /\ pc["closer"] \in {"idle", "close", "swap", "join"} /\ "manager" \in Actors /\ "manager" \notin Workers
      /\ {"manager", "spawner", "canceller", "closer"} \subseteq Actors /\ Workers \subseteq Actors
  BY ManagerActs
<1>2. /\ pc'["spawner"] = pc["spawner"] /\ pc'["canceller"] = pc["canceller"] /\ pc'["closer"] = pc["closer"]
      /\ \A w \in Workers : pc'[w] = pc[w]
  BY <1>1 DEF Moves
<1>3. Types'
  BY <1>2 DEF TurnInv, Types
<1>4. Kept'
  BY <1>2 DEF TurnInv, Kept
<1>5. Early'
  BY <1>2 DEF TurnInv, Early
<1>6. Ending'
  BY <1>1, <1>2 DEF TurnInv, Ending, ManagerEnds
<1> QED  BY <1>3, <1>4, <1>5, <1>6

\* At work on an event, or on starting again
RecoverPc == {"dead", "recover", "recover_park", "recover_watch", "recover_wait"}
DutyPc == RecoverPc \cup
          {"fetched", "handle", "half", "queue", "fire", "misfire", "overdue", "overdue_parked",
           "overdue_end", "overdue_running"}

LEMMA DutyUp ==
    ASSUME TurnInv, pc["manager"] \in DutyPc
    PROVE  /\ alive # "closed" /\ pc["spawner"] = "done" /\ pc["manager"] # "out"
           /\ "manager" \in Actors /\ (pc["manager"] \in RecoverPc => ~Lasting)
<1>1. alive # "closed" /\ pc["manager"] # "out" /\ pc["manager"] # "listen"
  BY DEF TurnInv, Ending, DutyPc, RecoverPc
<1>2. pc["manager"] \in RecoverPc => ~Lasting
  BY DEF TurnInv, Types, Ending, Lasting, RecoverPc
<1> QED  BY <1>1, <1>2, ManagerActs

LEMMA DutyKeeps ==
    ASSUME TurnInv, pc["manager"] \in DutyPc, Moves("manager"),
           pc'["manager"] \in (DutyPc \ {"dead"}) \cup {"unpark", "take_down"},
           pc'["manager"] \in RecoverPc => pc["manager"] \in RecoverPc,
           UNCHANGED <<scene, armed, word, pins, handle, closed, alive, deaths, ran>>,
           parked' \in BOOLEAN, held' \in BOOLEAN,
           kq' \in [watch : BOOLEAN, timer : Timers, tout : Nat],
           Lasting /\ kq'.timer = "wait" => kq.timer = "wait",
           batch' = batch \/ (batch # <<>> /\ batch' = Tail(batch)), pc'["manager"] = "half" => batch' # <<>>,
           TokenFits("manager"), HeldFits("manager"), BoxFits("manager")
    PROVE  TurnInv'
<1>1. alive # "closed" /\ pc["spawner"] = "done" /\ pc["manager"] # "out" /\ "manager" \in Actors
      /\ "manager" \notin Workers
  BY DutyUp, ParksAssumption
<1>2. /\ pc'["manager"] \notin {"listen", "out", "orphan", "give_up"} /\ pc'["manager"] \notin Arming
      /\ pc'["manager"] \in ManagerPc
  BY DEF DutyPc, RecoverPc, Arming, ManagerPc
<1>3. batch' \in Seq(Events) /\ batch \in Seq(Events)
  BY TailWaits, ZenonT(30) DEF TurnInv, Types
<1>4. ManagerEnds'
  BY <1>1, <1>2 DEF ManagerEnds, TurnInv, Ending, RecoverPc
<1>5. ArmFits("manager")
  BY <1>1, <1>2 DEF ArmFits, Arming
<1>6. WaitFits("manager")
  BY <1>2 DEF WaitFits
<1>7. armed' \in BOOLEAN /\ alive' \in {"up", "down", "closed"} /\ deaths' \in Nat
  BY DEF TurnInv, Types
<1>8. Types' /\ Kept' /\ Early' /\ Ending'
  BY <1>1, <1>2, <1>3, <1>4, <1>7, ManagerRest
<1> QED  BY <1>1, <1>5, <1>6, <1>8, TurnKeeps

\* A wake, a timeout, and what becomes of the turn the manager took
LEMMA EventTurn ==
    ASSUME TurnInv, DOMAIN pc = Actors,
           \/ WakeParked \/ Half \/ Requeue \/ FireQueue \/ Misfire
           \/ TimedOut \/ Overdue \/ OverdueParked \/ OverdueEnd \/ OverdueRunning
    PROVE  TurnInv'
<1> USE DEF slotVars, queueVars, Handling
<1> DEFINE KQ == [watch : BOOLEAN, timer : Timers, tout : Nat]
<1>1. /\ parked \in BOOLEAN /\ held \in BOOLEAN /\ armed \in BOOLEAN /\ kq \in KQ
      /\ (parked => ~Gone) /\ "manager" \in Actors /\ "manager" \notin {"canceller", "spawner"}
  BY DEF TurnInv, Types, Held, Gone, Actors
<1>2. /\ {"half", "queue", "fire", "misfire", "overdue_parked", "overdue_end", "take_down"} \subseteq HoldPc
      /\ {"half", "queue", "fire", "misfire", "overdue_parked", "overdue_end", "take_down"} \cap InRun = {}
      /\ {"handle", "overdue", "overdue_running", "unpark"} \cap HoldPc = {}
  BY DEF HoldPc, InRun
<1>3. CASE WakeParked \/ Overdue
  <2>1. /\ Moves("manager") /\ pc["manager"] \in {"handle", "overdue"}
        /\ UNCHANGED <<scene, task, armed, word, held, pins, handle, pool, closed, kq, alive, deaths, ran>>
        /\ parked' = FALSE
        /\ \/ /\ parked /\ pc'["manager"] \in {"half", "overdue_parked"} /\ batch' = batch
              /\ pc'["manager"] = "half" => batch # <<>>
           \/ /\ ~parked /\ pc'["manager"] \in {"handle", "overdue_running"}
              /\ batch' = batch \/ (batch # <<>> /\ batch' = Tail(batch))
    <3>1. CASE WakeParked
      <4>1. parked' = FALSE
        BY <1>1, <3>1, ZenonT(30) DEF WakeParked
      <4> QED  BY <1>1, <3>1, <4>1, GoMoves, ZenonT(30) DEF WakeParked
    <3>2. CASE Overdue
      BY <1>1, <3>2, GoMoves DEF Overdue
    <3> QED  BY <1>3, <3>1, <3>2, ZenonT(30)
  <2>2. TokenFits("manager") /\ HeldFits("manager") /\ BoxFits("manager")
    <3>1. CASE parked
      BY <1>1, <1>2, <2>1, <3>1, TakesPark
    <3>2. CASE ~parked
      <4>1. parked' = parked /\ ~Holds("manager") /\ pc'["manager"] \notin HoldPc
        BY <1>1, <1>2, <2>1, <3>2, ZenonT(30) DEF Holds
      <4> QED  BY <1>1, <2>1, <4>1, LeavesTurn
    <3> QED  BY <3>1, <3>2
  <2> QED  BY <1>1, <2>1, <2>2, DutyKeeps, ZenonT(30) DEF DutyPc, RecoverPc
<1>4. CASE Half \/ OverdueParked
  <2>1. /\ Moves("manager") /\ pc["manager"] \in {"half", "overdue_parked"}
        /\ pc'["manager"] \in {"queue", "overdue_end"}
        /\ UNCHANGED <<scene, parked, armed, word, held, pins, handle, pool, closed, alive, deaths, ran>>
        /\ kq' \in {kq, [kq EXCEPT !.watch = FALSE, !.timer = IF scene.timed THEN "none" ELSE @],
                    [kq EXCEPT !.timer = IF scene.timed THEN "none" ELSE @], [kq EXCEPT !.watch = FALSE]}
        /\ batch' \in {batch, Tail(batch)}
    BY <1>1, <1>4, GoMoves DEF Half, OverdueParked
  <2>2. kq' \in KQ /\ (kq'.timer = "wait" => kq.timer = "wait")
    BY <1>1, <2>1, Unwatched, ZenonT(30)
  <2>3. TokenFits("manager") /\ HeldFits("manager") /\ BoxFits("manager")
    BY <1>1, <1>2, <2>1, KeepsTurn DEF Holds
  <2>4. batch' = batch \/ (batch # <<>> /\ batch' = Tail(batch))
    BY <1>4 DEF Half, OverdueParked, TurnInv, Ending
  <2> QED  BY <1>1, <2>1, <2>2, <2>3, <2>4, DutyKeeps DEF DutyPc, RecoverPc
<1>5. CASE Requeue \/ FireQueue
  <2>1. /\ Moves("manager") /\ pc["manager"] \in {"queue", "fire"}
        /\ UNCHANGED <<scene, task, parked, armed, word, held, pins, handle, closed, kq, alive, batch, deaths, ran>>
        /\ \/ pool' = pool + 1 /\ pc'["manager"] = "handle"
           \/ pool' = pool /\ pc'["manager"] \in {"take_down", "misfire"}
    BY <1>1, <1>5, GoMoves DEF Requeue, FireQueue, Queue
  <2>2. Holds("manager")
    BY <1>2, <2>1 DEF Holds
  <2>3. held
    BY <1>1, <2>2 DEF TurnInv, Held
  <2>4. TokenFits("manager") /\ HeldFits("manager") /\ BoxFits("manager")
    BY <1>1, <1>2, <2>1, <2>2, <2>3, KeepsTurn, QueuesTurn
  <2> QED  BY <1>1, <2>1, <2>4, DutyKeeps DEF DutyPc, RecoverPc
<1>6. CASE Misfire \/ OverdueEnd
  <2>1. /\ Moves("manager") /\ pc["manager"] \in {"misfire", "overdue_end"} /\ pc'["manager"] = "handle"
        /\ held' = FALSE
        /\ UNCHANGED <<scene, task, parked, armed, word, pins, handle, pool, closed, kq, alive, batch, deaths, ran>>
    BY <1>1, <1>6, GoMoves DEF Misfire, OverdueEnd
  <2>2. TokenFits("manager") /\ HeldFits("manager") /\ BoxFits("manager")
    BY <1>1, <1>2, <2>1, EndsTurn, ZenonT(30) DEF Holds
  <2> QED  BY <1>1, <2>1, <2>2, DutyKeeps, ZenonT(30) DEF DutyPc, RecoverPc
<1>7. CASE TimedOut \/ OverdueRunning
  <2>1. /\ Moves("manager") /\ pc["manager"] \in {"handle", "overdue_running"}
        /\ pc'["manager"] \in {"handle", "overdue", "unpark"}
        /\ UNCHANGED <<scene, task, parked, armed, word, held, pins, handle, pool, closed, kq, alive, deaths, ran>>
        /\ batch' = batch \/ (batch # <<>> /\ batch' = Tail(batch))
    BY <1>1, <1>7, GoMoves DEF TimedOut, OverdueRunning
  <2>2. TokenFits("manager") /\ HeldFits("manager") /\ BoxFits("manager")
    BY <1>1, <1>2, <2>1, LeavesTurn DEF Holds
  <2> QED  BY <1>1, <2>1, <2>2, DutyKeeps DEF DutyPc, RecoverPc
<1> QED  BY <1>3, <1>4, <1>5, <1>6, <1>7

\* A wait that is over.  Nobody is still arming it: a one shot arms before its spawn
\* is through, and a repeat's event is only there once its timer was
LEMMA FireTurn ==
    ASSUME TurnInv, DOMAIN pc = Actors, scene \in Scenes, Fire
    PROVE  TurnInv'
<1> USE DEF slotVars, queueVars, Handling
<1>1. /\ Moves("manager") /\ pc["manager"] = "handle" /\ batch # <<>> /\ Head(batch).what = "wait"
      /\ batch' = Tail(batch) /\ armed' = (armed /\ Gone) /\ scene.kind # "series"
      /\ pc'["manager"] = (IF Gone \/ ~armed THEN "handle" ELSE "fire")
      /\ UNCHANGED <<scene, task, parked, word, held, pins, handle, pool, closed, kq, alive, deaths, ran>>
  BY GoMoves DEF Fire, Actors
<1>2. /\ alive # "closed" /\ pc["spawner"] = "done" /\ pc["manager"] # "out" /\ "manager" \in Actors
      /\ "manager" \notin Workers
  BY <1>1, DutyUp, ParksAssumption DEF DutyPc, RecoverPc
<1>3. /\ parked \in BOOLEAN /\ held \in BOOLEAN /\ armed \in BOOLEAN /\ batch \in Seq(Events)
      /\ kq \in [watch : BOOLEAN, timer : Timers, tout : Nat]
      /\ alive \in {"up", "down", "closed"} /\ deaths \in Nat
  BY DEF TurnInv, Types
<1>4. "fire" \in HoldPc /\ "fire" \notin InRun /\ "fire" \notin Arming /\ "handle" \notin HoldPc
  BY DEF HoldPc, InRun, Arming
<1>5. CASE ~armed
  <2>1. armed' = armed /\ pc'["manager"] = "handle"
    BY <1>1, <1>3, <1>5
  <2>2. TokenFits("manager") /\ HeldFits("manager") /\ BoxFits("manager")
    BY <1>1, <1>2, <1>4, <1>5, <2>1, LeavesTurn DEF Holds
  <2> QED  BY <1>1, <1>3, <2>1, <2>2, DutyKeeps DEF DutyPc, RecoverPc
<1>6. CASE armed
  <2>1. held /\ ~parked /\ pool = 0
    BY <1>2, <1>6 DEF TurnInv, Token, Held
  <2>2. armed' = FALSE /\ pc'["manager"] = "fire"
    BY <1>1, <1>6, <2>1, ZenonT(30) DEF Gone
  <2>3. TokenFits("manager") /\ HeldFits("manager")
    BY <1>1, <1>4, <1>6, <2>1, <2>2 DEF TokenFits, HeldFits, Sees
  <2>4. BoxFits("manager")
    BY <1>1, <1>2, <2>1 DEF BoxFits
  <2>5. /\ \A i \in WaitsIn(Tail(batch)) : i \in Nat /\ i >= 1 /\ i + 1 \in WaitsIn(batch)
        /\ 1 \in WaitsIn(batch) /\ Tail(batch) \in Seq(Events)
    BY <1>1, <1>3, TailWaits
  <2>6. Guarded => \A b \in Actors : pc[b] \notin Arming
    <3>1. CASE scene.kind = "once"
      <4>1. \A w \in Workers : pc[w] \notin Arming
        BY <3>1 DEF TurnInv, Armed, Arming
      <4>2. /\ pc["manager"] \notin Arming /\ pc["spawner"] \notin Arming
            /\ pc["canceller"] \notin Arming /\ pc["closer"] \notin Arming
        BY <1>1, <1>2 DEF TurnInv, Types, CancellerPc, CloserPc, Arming
      <4> QED  BY <4>1, <4>2 DEF Actors
    <3>2. CASE scene.kind # "once"
      <4>1. Guarded => Lasting
        BY <1>1, <3>2, ParksAssumption DEF Guarded, Lasting
      <4> QED  BY <2>5, <4>1 DEF TurnInv, Awaited
    <3> QED  BY <3>1, <3>2
  <2>7. ArmFits("manager")
    BY <1>1, <1>2, <1>4, <2>2, <2>6 DEF ArmFits, Arming
  <2>8. WaitFits("manager")
    <3>1. Lasting => kq.timer # "wait" /\ \A i, j \in WaitsIn(batch) : i = j
      BY <2>5 DEF TurnInv, Awaited
    <3>2. Lasting => WaitsIn(Tail(batch)) = {}
      BY <2>5, <3>1
    <3> QED  BY <1>1, <1>4, <2>2, <3>1, <3>2 DEF WaitFits
  <2>9. ManagerEnds'
    BY <1>1, <1>2, <2>2 DEF ManagerEnds, TurnInv, Ending
  <2>10. pc'["manager"] \in ManagerPc
    BY <2>2 DEF ManagerPc
  <2>11. Types' /\ Kept' /\ Early' /\ Ending'
    BY <1>1, <1>2, <1>3, <2>2, <2>5, <2>9, <2>10, ManagerRest
  <2> QED  BY <1>1, <1>2, <2>3, <2>4, <2>7, <2>8, <2>11, TurnKeeps
<1> QED  BY <1>5, <1>6

\* The events of one call are each there once
LEMMA Listed ==
    ASSUME NEW n \in Nat, NEW S, NEW f \in [1..n -> S]
    PROVE  f \in Seq(S) /\ Len(f) = n
OBVIOUS

LEMMA Batched ==
    ASSUME kq \in [watch : BOOLEAN, timer : Timers, tout : Nat], NEW fs \in SUBSET {"watch", "timer", "tout"},
           NEW order \in Bijection(1..Cardinality(fs), fs), NEW b, b = [i \in DOMAIN order |-> Event(order[i])]
    PROVE  /\ b \in Seq(Events)
           /\ WaitsIn(b) # {} => "timer" \in fs /\ kq.timer = "wait"
           /\ \A i, j \in WaitsIn(b) : i = j
<1> DEFINE n == Cardinality(fs)
<1>1. n \in Nat
  <2>1. IsFiniteSet({"watch", "timer", "tout"})
    <3>1. IsFiniteSet({} \cup {"watch"})
      BY FS_EmptySet, FS_AddElement, ZenonT(30)
    <3>2. IsFiniteSet(({} \cup {"watch"}) \cup {"timer"})
      BY <3>1, FS_AddElement, ZenonT(30)
    <3>3. IsFiniteSet((({} \cup {"watch"}) \cup {"timer"}) \cup {"tout"})
      BY <3>2, FS_AddElement, ZenonT(30)
    <3>4. {"watch", "timer", "tout"} = (({} \cup {"watch"}) \cup {"timer"}) \cup {"tout"}
      OBVIOUS
    <3> QED  BY <3>3, <3>4, ZenonT(30)
  <2> QED  BY <2>1, FS_Subset, FS_CardinalityType
<1>2. order \in [1..n -> fs] /\ \A i, j \in 1..n : i # j => order[i] # order[j]
  BY ZenonT(30) DEF Bijection, Injection, IsInjective
<1>3. DOMAIN order = 1..n
  BY <1>2, ZenonT(30)
<1>4. b = [i \in 1..n |-> Event(order[i])]
  BY <1>3, ZenonT(30)
<1>5. \A f \in fs : /\ Event(f) \in Events
                    /\ Event(f).what = "wait" => f = "timer" /\ kq.timer = "wait"
  BY DEF Event, Events, Timers
<1>6. \A i \in 1..n : /\ order[i] \in fs /\ b[i] \in Events
                      /\ b[i].what = "wait" => order[i] = "timer" /\ kq.timer = "wait"
  BY <1>2, <1>4, <1>5
<1>7. DOMAIN b = 1..n
  BY <1>4
<1>8. b \in Seq(Events)
  <2> HIDE DEF n
  <2>1. b \in [1..n -> Events]
    BY <1>4, <1>6, ZenonT(30)
  <2> QED  BY <1>1, <2>1, Listed, ZenonT(30)
<1>9. WaitsIn(b) # {} => "timer" \in fs /\ kq.timer = "wait"
  BY <1>6, <1>7, ZenonT(30) DEF WaitsIn
<1>10. \A i, j \in WaitsIn(b) : i = j
  <2> HIDE DEF n
  <2>1. \A i \in WaitsIn(b) : i \in 1..n /\ order[i] = "timer"
    BY <1>6, <1>7, ZenonT(30) DEF WaitsIn
  <2> QED  BY <1>2, <2>1, ZenonT(30)
<1> QED  BY <1>8, <1>9, <1>10, ZenonT(30)

\* kevent
LEMMA ListenTurn ==
    ASSUME TurnInv, DOMAIN pc = Actors, Listen
    PROVE  TurnInv'
<1> USE DEF slotVars, queueVars
<1>1. PICK fs \in SUBSET {"watch", "timer", "tout"} : Fetch(fs)
  BY DEF Listen
<1>2. PICK order \in Bijection(1..Cardinality(fs), fs) : batch' = [i \in DOMAIN order |-> Event(order[i])]
  BY <1>1 DEF Fetch
<1>3. /\ Moves("manager") /\ pc["manager"] = "listen" /\ pc'["manager"] = "fetched"
      /\ fs # {} /\ fs \subseteq Fired
      /\ kq' = [kq EXCEPT !.watch = @ /\ "watch" \notin fs,
                          !.timer = IF "timer" \in fs /\ @ # "clock" THEN "none" ELSE @,
                          !.tout = IF "tout" \in fs THEN 0 ELSE @]
      /\ UNCHANGED <<scene, task, parked, armed, word, held, pins, handle, pool, closed, alive, deaths, ran>>
  BY <1>1, GoMoves DEF Fetch, Actors
<1>4. /\ parked \in BOOLEAN /\ held \in BOOLEAN /\ armed \in BOOLEAN
      /\ kq \in [watch : BOOLEAN, timer : Timers, tout : Nat]
      /\ alive \in {"up", "down", "closed"} /\ deaths \in Nat
  BY DEF TurnInv, Types
<1>5. /\ kq' \in [watch : BOOLEAN, timer : Timers, tout : Nat]
      /\ kq'.timer = "wait" => kq.timer = "wait" /\ "timer" \notin fs
  BY <1>3, <1>4, ZenonT(30) DEF Timers
<1>6. /\ batch' \in Seq(Events) /\ (WaitsIn(batch') # {} => "timer" \in fs /\ kq.timer = "wait")
      /\ \A i, j \in WaitsIn(batch') : i = j
  BY <1>2, <1>4, Batched
<1>7. pc["spawner"] = "done"
  BY <1>3 DEF TurnInv, Early, Fired, NoEvents
<1>8. "manager" \in Actors /\ "manager" \notin Workers
  BY ParksAssumption DEF Actors
<1>9. /\ pc'["manager"] \notin HoldPc /\ pc'["manager"] \notin Arming /\ ~Holds("manager")
      /\ pc'["manager"] \in ManagerPc
  BY <1>3 DEF HoldPc, InRun, Arming, ManagerPc, Holds
<1>10. TokenFits("manager") /\ HeldFits("manager") /\ BoxFits("manager")
  BY <1>3, <1>8, <1>9, LeavesTurn
<1>11. ArmFits("manager")
  BY <1>3, <1>8, <1>9 DEF ArmFits, Arming
<1>12. Token' /\ Held' /\ Boxed' /\ Armed'
  BY <1>3, <1>8, <1>10, <1>11, TokenKeeps, HeldKeeps, BoxKeeps, ArmKeeps DEF TurnInv
<1>13. ManagerEnds'
  BY <1>3 DEF ManagerEnds, TurnInv, Ending
<1>14. Types' /\ Kept' /\ Early' /\ Ending'
  BY <1>3, <1>4, <1>5, <1>6, <1>7, <1>9, <1>13, ManagerRest
<1>15. Awaited'
  <2> SUFFICES ASSUME Lasting
               PROVE  /\ pc'["manager"] \in {"listen", "out"} => batch' = <<>>
                      /\ kq'.timer = "wait" \/ WaitsIn(batch') # {} => armed' /\ \A a \in Actors : pc'[a] \notin Arming
                      /\ kq'.timer = "wait" => WaitsIn(batch') = {} /\ alive' # "closed"
                      /\ \A i, j \in WaitsIn(batch') : i = j
    BY <1>3 DEF Awaited, Lasting
  <2>1. kq.timer = "wait" => armed /\ alive # "closed" /\ \A a \in Actors : pc[a] \notin Arming
    BY DEF TurnInv, Awaited
  <2>2. kq.timer = "wait" => \A a \in Actors : pc'[a] \notin Arming
    BY <1>3, <1>9, <2>1 DEF Moves
  <2> QED  BY <1>3, <1>5, <1>6, <2>1, <2>2
<1> QED  BY <1>12, <1>14, <1>15 DEF TurnInv

\* What an action of the manager's loop or of its supervisor does when it leaves the
\* turn alone
LEMMA LoopKeeps ==
    ASSUME TurnInv, DOMAIN pc = Actors, pc["manager"] # "out", Moves("manager"),
           ~Holds("manager"), pc'["manager"] \in {"listen", "dead", "give_up", "orphan", "unpark", "out"},
           pc["manager"] = "listen" => pc'["manager"] = "out" /\ UNCHANGED <<kq, batch, alive>>,
           UNCHANGED <<scene, task, parked, armed, word, held, pins, handle, pool, closed, ran>>,
           alive' \in {"up", "down", "closed"}, deaths' \in Nat,
           alive = "closed" => alive' = "closed", alive # "up" => alive' # "up",
           kq' \in {kq, NoEvents}, alive' = "closed" => alive = "closed" \/ kq' = NoEvents,
           batch' \in {batch, <<>>}, Lasting => batch' = <<>>, ManagerEnds'
    PROVE  TurnInv'
<1>1. /\ "manager" \in Actors /\ "manager" \notin Workers
      /\ pc["manager"] # "listen" => pc["spawner"] = "done"
  BY ManagerActs
<1>2. /\ pc'["manager"] \notin HoldPc /\ pc'["manager"] \notin Arming /\ pc'["manager"] \in ManagerPc
  BY DEF HoldPc, InRun, Arming, ManagerPc
<1>3. TokenFits("manager") /\ HeldFits("manager") /\ BoxFits("manager")
  BY <1>1, <1>2, LeavesTurn
<1>4. ArmFits("manager")
  BY <1>1, <1>2 DEF ArmFits, Arming
<1>5. kq' \in [watch : BOOLEAN, timer : Timers, tout : Nat] /\ (kq'.timer = "wait" => kq' = kq)
  <2>1. kq \in [watch : BOOLEAN, timer : Timers, tout : Nat]
    BY DEF TurnInv, Types
  <2>2. NoEvents \in [watch : BOOLEAN, timer : Timers, tout : Nat] /\ NoEvents.timer = "none"
    BY DEF NoEvents, Timers
  <2> QED  BY <2>1, <2>2, ZenonT(30)
<1>6. /\ batch' \in Seq(Events) /\ parked' \in BOOLEAN /\ armed' \in BOOLEAN /\ held' \in BOOLEAN
  <2>1. /\ batch \in Seq(Events) /\ parked \in BOOLEAN /\ armed \in BOOLEAN /\ held \in BOOLEAN
    BY DEF TurnInv, Types
  <2>2. <<>> \in Seq(Events)
    OBVIOUS
  <2>3. batch' \in Seq(Events)
    BY <2>1, <2>2, ZenonT(30)
  <2> QED  BY <2>1, <2>3
<1>7. WaitFits("manager")
  <2>1. NoEvents.timer # "wait"
    BY DEF NoEvents
  <2>2. kq'.timer = "wait" => kq.timer = "wait" /\ (alive' = "closed" => alive = "closed")
    BY <1>5, <2>1
  <2> QED  BY <1>2, <2>2 DEF WaitFits
<1>8. Types' /\ Kept' /\ Early' /\ Ending'
  <2>1. \/ pc["spawner"] = "done"
        \/ pc'["manager"] = "out" /\ UNCHANGED <<kq, batch, pool, parked, held, alive>>
    BY <1>1
  <2> QED  BY <1>2, <1>5, <1>6, <2>1, ManagerRest
<1> QED  BY <1>1, <1>3, <1>4, <1>7, <1>8, TurnKeeps

\* What the loop does between events
LEMMA LoopTurn ==
    ASSUME TurnInv, DOMAIN pc = Actors, scene \in Scenes, Fetched \/ Again
    PROVE  TurnInv'
<1> USE DEF slotVars, queueVars
<1>1. /\ parked \in BOOLEAN /\ held \in BOOLEAN /\ deaths \in Nat /\ alive \in {"up", "down", "closed"}
      /\ kq \in [watch : BOOLEAN, timer : Timers, tout : Nat] /\ "manager" \in Actors
  BY DEF TurnInv, Types, Actors
<1>2. CASE Fetched
  <2>1. /\ Moves("manager") /\ pc["manager"] = "fetched"
        /\ UNCHANGED <<scene, task, parked, armed, word, held, pins, handle, pool, closed, kq, alive, ran>>
        /\ \/ pc'["manager"] = "out" /\ batch' = <<>> /\ deaths' = deaths
           \/ pc'["manager"] = "handle" /\ batch' = batch /\ deaths' = deaths
           \/ pc'["manager"] = "dead" /\ batch' = <<>> /\ deaths' = deaths + 1 /\ deaths < scene.faults
    BY <1>1, <1>2, GoMoves DEF Fetched
  <2>2. ~Holds("manager") /\ alive # "closed"
    BY <2>1, DutyUp DEF Holds, HoldPc, InRun, DutyPc, RecoverPc
  <2>3. CASE pc'["manager"] = "handle"
    <3>1. TokenFits("manager") /\ HeldFits("manager") /\ BoxFits("manager")
      BY <1>1, <2>1, <2>2, <2>3, LeavesTurn DEF HoldPc, InRun
    <3> QED  BY <1>1, <2>1, <2>3, <3>1, DutyKeeps DEF DutyPc, RecoverPc
  <2>4. CASE pc'["manager"] # "handle"
    <3>1. scene.faults \in Nat /\ Limit \in Nat
      BY ParksAssumption
    <3>2. deaths' \in Nat /\ (pc'["manager"] = "dead" => deaths' > 0)
      BY <1>1, <2>1, <2>4
    <3>3. ManagerEnds'
      <4>1. deaths' <= scene.faults
        BY <1>1, <2>1, <2>4, <3>1 DEF TurnInv, Ending
      <4>2. alive # "up" => scene.stop \/ deaths' > Limit
        BY <1>1, <2>1, <2>4, <3>1 DEF TurnInv, Ending
      <4> QED  BY <2>1, <2>2, <2>4, <3>2, <4>1, <4>2 DEF ManagerEnds
    <3> QED  BY <1>1, <2>1, <2>2, <2>4, <3>2, <3>3, LoopKeeps
  <2> QED  BY <2>3, <2>4
<1>3. CASE Again
  <2>1. /\ Moves("manager") /\ pc["manager"] \in {"handle", "listen"} /\ pc'["manager"] \in {"listen", "out"}
        /\ pc["manager"] = "handle" => batch = <<>>
        /\ pc["manager"] = "listen" => pc'["manager"] = "out"
        /\ UNCHANGED <<scene, task, parked, armed, word, held, pins, handle, pool, closed, kq, alive, batch, deaths, ran>>
    BY <1>1, <1>3, GoMoves DEF Again
  <2>2. ~Holds("manager") /\ alive # "closed"
    BY <2>1 DEF Holds, HoldPc, InRun, TurnInv, Ending
  <2>3. Lasting => batch' = <<>>
    BY <2>1 DEF TurnInv, Awaited
  <2>4. ManagerEnds'
    BY <2>1, <2>2 DEF ManagerEnds, TurnInv, Ending
  <2> QED  BY <1>1, <2>1, <2>2, <2>3, <2>4, LoopKeeps
<1> QED  BY <1>2, <1>3

\* A manager that died starts again, or is given up
LEMMA SupervisorTurn ==
    ASSUME TurnInv, DOMAIN pc = Actors, scene \in Scenes, ScenesHold, SupervisorStep
    PROVE  TurnInv'
<1> USE DEF slotVars, queueVars
<1> DEFINE KQ == [watch : BOOLEAN, timer : Timers, tout : Nat]
<1>1. /\ parked \in BOOLEAN /\ held \in BOOLEAN /\ armed \in BOOLEAN /\ deaths \in Nat /\ word \in Nat
      /\ alive \in {"up", "down", "closed"} /\ kq \in KQ /\ batch \in Seq(Events)
      /\ "manager" \in Actors /\ "manager" \notin {"canceller", "spawner"} /\ (parked => ~Gone)
  BY DEF TurnInv, Types, Held, Gone, Actors
<1>2. /\ {"recover_watch", "queue"} \subseteq HoldPc /\ {"recover_watch", "queue"} \cap InRun = {}
      /\ {"dead", "recover", "recover_park", "recover_wait", "handle", "give_up", "orphan", "unpark", "out"} \cap HoldPc = {}
  BY DEF HoldPc, InRun
<1>3. pc["manager"] \in RecoverPc \cup {"give_up", "orphan"} => ~Lasting
  BY <1>1, ParksAssumption DEF TurnInv, Ending, Lasting, RecoverPc
<1>4. CASE Supervise
  <2>1. /\ Moves("manager") /\ pc["manager"] = "dead"
        /\ UNCHANGED <<scene, task, parked, armed, word, held, pins, handle, pool, closed, kq, batch, deaths, ran>>
        /\ \/ pc'["manager"] = "out" /\ alive' = alive
           \/ pc'["manager"] = "recover" /\ alive' = alive
           \/ pc'["manager"] = "give_up" /\ alive' = "down" /\ deaths > Limit
    BY <1>1, <1>4, GoMoves DEF Supervise
  <2>2. ~Holds("manager") /\ alive # "closed" /\ ~Lasting
    BY <1>2, <1>3, <2>1, DutyUp DEF Holds, DutyPc, RecoverPc
  <2>3. CASE pc'["manager"] = "recover"
    <3>1. TokenFits("manager") /\ HeldFits("manager") /\ BoxFits("manager")
      BY <1>1, <1>2, <2>1, <2>2, <2>3, LeavesTurn
    <3> QED  BY <1>1, <2>1, <2>3, <3>1, DutyKeeps DEF DutyPc, RecoverPc
  <2>4. CASE pc'["manager"] # "recover"
    <3>1. ManagerEnds'
      BY <2>1, <2>2, <2>4 DEF ManagerEnds, TurnInv, Ending
    <3> QED  BY <1>1, <2>1, <2>2, <2>4, <3>1, LoopKeeps
  <2> QED  BY <2>3, <2>4
<1>5. CASE Recover \/ RecoverWait
  <2>1. /\ Moves("manager") /\ pc["manager"] \in {"recover", "recover_wait"}
        /\ pc'["manager"] \in {"recover_park", "handle"}
        /\ UNCHANGED <<scene, task, parked, armed, word, held, pins, handle, pool, closed, alive, batch, deaths, ran>>
        /\ kq' \in {kq, [kq EXCEPT !["tout"] = word], [kq EXCEPT !["timer"] = "wait"]}
    BY <1>1, <1>5, GoMoves DEF Recover, RecoverWait, Register
  <2>2. kq' \in KQ
    BY <1>1, <2>1, Registered DEF Timers
  <2>3. TokenFits("manager") /\ HeldFits("manager") /\ BoxFits("manager")
    BY <1>1, <1>2, <2>1, LeavesTurn DEF Holds
  <2>4. ~Lasting
    BY <1>3, <2>1 DEF RecoverPc
  <2> QED  BY <1>1, <2>1, <2>2, <2>3, <2>4, DutyKeeps DEF DutyPc, RecoverPc
<1>6. CASE RecoverPark
  <2>1. /\ Moves("manager") /\ pc["manager"] = "recover_park" /\ parked' = FALSE
        /\ UNCHANGED <<scene, task, armed, word, held, pins, handle, pool, closed, kq, alive, batch, deaths, ran>>
        /\ pc'["manager"] = IF parked THEN "recover_watch" ELSE "recover_wait"
    BY <1>1, <1>6, GoMoves, ZenonT(30) DEF RecoverPark
  <2>2. TokenFits("manager") /\ HeldFits("manager") /\ BoxFits("manager")
    <3>1. CASE parked
      BY <1>1, <1>2, <2>1, <3>1, TakesPark
    <3>2. CASE ~parked
      <4>1. parked' = parked /\ ~Holds("manager") /\ pc'["manager"] \notin HoldPc
        BY <1>1, <1>2, <2>1, <3>2, ZenonT(30) DEF Holds
      <4> QED  BY <1>1, <2>1, <4>1, LeavesTurn
    <3> QED  BY <3>1, <3>2
  <2> QED  BY <1>1, <2>1, <2>2, DutyKeeps, ZenonT(30) DEF DutyPc, RecoverPc
<1>7. CASE RecoverWatch
  <2>1. /\ Moves("manager") /\ pc["manager"] = "recover_watch" /\ pc'["manager"] = "queue"
        /\ UNCHANGED <<scene, task, parked, armed, word, held, pins, handle, pool, closed, alive, batch, deaths, ran>>
        /\ kq' \in {kq, [kq EXCEPT !.watch = FALSE, !.timer = IF scene.timed THEN "none" ELSE @]}
    BY <1>1, <1>7, GoMoves DEF RecoverWatch
  <2>2. kq' \in KQ /\ (kq'.timer = "wait" => kq.timer = "wait")
    BY <1>1, <2>1, Unwatched, ZenonT(30)
  <2>3. TokenFits("manager") /\ HeldFits("manager") /\ BoxFits("manager")
    BY <1>1, <1>2, <2>1, KeepsTurn DEF Holds
  <2> QED  BY <1>1, <2>1, <2>2, <2>3, DutyKeeps DEF DutyPc, RecoverPc
<1>8. CASE GiveUp
  <2>1. /\ Moves("manager") /\ pc["manager"] = "give_up" /\ pc'["manager"] = "orphan"
        /\ alive' = "closed" /\ kq' = NoEvents
        /\ UNCHANGED <<scene, task, parked, armed, word, held, pins, handle, pool, closed, batch, deaths, ran>>
    BY <1>1, <1>8, GoMoves DEF GiveUp
  <2>2. ~Holds("manager") /\ ~Lasting
    BY <1>2, <1>3, <2>1 DEF Holds
  <2>3. ManagerEnds'
    BY <2>1 DEF ManagerEnds, TurnInv, Ending
  <2> QED  BY <1>1, <2>1, <2>2, <2>3, LoopKeeps
<1>9. CASE Orphan
  <2>1. /\ Moves("manager") /\ pc["manager"] = "orphan" /\ pc'["manager"] \in {"unpark", "out"}
        /\ UNCHANGED <<scene, task, parked, armed, word, pins, handle, pool, closed, kq, alive, batch, deaths, ran>>
        /\ held' = held \/ (~Gone /\ (scene.kind = "every" \/ armed) /\ held' = FALSE /\ pc'["manager"] = "out")
        /\ scene.kind # "series"
    BY <1>1, <1>9, GoMoves DEF Orphan
  <2>2. ~Holds("manager") /\ ~Lasting /\ alive = "closed" /\ deaths > Limit
    BY <1>2, <1>3, <2>1 DEF Holds, TurnInv, Ending
  <2>3. ManagerEnds'
    BY <2>1, <2>2 DEF ManagerEnds, TurnInv, Ending
  <2>4. CASE held' = held
    BY <1>1, <2>1, <2>2, <2>3, <2>4, LoopKeeps
  <2>5. CASE held' # held
    <3>1. scene.kind = "once"
      BY <1>1, <2>1, <2>2, ParksAssumption DEF ScenesHold, TurnInv, Ending
    <3>2. armed /\ held' = FALSE /\ pc'["manager"] = "out"
      BY <2>1, <2>5, <3>1
    <3>3. ~parked /\ pool = 0 /\ \A w \in Workers : pc[w] \notin Arming
      BY <3>1, <3>2 DEF TurnInv, Token, Armed, Arming
    <3>4. /\ pc'["manager"] \notin HoldPc /\ pc'["manager"] \notin InRun /\ pc'["manager"] \in ManagerPc
          /\ pc'["manager"] \notin Arming /\ "manager" \notin Workers
      BY <1>2, <3>2, ParksAssumption DEF InRun, ManagerPc, Arming
    <3>5. TokenFits("manager") /\ HeldFits("manager")
      BY <2>1, <2>2, <3>2, <3>3, <3>4 DEF TokenFits, HeldFits, Sees
    <3>6. BoxFits("manager") /\ ArmFits("manager")
      BY <2>1, <2>2, <3>3, <3>4 DEF BoxFits, ArmFits, Arming
    <3>7. WaitFits("manager")
      BY <2>2 DEF WaitFits
    <3>8. pc["manager"] # "out" /\ pc["spawner"] = "done"
      BY <2>1, ManagerActs
    <3>9. Types' /\ Kept' /\ Early' /\ Ending'
      BY <1>1, <2>1, <2>3, <3>2, <3>4, <3>8, ManagerRest, ZenonT(30)
    <3> QED  BY <1>1, <2>1, <3>5, <3>6, <3>7, <3>9, TurnKeeps
  <2> QED  BY <2>4, <2>5
<1> QED  BY <1>4, <1>5, <1>6, <1>7, <1>8, <1>9 DEF SupervisorStep

-----------------------------------------------------------------------------
(* Spawning, stopping the task, and stopping the runtime.                  *)

LEMMA Cast ==
    /\ {"manager", "spawner", "canceller", "closer"} \subseteq Actors /\ Workers \subseteq Actors
    /\ "manager" \notin Workers /\ "spawner" \notin Workers /\ "canceller" \notin Workers /\ "closer" \notin Workers
BY ParksAssumption DEF Actors

\* queue, or arm for the start delay
LEMMA SpawnTurn ==
    ASSUME TurnInv, DOMAIN pc = Actors, Spawn
    PROVE  TurnInv'
<1>1. /\ Moves("spawner") /\ pc["spawner"] = "spawn"
      /\ UNCHANGED <<scene, task, parked, word, held, pins, handle, closed, kq, alive, batch, deaths, ran>>
      /\ \/ ~closed /\ pool' = pool + 1 /\ pc'["spawner"] = "done" /\ armed' = armed
         \/ pool' = pool /\ pc'["spawner"] = "lost" /\ armed' = armed
         \/ pool' = pool /\ pc'["spawner"] = "arm" /\ armed' = TRUE
  BY Cast, GoMoves DEF Spawn, Queue
<1>2. /\ pc'["manager"] = pc["manager"] /\ pc'["canceller"] = pc["canceller"] /\ pc'["closer"] = pc["closer"]
      /\ \A w \in Workers : pc'[w] = pc[w]
  BY <1>1, Cast DEF Moves
<1>3. Holds("spawner") /\ "lost" \in HoldPc /\ {"done", "arm"} \cap HoldPc = {}
  BY <1>1 DEF Holds, HoldPc, InRun
<1>4. ~parked /\ ~armed /\ pool = 0 /\ armed \in BOOLEAN
  BY <1>3, Cast DEF TurnInv, Token, Types
<1>5. held \/ (closed /\ alive = "closed")
  BY <1>1 DEF TurnInv, Early
<1>6. TokenFits("spawner")
  BY <1>1, <1>3, <1>4 DEF TokenFits, Sees
<1>7. HeldFits("spawner")
  BY <1>1, <1>3, <1>4, <1>5 DEF HeldFits, Sees
<1>8. BoxFits("spawner")
  BY <1>1, <1>4, Cast DEF BoxFits
<1>9. ArmFits("spawner")
  BY <1>1, <1>3, <1>4, Cast DEF ArmFits, Arming
<1>10. WaitFits("spawner")
  BY <1>1, <1>2, <1>4 DEF WaitFits, TurnInv, Awaited
<1>11. Types'
  <2>1. armed' \in BOOLEAN /\ pc'["spawner"] \in SpawnerPc
    BY <1>1, <1>4, ZenonT(30) DEF SpawnerPc
  <2> QED  BY <1>1, <1>2, <2>1 DEF TurnInv, Types
<1>12. Kept'
  BY <1>1, <1>2 DEF TurnInv, Kept
<1>13. Early'
  BY <1>1, <1>2 DEF TurnInv, Early
<1>14. Ending'
  <2>1. pc["closer"] \notin {"idle", "close", "swap", "join", "drain"} => closed
    BY DEF TurnInv, Ending
  <2> QED  BY <1>1, <1>2, <2>1 DEF TurnInv, Ending
<1> QED  BY <1>1, <1>6, <1>7, <1>8, <1>9, <1>10, <1>11, <1>12, <1>13, <1>14, Cast, TurnKeeps

\* A cancel, and a handle that is dropped
LEMMA CancelTurn ==
    ASSUME TurnInv, DOMAIN pc = Actors, Cancel \/ DropHandle
    PROVE  TurnInv'
<1> USE DEF slotVars, queueVars
<1>1. /\ Moves("canceller") /\ pc["spawner"] = "done" /\ pc["canceller"] \in {"idle", "done"} /\ handle
      /\ \/ pc'["canceller"] = "unpark" /\ handle' = handle
         \/ pc'["canceller"] = pc["canceller"] /\ handle' = FALSE
      /\ UNCHANGED <<scene, task, parked, armed, word, held, pins, pool, closed, kq, alive, batch, deaths, ran>>
  <2>1. CASE Cancel
    BY <2>1, Cast, GoMoves DEF Cancel
  <2>2. CASE DropHandle
    BY <2>2, ZenonT(30) DEF DropHandle, Moves
  <2> QED  BY <2>1, <2>2, ZenonT(30)
<1>2. /\ pc'["manager"] = pc["manager"] /\ pc'["spawner"] = pc["spawner"] /\ pc'["closer"] = pc["closer"]
      /\ \A w \in Workers : pc'[w] = pc[w]
  BY <1>1, Cast DEF Moves
<1>3. /\ pc'["canceller"] \notin HoldPc /\ ~Holds("canceller") /\ pc'["canceller"] \notin Arming
      /\ pc'["canceller"] \in CancellerPc
  BY <1>1, ZenonT(30) DEF Holds, HoldPc, InRun, Arming, CancellerPc
<1>4. TokenFits("canceller") /\ HeldFits("canceller") /\ BoxFits("canceller")
  BY <1>1, <1>3, Cast, LeavesTurn
<1>5. ArmFits("canceller")
  BY <1>1, <1>3, Cast DEF ArmFits, Arming
<1>6. WaitFits("canceller")
  BY <1>1, <1>2, <1>3 DEF WaitFits, TurnInv, Awaited
<1>7. Types'
  <2>1. handle' \in BOOLEAN
    BY <1>1, ZenonT(30) DEF TurnInv, Types
  <2> QED  BY <1>1, <1>2, <1>3, <2>1 DEF TurnInv, Types
<1>8. Kept'
  BY <1>1, <1>2, ZenonT(30) DEF TurnInv, Kept
<1>9. Early'
  BY <1>1, <1>2 DEF Early
<1>10. Ending'
  BY <1>1, <1>2 DEF TurnInv, Ending
<1> QED  BY <1>1, <1>4, <1>5, <1>6, <1>7, <1>8, <1>9, <1>10, Cast, TurnKeeps

\* shutdown_now up to the sweep, and its end
LEMMA CloserTurn ==
    ASSUME TurnInv, DOMAIN pc = Actors,
           StopRuntime \/ ClosePool \/ SwapManager \/ Join \/ Drain \/ Stopped
    PROVE  TurnInv'
<1> USE DEF slotVars, queueVars
<1>1. /\ Moves("closer") /\ pc'["closer"] \in {"close", "swap", "join", "drain", "sweep", "stopped"}
      /\ pc["closer"] \in {"idle", "close", "swap", "join", "drain", "stopped"}
      /\ UNCHANGED <<scene, task, parked, armed, word, held, pins, handle, pool, batch, deaths, ran>>
      /\ closed' = closed \/ closed' = TRUE
      /\ \/ UNCHANGED <<alive, kq>>
         \/ alive' = "down" /\ kq' = kq /\ alive = "up" /\ pc["closer"] # "idle"
         \/ alive' = "closed" /\ kq' = NoEvents /\ pc["manager"] = "out" /\ pc["closer"] # "idle"
  <2>1. CASE StopRuntime \/ ClosePool \/ SwapManager
    BY <2>1, Cast, GoMoves DEF StopRuntime, ClosePool, SwapManager
  <2>2. CASE Join \/ Drain
    BY <2>2, Cast, GoMoves DEF Join, Drain
  <2>3. CASE Stopped
    BY <2>3 DEF Stopped, Moves
  <2> QED  BY <2>1, <2>2, <2>3, ZenonT(30)
<1>2. /\ pc'["manager"] = pc["manager"] /\ pc'["spawner"] = pc["spawner"] /\ pc'["canceller"] = pc["canceller"]
      /\ \A w \in Workers : pc'[w] = pc[w]
  BY <1>1, Cast DEF Moves
<1>3. /\ pc'["closer"] \notin HoldPc /\ ~Holds("closer") /\ pc'["closer"] \notin Arming
      /\ pc'["closer"] \in CloserPc
  BY <1>1 DEF Holds, HoldPc, InRun, Arming, CloserPc
<1>4. /\ alive = "closed" => alive' = "closed"
      /\ alive # "up" => alive' # "up"
      /\ alive' \in {"up", "down", "closed"} /\ closed' \in BOOLEAN /\ (closed => closed')
  <2>1. alive \in {"up", "down", "closed"} /\ closed \in BOOLEAN
    BY DEF TurnInv, Types
  <2>2. closed' \in BOOLEAN /\ (closed => closed')
    BY <1>1, <2>1, ZenonT(30)
  <2> QED  BY <1>1, <2>1, <2>2
<1>5. /\ kq' \in [watch : BOOLEAN, timer : Timers, tout : Nat]
      /\ kq'.timer = "wait" => kq.timer = "wait" /\ (alive' = "closed" => alive = "closed")
  <2>1. kq \in [watch : BOOLEAN, timer : Timers, tout : Nat]
    BY DEF TurnInv, Types
  <2>2. NoEvents \in [watch : BOOLEAN, timer : Timers, tout : Nat] /\ NoEvents.timer = "none"
    BY DEF NoEvents, Timers
  <2> QED  BY <1>1, <2>1, <2>2
<1>6. TokenFits("closer") /\ HeldFits("closer") /\ BoxFits("closer")
  BY <1>1, <1>3, <1>4, Cast, LeavesTurn
<1>7. ArmFits("closer")
  BY <1>1, <1>3, <1>4, Cast DEF ArmFits, Arming
<1>8. WaitFits("closer")
  BY <1>1, <1>2, <1>3, <1>5 DEF WaitFits, TurnInv, Awaited
<1>9. Types'
  BY <1>1, <1>2, <1>3, <1>4, <1>5 DEF TurnInv, Types
<1>10. Kept'
  BY <1>1, <1>2 DEF TurnInv, Kept
<1>11. Early'
  BY <1>1, <1>2, <1>4 DEF TurnInv, Early
<1>12. Ending'
  <2>1. /\ pc'["closer"] # "idle" => scene.stop
        /\ pc'["closer"] \notin {"idle", "close"} => closed'
        /\ pc'["closer"] \notin {"idle", "close", "swap", "join"} => pc["manager"] = "out" /\ alive' = "closed"
        /\ pc'["closer"] \notin {"idle", "close", "swap", "join", "drain"} =>
             pool = 0 /\ \A w \in Workers : pc[w] = "idle"
    <3>1. CASE StopRuntime \/ ClosePool \/ SwapManager
      BY <3>1, Cast, GoMoves DEF StopRuntime, ClosePool, SwapManager, TurnInv, Ending
    <3>2. CASE Join \/ Drain
      BY <3>2, Cast, GoMoves DEF Join, Drain, TurnInv, Ending
    <3>3. CASE Stopped
      BY <3>3 DEF Stopped, TurnInv, Ending
    <3> QED  BY <3>1, <3>2, <3>3
  <2>2. /\ alive' = "closed" =>
             \/ pc["manager"] = "out"
             \/ deaths > Limit /\ pc["manager"] \in {"orphan", "unpark", "unwatch", "take_down", "let_go"}
        /\ pc["manager"] = "orphan" => alive' = "closed"
        /\ alive' # "up" => scene.stop \/ deaths > Limit
    BY <1>1 DEF TurnInv, Ending
  <2> QED  BY <1>1, <1>2, <2>1, <2>2 DEF TurnInv, Ending
<1> QED  BY <1>1, <1>6, <1>7, <1>8, <1>9, <1>10, <1>11, <1>12, Cast, TurnKeeps

\* The sweep, once nobody but a spawn or a cancel that had begun is left.  A spawn
\* still arming its wait finds it taken
LEMMA SweepTurn ==
    ASSUME TurnInv, DOMAIN pc = Actors, Sweep
    PROVE  TurnInv'
<1> USE DEF slotVars, queueVars
<1>1. /\ Moves("closer") /\ pc["closer"] = "sweep" /\ pc'["closer"] \in {"stopped", "unpark"}
      /\ pc'["closer"] = "unpark" => parked
      /\ UNCHANGED <<scene, task, parked, word, pins, handle, pool, closed, kq, alive, batch, deaths, ran>>
      /\ armed' = armed \/ armed' = FALSE
      /\ held' = held \/ (held' = FALSE /\ ~parked /\ armed' = FALSE)
  BY Cast, GoMoves DEF Sweep
<1>2. /\ pc["manager"] = "out" /\ alive = "closed" /\ pool = 0 /\ closed
      /\ \A w \in Workers : pc[w] = "idle"
  BY <1>1 DEF TurnInv, Ending
<1>3. /\ pc'["manager"] = pc["manager"] /\ pc'["spawner"] = pc["spawner"] /\ pc'["canceller"] = pc["canceller"]
      /\ \A w \in Workers : pc'[w] = pc[w]
  BY <1>1, Cast DEF Moves
<1>4. pc'["closer"] \notin HoldPc /\ pc'["closer"] \notin Arming /\ pc'["closer"] \in CloserPc
  BY <1>1 DEF HoldPc, InRun, Arming, CloserPc
<1>5. /\ parked \in BOOLEAN /\ held \in BOOLEAN /\ armed \in BOOLEAN /\ held' \in BOOLEAN /\ armed' \in BOOLEAN
      /\ (held' => held) /\ (armed' => armed)
  <2>1. parked \in BOOLEAN /\ held \in BOOLEAN /\ armed \in BOOLEAN
    BY DEF TurnInv, Types
  <2>2. held' \in {held, FALSE} /\ armed' \in {armed, FALSE}
    BY <1>1, ZenonT(30)
  <2>3. held' \in BOOLEAN /\ armed' \in BOOLEAN
    BY <2>1, <2>2, ZenonT(30)
  <2>4. (held' => held) /\ (armed' => armed)
    BY <1>1, <2>1, <2>3
  <2> QED  BY <2>1, <2>3, <2>4
<1>6. \A a \in Actors : Holds(a)' => Holds(a) /\ a \in {"canceller", "spawner"}
  <2>1. "idle" \notin HoldPc /\ "out" \notin HoldPc
    BY DEF HoldPc, InRun
  <2> QED  BY <1>2, <1>3, <1>4, <2>1 DEF Holds, Actors
<1>7. TokenFits("closer")
  BY <1>1, <1>2, <1>4, <1>5 DEF TokenFits, Sees, TurnInv, Token
<1>8. Token'
  BY <1>1, <1>7, Cast, TokenKeeps DEF TurnInv
<1>9. Held'
  BY <1>1, <1>2, <1>5, <1>6 DEF TurnInv, Held
<1>10. Boxed'
  BY <1>1, <1>2, <1>3 DEF TurnInv, Boxed, InRun
<1>11. Armed'
  <2>1. /\ scene'.kind = "once" => \A w \in Workers : pc'[w] \notin {"rearm", "arm", "disarm", "lost"}
        /\ \A w \in Workers : pc'[w] \notin Arming
    BY <1>2, <1>3 DEF Arming
  <2>2. \A a \in Actors : pc'[a] \in Arming => a = "spawner"
    BY <1>2, <1>3, <1>4, <2>1 DEF Actors, Arming, TurnInv, Types, CancellerPc
  <2>3. pc'["spawner"] \in Arming => NoTurn'
    <3>1. pc["spawner"] \in Arming => ~parked /\ pc["canceller"] = "idle" /\ pc["spawner"] \notin HoldPc
      BY DEF TurnInv, Early, Kept, Arming, HoldPc, InRun
    <3>2. pc["spawner"] \in Arming => \A a \in Actors : ~Holds(a)'
      BY <1>6, <3>1 DEF Holds, HoldPc, InRun
    <3> QED  BY <1>1, <1>2, <1>3, <3>1, <3>2 DEF NoTurn
  <2>4. \A a \in Actors : pc'[a] = "disarm" => alive' # "up"
    BY <1>1, <1>2
  <2> QED  BY <1>1, <1>2, <2>1, <2>2, <2>3, <2>4 DEF Armed
<1>12. Awaited'
  <2>1. Lasting => batch = <<>> /\ kq.timer # "wait"
    BY <1>2 DEF TurnInv, Awaited
  <2>2. WaitsIn(<<>>) = {}
    BY DEF WaitsIn
  <2> QED  BY <1>1, <2>1, <2>2 DEF Awaited, Lasting
<1>13. Types'
  BY <1>1, <1>3, <1>4, <1>5 DEF TurnInv, Types
<1>14. Kept'
  BY <1>1, <1>3 DEF TurnInv, Kept
<1>15. Early'
  BY <1>1, <1>2, <1>3 DEF TurnInv, Early
<1>16. Ending'
  BY <1>1, <1>2, <1>3 DEF TurnInv, Ending
<1> QED  BY <1>8, <1>9, <1>10, <1>11, <1>12, <1>13, <1>14, <1>15, <1>16 DEF TurnInv

-----------------------------------------------------------------------------
(* All of it.                                                              *)

LEMMA InitTurn ==
    ASSUME ParksInit
    PROVE  DOMAIN pc = Actors /\ TurnInv
<1>1. /\ DOMAIN pc = Actors /\ pc["manager"] = "listen" /\ pc["spawner"] = "spawn"
      /\ pc["canceller"] = "idle" /\ pc["closer"] = "idle" /\ \A w \in Workers : pc[w] = "idle"
  BY Cast DEF ParksInit
<1>2. \A a \in Actors : (Holds(a) => a = "spawner") /\ pc[a] \notin Arming
  BY <1>1 DEF Actors, Holds, HoldPc, InRun, Arming
<1>3. /\ scene \in Scenes /\ task = "slot" /\ parked = FALSE /\ armed = FALSE /\ word = 0
      /\ held = TRUE /\ pins = {} /\ handle = TRUE /\ pool = 0 /\ closed = FALSE
      /\ kq = NoEvents /\ alive = "up" /\ batch = <<>> /\ deaths = 0 /\ ran = 0
  BY DEF ParksInit
<1>4. Types
  <2>1. kq \in [watch : BOOLEAN, timer : Timers, tout : Nat]
    BY <1>3 DEF NoEvents, Timers
  <2>2. /\ \A w \in Workers : pc[w] \in WorkerPc
        /\ pc["manager"] \in ManagerPc /\ pc["spawner"] \in SpawnerPc
        /\ pc["canceller"] \in CancellerPc /\ pc["closer"] \in CloserPc
    BY <1>1 DEF WorkerPc, ManagerPc, SpawnerPc, CancellerPc, CloserPc
  <2>3. batch \in Seq(Events)
    BY <1>3
  <2> QED  BY <1>3, <2>1, <2>2, <2>3, ZenonT(30) DEF Types
<1>5. Token /\ Held
  BY <1>2, <1>3 DEF Token, Held
<1>6. Boxed /\ Kept
  BY <1>1, <1>3 DEF Boxed, Kept, InRun, ParkPc
<1>7. Early
  BY <1>1, <1>3 DEF Early
<1>8. Ending
  BY <1>1, <1>3, ParksAssumption DEF Ending
<1>9. Armed
  BY <1>1, <1>2, <1>3 DEF Armed, Arming
<1>10. Awaited
  BY <1>3 DEF Awaited, WaitsIn, NoEvents
<1> QED  BY <1>1, <1>4, <1>5, <1>6, <1>7, <1>8, <1>9, <1>10 DEF TurnInv

\* Every step keeps the turn in one place
LEMMA ParksTurn ==
    ASSUME TurnInv, DOMAIN pc = Actors, scene \in Scenes, scene.kind # "series", ScenesHold, ParksNext
    PROVE  TurnInv'
<1>1. CASE Spawn
  BY <1>1, SpawnTurn
<1>2. CASE Cancel \/ DropHandle
  BY <1>2, CancelTurn
<1>3. CASE StopRuntime \/ CloserStep
  BY <1>3, CloserTurn, SweepTurn DEF CloserStep
<1>4. CASE \E w \in Workers : WorkerStep(w)
  <2>1. PICK w \in Workers : WorkerStep(w)
    BY <1>4
  <2> QED  BY <2>1, RunTurn, PassTurn, WatchTurn DEF WorkerStep
<1>5. CASE \E a \in Actors : TakeDownStep(a) \/ WaitStep(a)
  BY <1>5, TakeDownTurn, WaitTurn
<1>6. CASE Listen
  BY <1>6, ListenTurn
<1>7. CASE ManagerStep
  BY <1>7, LoopTurn, EventTurn, FireTurn DEF ManagerStep
<1>8. CASE SupervisorStep
  BY <1>8, SupervisorTurn
<1> QED  BY <1>1, <1>2, <1>3, <1>4, <1>5, <1>6, <1>7, <1>8 DEF ParksNext

-----------------------------------------------------------------------------
(* A schedule's slot: no task is run or parked in it.                      *)

\* What anybody but a pool's thread does there
LEMMA CalmKeeps ==
    ASSUME CalmInv, DOMAIN pc = Actors, NEW a \in Actors, a \notin Workers, NEW p, Go(a, p), p \notin TaskPc,
           a = "spawner" => p # "unpark", parked' = parked \/ ~parked', pool' = pool,
           series' \in {"delayed", "going", "finished"}
    PROVE  DOMAIN pc' = Actors /\ CalmInv'
<1>1. Moves(a) /\ pc'[a] = p
  BY GoMoves
<1>2. /\ \A w \in Workers : pc'[w] = pc[w]
      /\ a # "spawner" => pc'["spawner"] = pc["spawner"]
  BY <1>1, Cast DEF Moves
<1> QED  BY <1>1, <1>2 DEF CalmInv, Moves

\* Where a schedule takes its spawner, the manager and the rest
LEMMA CalmPlaces ==
    /\ {"idle", "listen", "fetched", "handle", "out", "dead", "recover", "recover_park", "recover_wait", "give_up",
        "orphan", "overdue", "overdue_running", "unpark", "unpin", "done", "stopped", "close", "swap", "join",
        "drain", "sweep", "arm", "disarm", "lost", "launch", "count", "clock", "bounds", "end", "unschedule",
        "finish", "judge", "close_finished", "give_back", "fail", "close_extras", "stop_series"} \cap TaskPc = {}
    /\ InRun \subseteq TaskPc
    /\ {"half", "queue", "fire", "misfire", "overdue_parked", "overdue_end", "recover_watch",
        "unwatch", "take_down", "let_go", "claim", "watch_timer", "watch", "check"} \subseteq TaskPc
BY DEF TaskPc, HoldPc, InRun

\* The steps of Parks
LEMMA ParksCalm ==
    ASSUME CalmInv, DOMAIN pc = Actors, scene.kind = "series", ParksNext, UNCHANGED seriesVars
    PROVE  DOMAIN pc' = Actors /\ CalmInv'
<1> USE DEF slotVars, queueVars
<1> USE CalmPlaces, Cast
<1>1. /\ ~parked /\ pool = 0 /\ series' \in {"delayed", "going", "finished"}
      /\ \A a \in Actors : pc[a] \notin TaskPc
      /\ \A w \in Workers : pc[w] = "idle"
      /\ pc["spawner"] # "unpark"
  BY DEF CalmInv, seriesVars
<1>2. CASE Cancel
  BY <1>1, <1>2, CalmKeeps DEF Cancel
<1>3. CASE DropHandle
  BY <1>1, <1>3 DEF DropHandle, CalmInv
<1>4. CASE StopRuntime \/ ClosePool \/ SwapManager \/ Join
  BY <1>1, <1>4, CalmKeeps DEF StopRuntime, ClosePool, SwapManager, Join
<1>5. CASE Stopped
  BY <1>1, <1>5 DEF Stopped, CalmInv
<1>6. ASSUME NEW w \in Workers, WorkerStep(w)
      PROVE  FALSE
  <2>1. pc[w] = "idle" /\ ~(pool > 0)
    BY <1>1, <1>6
  <2>2. ~Pop(w) /\ ~Claim(w) /\ ~Begin(w) /\ ~TimeRun(w) /\ ~ArmTimeout(w)
    BY <2>1 DEF Pop, Claim, Begin, TimeRun, ArmTimeout
  <2>3. ~Step(w) /\ ~Untime(w) /\ ~Settle(w) /\ ~After(w) /\ ~Fell(w) /\ ~Rearm(w)
    BY <2>1 DEF Step, Untime, Settle, After, Fell, Rearm
  <2>4. ~WatchTimer(w) /\ ~Watch(w) /\ ~Check(w) /\ ~Unpin(w)
    BY <2>1 DEF WatchTimer, Watch, Check, Unpin
  <2> QED  BY <1>6, <2>2, <2>3, <2>4, ZenonT(30) DEF WorkerStep
<1>7. ASSUME NEW a \in Actors, TakeDownStep(a)
      PROVE  DOMAIN pc' = Actors /\ CalmInv'
  <2>1. Unpark(a)
    BY <1>1, <1>7 DEF TakeDownStep, Unwatch, TakeDown, LetGo
  <2>2. /\ Go(a, Onward(a)) /\ parked' = FALSE /\ pool' = pool /\ pc[a] = "unpark"
    BY <1>1, <2>1 DEF Unpark
  <2>3. a \in {"manager", "canceller", "closer"}
    BY <1>1, <2>2 DEF Actors
  <2>4. Onward(a) \in {"unpin", "out", "handle", "done", "stopped"}
    BY <2>3 DEF Onward
  <2> QED  BY <1>1, <2>2, <2>3, <2>4, CalmKeeps
<1>8. ASSUME NEW a \in Actors, WaitStep(a)
      PROVE  DOMAIN pc' = Actors /\ CalmInv'
  <2>1. /\ pc[a] \in {"arm", "disarm"} /\ UNCHANGED <<parked, pool>>
        /\ \/ Go(a, "done") \/ Go(a, "idle") \/ Go(a, "disarm") \/ Go(a, "lost")
    BY <1>8 DEF WaitStep, ArmTimer, Disarm, Lost, Register
  <2>2. a \notin Workers
    BY <1>1, <2>1
  <2> QED  BY <1>1, <2>1, <2>2, CalmKeeps
<1>9. CASE Listen
  <2>1. Go("manager", "fetched") /\ UNCHANGED <<parked, pool>>
    BY <1>9 DEF Listen, Fetch
  <2> QED  BY <1>1, <2>1, CalmKeeps
<1>10. CASE ManagerStep
  <2>1. /\ ~parked' /\ pool' = pool
        /\ \/ Go("manager", "out") \/ Go("manager", "handle") \/ Go("manager", "dead") \/ Go("manager", "listen")
           \/ Go("manager", "overdue") \/ Go("manager", "overdue_running") \/ Go("manager", "unpark")
    <3>1. CASE Fetched \/ Again
      BY <1>1, <3>1 DEF Fetched, Again
    <3>2. CASE WakeParked
      BY <1>1, <3>2, ZenonT(30) DEF WakeParked
    <3>3. CASE TimedOut \/ Overdue \/ OverdueRunning
      BY <1>1, <3>3 DEF TimedOut, Overdue, OverdueRunning
    <3>4. CASE Half \/ Requeue \/ Fire \/ FireQueue \/ Misfire \/ OverdueParked \/ OverdueEnd
      BY <1>1, <3>4 DEF Half, Requeue, Fire, FireQueue, Misfire, OverdueParked, OverdueEnd
    <3> QED  BY <1>10, <3>1, <3>2, <3>3, <3>4 DEF ManagerStep
  <2> QED  BY <1>1, <2>1, CalmKeeps
<1>11. CASE SupervisorStep
  <2>1. /\ ~parked' /\ pool' = pool
        /\ \/ Go("manager", "out") \/ Go("manager", "handle") \/ Go("manager", "recover") \/ Go("manager", "give_up")
           \/ Go("manager", "recover_park") \/ Go("manager", "recover_wait") \/ Go("manager", "orphan")
    <3>1. CASE Supervise \/ Recover
      BY <1>1, <3>1 DEF Supervise, Recover, Register
    <3>2. CASE RecoverPark
      BY <1>1, <3>2, ZenonT(30) DEF RecoverPark
    <3>3. CASE RecoverWait \/ GiveUp
      BY <1>1, <3>3 DEF RecoverWait, GiveUp, Register
    <3>4. CASE RecoverWatch \/ Orphan
      BY <1>1, <3>4 DEF RecoverWatch, Orphan
    <3> QED  BY <1>11, <3>1, <3>2, <3>3, <3>4 DEF SupervisorStep
  <2> QED  BY <1>1, <2>1, CalmKeeps
<1>12. CASE Spawn \/ Drain \/ Sweep
  BY <1>12 DEF Spawn, Drain, Sweep
<1> QED  BY <1>2, <1>3, <1>4, <1>5, <1>6, <1>7, <1>8, <1>9, <1>10, <1>11, <1>12 DEF ParksNext, CloserStep

\* The steps of a schedule
LEMMA SeriesCalm ==
    ASSUME CalmInv, DOMAIN pc = Actors, SeriesNext, ~(ParksNext /\ UNCHANGED seriesVars)
    PROVE  DOMAIN pc' = Actors /\ CalmInv'
<1> USE DEF slotVars, seriesVars, Others
<1> USE CalmPlaces, Cast
<1>1. ~parked /\ pool = 0 /\ series \in {"delayed", "going", "finished"}
  BY DEF CalmInv
<1>2. ASSUME NEW a \in {"manager", "spawner"}, Launch(a) \/ Count(a) \/ Schedule(a)
      PROVE  DOMAIN pc' = Actors /\ CalmInv'
  <2>1. /\ ~parked' /\ pool' = pool /\ series' = series
        /\ \/ Go(a, "count") \/ Go(a, "lost") \/ Go(a, "unschedule") \/ Go(a, "finish") \/ Go(a, "end")
           \/ Go(a, "clock") \/ Go(a, "handle") \/ Go(a, "done") \/ Go(a, "bounds")
    BY <1>1, <1>2 DEF Launch, Count, Schedule, Register
  <2> QED  BY <1>1, <2>1, CalmKeeps
<1>3. ASSUME NEW a \in {"manager", "spawner"}, Finish(a) \/ CloseFinished(a)
      PROVE  DOMAIN pc' = Actors /\ CalmInv'
  <2>1. /\ ~parked' /\ pool' = pool /\ series' \in {series, "finished"}
        /\ Go(a, "close_finished") \/ Go(a, "give_back")
    BY <1>1, <1>3 DEF Finish, CloseFinished
  <2> QED  BY <1>1, <2>1, CalmKeeps
<1>4. ASSUME NEW a \in {"manager", "spawner", "closer"}, GiveBack(a)
      PROVE  DOMAIN pc' = Actors /\ CalmInv'
  <2>1. a # "spawner" => Onward(a) \in {"out", "handle", "stopped"}
    BY DEF Onward
  <2>2. /\ ~parked' /\ pool' = pool /\ series' = series
        /\ \/ Go(a, "done") \/ Go(a, "out") \/ Go(a, "handle") \/ Go(a, "stopped")
    BY <1>1, <1>4, <2>1 DEF GiveBack
  <2> QED  BY <1>1, <2>2, CalmKeeps
<1>5. CASE SpawnSeries \/ LostSeries
  <2>1. /\ ~parked' /\ pool' = pool /\ series' = series
        /\ Go("spawner", "arm") \/ Go("spawner", "launch") \/ Go("spawner", "lost") \/ Go("spawner", "done")
    BY <1>1, <1>5 DEF SpawnSeries, LostSeries
  <2> QED  BY <1>1, <2>1, CalmKeeps
<1>6. CASE FireSeries \/ Bounds \/ Unschedule \/ StopSeries \/ OrphanSeries
  <2>1. /\ ~parked' /\ pool' = pool /\ series' \in {series, "going"}
        /\ \/ Go("manager", "handle") \/ Go("manager", "clock") \/ Go("manager", "bounds") \/ Go("manager", "end")
           \/ Go("manager", "unschedule") \/ Go("manager", "launch") \/ Go("manager", "finish")
           \/ Go("manager", "judge") \/ Go("manager", "out")
    <3>1. CASE FireSeries
      BY <1>1, <3>1 DEF FireSeries
    <3>2. CASE Bounds \/ Unschedule
      BY <1>1, <3>2 DEF Bounds, Unschedule
    <3>3. CASE StopSeries \/ OrphanSeries
      BY <1>1, <3>3 DEF StopSeries, OrphanSeries
    <3> QED  BY <1>6, <3>1, <3>2, <3>3
  <2> QED  BY <1>1, <2>1, CalmKeeps
<1>7. CASE DrainSeries \/ SweepSeries
  <2>1. /\ ~parked' /\ pool' = pool /\ series' = series
        /\ Go("closer", "sweep") \/ Go("closer", "stopped") \/ Go("closer", "judge")
    BY <1>1, <1>7 DEF DrainSeries, SweepSeries
  <2> QED  BY <1>1, <2>1, CalmKeeps
<1>8. ASSUME NEW a \in {"manager", "closer"}, Judge(a) \/ FailSeries(a) \/ Close(a)
      PROVE  DOMAIN pc' = Actors /\ CalmInv'
  <2>1. /\ ~parked' /\ pool' = pool /\ series' = series
        /\ Go(a, "fail") \/ Go(a, "close_extras") \/ Go(a, "give_back")
    BY <1>1, <1>8 DEF Judge, FailSeries, Close
  <2> QED  BY <1>1, <2>1, CalmKeeps
<1>9. ASSUME NEW k \in DOMAIN run, RunStep(k)
      PROVE  DOMAIN pc' = Actors /\ CalmInv'
  <2>1. UNCHANGED <<pc, parked, pool, series>>
    BY <1>9 DEF RunStep, Work, Publish, PublishAgain, Published, CloseBehind, DropRun
  <2> QED  BY <2>1 DEF CalmInv
<1>10. ASSUME NEW k \in DOMAIN run, Late(k)
       PROVE  DOMAIN pc' = Actors /\ CalmInv'
  BY <1>1, <1>10, CalmKeeps DEF Late
<1>11. CASE StartStep
  BY <1>2, <1>3, <1>4, <1>5, <1>11 DEF StartStep
<1>12. CASE TickStep
  BY <1>2, <1>3, <1>6, <1>12 DEF TickStep
<1>13. ASSUME NEW a \in {"manager", "closer"}, EndStep(a)
       PROVE  DOMAIN pc' = Actors /\ CalmInv'
  BY <1>4, <1>8, <1>13 DEF EndStep
<1> QED  BY <1>6, <1>7, <1>9, <1>10, <1>11, <1>12, <1>13 DEF SeriesNext

\* A task that is no schedule takes none of those steps
LEMMA NoSchedule ==
    ASSUME Types, run = <<>>, scene.kind # "series", SeriesNext
    PROVE  ParksNext /\ UNCHANGED seriesVars
<1>1. /\ pc["manager"] \in ManagerPc /\ pc["spawner"] \in SpawnerPc /\ pc["closer"] \in CloserPc
      /\ DOMAIN run = {}
  BY DEF Types
<1>2. ~StartStep
  BY <1>1 DEF StartStep, SpawnSeries, Launch, Count, Schedule, LostSeries, Finish, CloseFinished, GiveBack, SpawnerPc
<1>3. ~TickStep
  BY <1>1 DEF TickStep, FireSeries, Bounds, Launch, Count, Schedule, Unschedule, Finish, CloseFinished, ManagerPc
<1>4. ~StopSeries /\ ~OrphanSeries /\ ~DrainSeries /\ ~SweepSeries
  BY <1>1 DEF StopSeries, OrphanSeries, DrainSeries, SweepSeries, ManagerPc
<1>5. \A a \in {"manager", "closer"} : ~EndStep(a)
  BY <1>1 DEF EndStep, Judge, FailSeries, Close, GiveBack, ManagerPc, CloserPc
<1> QED  BY <1>1, <1>2, <1>3, <1>4, <1>5 DEF SeriesNext

-----------------------------------------------------------------------------
(* The theorem.                                                            *)

\* The invariant holds of a slot that was just created
LEMMA IInvInit ==
    ASSUME SeriesInit PROVE IInv
<1>1. ParksInit /\ run = <<>> /\ scene \in Scenes /\ series \in {"delayed", "going", "finished"}
  BY DEF SeriesInit, ParksInit
<1>2. DOMAIN pc = Actors /\ TurnInv
  BY <1>1, InitTurn
<1>3. CalmInv
  <2>1. /\ ~parked /\ pool = 0 /\ \A w \in Workers : pc[w] = "idle"
        /\ \A a \in Actors : pc[a] \in {"idle", "listen", "spawn"}
        /\ pc["spawner"] = "spawn"
    BY <1>1, Cast DEF ParksInit, Actors
  <2> QED  BY <1>1, <2>1 DEF CalmInv, TaskPc, HoldPc, InRun
<1> QED  BY <1>1, <1>2, <1>3 DEF IInv

\* A slot is one kind of task for as long as it lives
LEMMA SceneKept ==
    ASSUME ParksNext PROVE scene' = scene /\ DOMAIN pc' = DOMAIN pc
<1> USE DEF Register, Queue, queueVars, slotVars
<1>0. \A a, p : Go(a, p) => DOMAIN pc' = DOMAIN pc
  BY DEF Go
<1>1. CASE Spawn \/ Cancel \/ DropHandle \/ StopRuntime
  BY <1>0, <1>1 DEF Spawn, Cancel, DropHandle, StopRuntime
<1>2. CASE CloserStep
  BY <1>0, <1>2 DEF CloserStep, ClosePool, SwapManager, Join, Drain, Sweep, Stopped, vars
<1>3. ASSUME NEW w \in Workers, WorkerStep(w)
      PROVE  scene' = scene /\ DOMAIN pc' = DOMAIN pc
  <2>1. CASE Pop(w) \/ Claim(w) \/ Begin(w) \/ TimeRun(w) \/ ArmTimeout(w)
    BY <1>0, <2>1 DEF Pop, Claim, Begin, TimeRun, ArmTimeout
  <2>2. CASE Step(w) \/ Untime(w) \/ Settle(w) \/ After(w) \/ Fell(w) \/ Rearm(w)
    BY <1>0, <2>2 DEF Step, Untime, Settle, After, Fell, Rearm
  <2>3. CASE WatchTimer(w) \/ Watch(w) \/ Check(w) \/ Unpin(w)
    BY <1>0, <2>3 DEF WatchTimer, Watch, Check, Unpin
  <2> QED  BY <1>3, <2>1, <2>2, <2>3 DEF WorkerStep
<1>4. ASSUME NEW a \in Actors, TakeDownStep(a) \/ WaitStep(a)
      PROVE  scene' = scene /\ DOMAIN pc' = DOMAIN pc
  BY <1>0, <1>4 DEF TakeDownStep, WaitStep, Unpark, Unwatch, TakeDown, LetGo, ArmTimer, Disarm, Lost
<1>5. CASE Listen
  BY <1>0, <1>5 DEF Listen, Fetch
<1>6. CASE ManagerStep
  <2>1. CASE Fetched \/ Again \/ WakeParked \/ Half \/ Requeue \/ Fire
    BY <1>0, <2>1 DEF Fetched, Again, WakeParked, Half, Requeue, Fire
  <2>2. CASE FireQueue \/ Misfire \/ TimedOut \/ Overdue \/ OverdueParked \/ OverdueEnd \/ OverdueRunning
    BY <1>0, <2>2 DEF FireQueue, Misfire, TimedOut, Overdue, OverdueParked, OverdueEnd, OverdueRunning
  <2> QED  BY <1>6, <2>1, <2>2 DEF ManagerStep
<1>7. CASE SupervisorStep
  BY <1>0, <1>7 DEF SupervisorStep, Supervise, Recover, RecoverPark, RecoverWatch, RecoverWait, GiveUp, Orphan
<1> QED  BY <1>1, <1>2, <1>3, <1>4, <1>5, <1>6, <1>7 DEF ParksNext

\* A schedule too
LEMMA SameScene ==
    ASSUME SeriesNext PROVE scene' = scene
<1>1. CASE ParksNext
  BY <1>1, SceneKept
<1>2. CASE StartStep
  BY <1>2 DEF StartStep, SpawnSeries, Launch, Count, Schedule, LostSeries, Finish, CloseFinished, GiveBack, Others
<1>3. CASE TickStep
  BY <1>3 DEF TickStep, FireSeries, Bounds, Launch, Count, Schedule, Unschedule, Finish, CloseFinished, Others
<1>4. CASE StopSeries \/ OrphanSeries \/ DrainSeries \/ SweepSeries
  BY <1>4 DEF StopSeries, OrphanSeries, DrainSeries, SweepSeries, Others
<1>5. ASSUME NEW a \in {"manager", "closer"}, EndStep(a)
      PROVE  scene' = scene
  BY <1>5 DEF EndStep, Judge, FailSeries, Close, GiveBack, Others
<1>6. ASSUME NEW k \in DOMAIN run, RunStep(k) \/ Late(k)
      PROVE  scene' = scene
  BY <1>6 DEF RunStep, Late, Work, Publish, PublishAgain, Published, CloseBehind, DropRun, Others
<1> QED  BY <1>1, <1>2, <1>3, <1>4, <1>5, <1>6 DEF SeriesNext

\* Nothing happens
LEMMA SameState ==
    ASSUME IInv, UNCHANGED allVars PROVE IInv'
<1> USE DEF allVars, vars, slotVars, queueVars, seriesVars
<1>1. UNCHANGED <<scene, pc, run>> /\ (CalmInv => CalmInv')
  BY DEF CalmInv
<1>2. /\ Types => Types'
      /\ Token => Token'
      /\ Held => Held'
      /\ Boxed => Boxed'
      /\ Kept => Kept'
      /\ Early => Early'
  BY DEF Types, Token, Held, Boxed, Kept, Early, Holds
<1>3. Ending => Ending'
  BY DEF Ending
<1>4. (Armed => Armed') /\ (Awaited => Awaited')
  BY DEF Armed, Awaited, Guarded, NoTurn, Lasting, WaitsIn, Holds
<1> QED  BY <1>1, <1>2, <1>3, <1>4, ZenonT(30) DEF IInv, TurnInv

\* Every step keeps it
LEMMA IInvNext ==
    ASSUME ScenesHold, IInv, SeriesNext PROVE IInv'
<1>1. scene' = scene /\ scene \in Scenes /\ DOMAIN pc = Actors
  BY SameScene DEF IInv
<1>2. CASE scene.kind # "series"
  <2>1. TurnInv /\ run = <<>>
    BY <1>2 DEF IInv
  <2>2. ParksNext /\ UNCHANGED seriesVars
    BY <1>2, <2>1, NoSchedule DEF TurnInv
  <2>3. TurnInv' /\ run' = <<>>
    BY <1>1, <1>2, <2>1, <2>2, ParksTurn DEF seriesVars
  <2>4. DOMAIN pc' = Actors
    BY <1>1, <2>2, SceneKept
  <2> QED  BY <1>1, <1>2, <2>3, <2>4 DEF IInv
<1>3. CASE scene.kind = "series"
  <2>1. CalmInv
    BY <1>3 DEF IInv
  <2>2. DOMAIN pc' = Actors /\ CalmInv'
    BY <1>1, <1>3, <2>1, ParksCalm, SeriesCalm
  <2> QED  BY <1>1, <1>3, <2>2 DEF IInv
<1> QED  BY <1>2, <1>3

\* And it says what RunsAlone says
LEMMA IInvAlone ==
    ASSUME IInv PROVE RunsAlone
<1>1. CASE scene.kind = "series"
  BY <1>1, CalmPlaces DEF IInv, CalmInv, RunsAlone, Actors
<1>2. CASE scene.kind # "series"
  <2>1. TurnInv
    BY <1>2 DEF IInv
  <2>2. \A w, x \in Workers : pc[w] \in InRun /\ pc[x] \in InRun => w = x
    BY <2>1 DEF TurnInv, Token, Holds, HoldPc, Actors
  <2>3. (\E w \in Workers : pc[w] \in InRun) => task = "run" /\ ~parked
    BY <2>1 DEF TurnInv, Token, Boxed, Holds, HoldPc, Actors
  <2>4. parked => task = "slot"
    BY <2>1 DEF TurnInv, Boxed
  <2>5. ASSUME NEW a \in Actors, pc[a] \in InRun \cup {"watch", "watch_timer", "check", "let_go", "overdue_end"}
        PROVE  ~Gone
    <3>1. CASE a = "canceller"
      BY <2>1, <2>5, <3>1 DEF TurnInv, Types, Kept, CancellerPc, InRun, Gone
    <3>2. CASE a = "spawner"
      BY <2>1, <2>5, <3>2 DEF TurnInv, Types, SpawnerPc, InRun
    <3>3. CASE a \notin {"canceller", "spawner"} /\ pc[a] \in InRun \cup {"let_go", "overdue_end"}
      BY <2>1, <3>3 DEF TurnInv, Held, Holds, HoldPc, Gone
    <3>4. CASE a \notin {"canceller", "spawner"} /\ pc[a] \in {"watch", "watch_timer", "check"}
      <4>1. a \in Workers
        BY <2>1, <3>4 DEF TurnInv, Types, Actors, ManagerPc, CloserPc
      <4> QED  BY <2>1, <3>4, <4>1 DEF TurnInv, Kept, ParkPc, Gone
    <3> QED  BY <2>5, <3>1, <3>2, <3>3, <3>4
  <2> QED  BY <2>2, <2>3, <2>4, <2>5 DEF RunsAlone
<1> QED  BY <1>1, <1>2

\* However many threads the pool has, whatever is parked, timed out, cancelled,
\* lost with a manager that died or swept by a stopping runtime, a task is run by
\* one thread at a time, with the task in that thread's hands and no park of it
\* left behind, and no slot is worked in after it is given back (claim_parked,
\* claim_armed, unpark_task, recover, sweep).  The scenes are the model's, but for
\* a repeat whose manager dies for good or under a runtime that is stopping
THEOREM TurnsAlone ==
    ASSUME ScenesHold PROVE SeriesSpec => []RunsAlone
<1>1. SeriesInit => IInv
  BY IInvInit
<1>2. IInv /\ [SeriesNext]_allVars => IInv'
  <2>1. ASSUME IInv, UNCHANGED allVars PROVE IInv'
    BY <2>1, SameState
  <2> QED  BY <2>1, IInvNext
<1>3. IInv => RunsAlone
  BY IInvAlone
<1> QED  BY <1>1, <1>2, <1>3, PTL DEF SeriesSpec
=============================================================================
