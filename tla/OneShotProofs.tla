--------------------------- MODULE OneShotProofs ----------------------------
(***************************************************************************)
(* The output of a one-shot task has one owner, for any number of handles  *)
(* and pool threads, built on the counters proved exact in TaskSlotProofs. *)
(* The same claim is false of a repeat whose output is taken (README.md).  *)
(* From there, that the slot implements TaskPromise.                       *)
(***************************************************************************)
EXTENDS TaskSlotProofs

USE Untyped

-----------------------------------------------------------------------------
(* Steps that stay clear of the output: calls that only look, a shutdown.  *)

\* Only thread a moves, apart from sleepers it wakes
Alone(a) ==
    \A b \in Actors \ {a} : \/ pc'[b] = pc[b]
                            \/ pc[b] = "blocked" /\ pc'[b] = "wait"

\* The places the invariant says something about, apart from BeforeWrite
OutputPc == {"recycle", "rearm", "give_up", "exec", "fill", "publish", "spin",
             "empty", "read", "clone", "stop_cas", "none"}

\* Thread a leaves the output where it is and goes nowhere near it
Plain(a) ==
    /\ UNCHANGED <<repeats, filled, bits, fate>>
    /\ listeners' > 0 <=> listeners > 0
    /\ listeners' = 0 => listeners = 0
    /\ queue' > 0 => queue > 0 \/ pc[a] \in BeforeWrite
    /\ state' # state => state' \in {"Cancelled", "Failed"} /\ state # "Taken"
    /\ \A h \in Handles : h # a => seen'[h] = seen[h]
    /\ pc[a] \notin {"read", "fill"} /\ pc'[a] \notin OutputPc
    /\ a \in Workers => pc'[a] \notin {"submit", "push"}
    /\ pc'[a] \in BeforeWrite => Unseen /\ ~filled
    /\ pc'[a] = "fail" => state # "Running" \/ ~filled

\* Who is where, and what a step that moves one thread says of the others
Placed == pc \in [Actors -> HandlePc \cup WorkerPc \cup ReaperPc]

\* Places nowhere near the output
CalmPc == {"idle", "wait", "block", "blocked", "enter", "check", "leave", "leave_bad",
           "lost", "claim_result", "stop", "drop", "gone", "wake_failed", "release",
           "unref", "after"}

\* A thread that goes somewhere is the only one that moves
LEMMA GoOnly ==
    ASSUME Placed, NEW a \in Actors, NEW p, Go(a, p)
    PROVE  Alone(a) /\ pc'[a] = p /\ \A b \in Actors : b # a => pc'[b] = pc[b]
BY DEF Placed, Go, Alone

\* So it is when it wakes the sleepers on its way
LEMMA WakeOnly ==
    ASSUME Placed, NEW a \in Actors, NEW p, WakeAll(a, p)
    PROVE  Alone(a) /\ pc'[a] = p
BY DEF Placed, WakeAll, Alone

\* A step that stays clear of the output keeps the invariant
LEMMA PlainKeeps ==
    ASSUME OneShotInv, NEW a \in Actors, Alone(a), Plain(a)
    PROVE  OneShotInv'
<1>1. /\ repeats' = repeats /\ filled' = filled /\ bits' = bits /\ fate' = fate
      /\ listeners' > 0 <=> listeners > 0
      /\ listeners' = 0 => listeners = 0
  BY DEF Plain
<1>2. \A b \in Actors : b # a => \/ pc'[b] = pc[b]
                                 \/ pc[b] = "blocked" /\ pc'[b] = "wait"
  BY DEF Alone
<1>3. Reaper \in Actors /\ Handles \subseteq Actors /\ Workers \subseteq Actors
  BY DEF Actors
<1>4. /\ state' # state => state' \in {"Cancelled", "Failed"} /\ state # "Taken"
      /\ Unseen => Unseen'
  BY DEF Plain, Unseen
<1>5. ~repeats' /\ \A w \in Workers : pc'[w] \notin {"recycle", "rearm", "submit", "push", "give_up"}
  <2>1. ~repeats'
    BY <1>1, ZenonT(30) DEF OneShotInv
  <2>2. \A w \in Workers : pc[w] \notin {"recycle", "rearm", "submit", "push", "give_up"}
    BY ZenonT(30) DEF OneShotInv
  <2>3. /\ pc'[a] \notin {"recycle", "rearm", "give_up"}
        /\ a \in Workers => pc'[a] \notin {"submit", "push"}
    BY DEF Plain, OutputPc
  <2> QED  BY <1>2, <1>3, <2>1, <2>2, <2>3
<1>6. \A b \in Actors : pc'[b] \in BeforeWrite => Unseen' /\ ~filled'
  <2>1. \A b \in Actors : pc[b] \in BeforeWrite => Unseen /\ ~filled
    BY ZenonT(30) DEF OneShotInv
  <2>2. pc'[a] \in BeforeWrite => Unseen /\ ~filled
    BY DEF Plain
  <2>3. "wait" \notin BeforeWrite
    BY DEF BeforeWrite
  <2> QED  BY <1>1, <1>2, <1>4, <2>1, <2>2, <2>3
<1>7. queue' > 0 => Unseen' /\ ~filled'
  <2>1. (queue > 0 => Unseen /\ ~filled) /\ (pc[a] \in BeforeWrite => Unseen /\ ~filled)
    BY ZenonT(30) DEF OneShotInv
  <2> QED  BY <1>1, <1>4, <2>1 DEF Plain
<1>8. state' = "Pending" => ~filled' /\ \A w \in Workers : pc'[w] \notin {"exec", "fill"}
  <2>1. state = "Pending" => ~filled /\ \A w \in Workers : pc[w] \notin {"exec", "fill"}
    BY ZenonT(30) DEF OneShotInv
  <2>2. pc'[a] \notin {"exec", "fill"}
    BY DEF Plain, OutputPc
  <2> QED  BY <1>1, <1>2, <1>3, <1>4, <2>1, <2>2
<1>9. state' = "Running" /\ pc'[Reaper] = "fail" => ~filled'
  <2>1. state = "Running" /\ pc[Reaper] = "fail" => ~filled
    BY ZenonT(30) DEF OneShotInv
  <2>2. pc'[a] = "fail" => state # "Running" \/ ~filled
    BY DEF Plain
  <2> QED  BY <1>1, <1>2, <1>3, <1>4, <2>1, <2>2
<1>10. \A w \in Workers :
          /\ pc'[w] = "fill" => Unseen' /\ ~filled' /\ fate'[1] = "live" /\ bits' = 1
          /\ pc'[w] = "publish" => Unseen' /\ filled'
  <2>1. \A w \in Workers :
          /\ pc[w] = "fill" => Unseen /\ ~filled /\ fate[1] = "live" /\ bits = 1
          /\ pc[w] = "publish" => Unseen /\ filled
    BY ZenonT(30) DEF OneShotInv
  <2>2. pc'[a] \notin {"fill", "publish"}
    BY DEF Plain, OutputPc
  <2> QED  BY <1>1, <1>2, <1>3, <1>4, <2>1, <2>2
<1>11. /\ listeners' > 0 /\ filled' => fate'[1] = "live" /\ bits' = 1
       /\ listeners' = 0 => fate'[1] # "live"
       /\ state' = "Ready" => filled'
  <2>1. /\ listeners > 0 /\ filled => fate[1] = "live" /\ bits = 1
        /\ listeners = 0 => fate[1] # "live"
        /\ state = "Ready" => filled
    BY ZenonT(30) DEF OneShotInv
  <2> QED  BY <1>1, <1>4, <2>1
<1>12. \A h \in Handles :
         /\ pc'[h] \in {"spin", "empty"} => state' = "Taken" /\ filled'
         /\ pc'[h] = "read" => state' = "Taken" /\ ~filled' /\ fate'[1] = "live" /\ bits' = 1
         /\ pc'[h] = "clone" => filled' /\ \A g \in Handles : pc'[g] # "empty"
         /\ pc'[h] = "stop_cas" => seen'[h] \notin {"Taken", "Free"}
  <2>1. \A h \in Handles :
         /\ pc[h] \in {"spin", "empty"} => state = "Taken" /\ filled
         /\ pc[h] = "read" => state = "Taken" /\ ~filled /\ fate[1] = "live" /\ bits = 1
         /\ pc[h] = "clone" => filled /\ \A g \in Handles : pc[g] # "empty"
         /\ pc[h] = "stop_cas" => seen[h] \notin {"Taken", "Free"}
    BY ZenonT(30) DEF OneShotInv
  <2>2. /\ pc'[a] \notin {"spin", "empty", "read", "clone", "stop_cas"}
        /\ \A h \in Handles : h # a => seen'[h] = seen[h]
    BY DEF Plain, OutputPc
  <2> QED  BY <1>1, <1>2, <1>3, <1>4, <2>1, <2>2
<1>13. \A g, h \in Handles :
         pc'[g] \in {"spin", "empty", "read"} /\ pc'[h] \in {"spin", "empty", "read"} => g = h
  <2>1. \A g, h \in Handles :
         pc[g] \in {"spin", "empty", "read"} /\ pc[h] \in {"spin", "empty", "read"} => g = h
    BY ZenonT(30) DEF OneShotInv
  <2>2. pc'[a] \notin {"spin", "empty", "read"}
    BY DEF Plain, OutputPc
  <2> QED  BY <1>2, <1>3, <2>1, <2>2
<1>14. fate'[1] = "live" => \/ filled'
                           \/ \E h \in Handles : pc'[h] = "read"
                           \/ \E w \in Workers : pc'[w] = "fill"
  <2>1. fate[1] = "live" => \/ filled
                           \/ \E h \in Handles : pc[h] = "read"
                           \/ \E w \in Workers : pc[w] = "fill"
    BY ZenonT(30) DEF OneShotInv
  <2>2. pc[a] \notin {"read", "fill"}
    BY DEF Plain
  <2> QED  BY <1>1, <1>2, <1>3, <2>1, <2>2
<1>15. (\A h \in Handles : pc'[h] = "none") => ~filled' /\ fate'[1] = "unwritten"
  <2>1. (\A h \in Handles : pc[h] = "none") => ~filled /\ fate[1] = "unwritten"
    BY ZenonT(30) DEF OneShotInv
  <2>2. pc'[a] # "none"
    BY DEF Plain, OutputPc
  <2> QED  BY <1>1, <1>2, <1>3, <2>1, <2>2
<1>16. fate'[1] # "twice"
  BY <1>1, ZenonT(30) DEF OneShotInv
<1> QED
  BY <1>5, <1>6, <1>7, <1>8, <1>9, <1>10, <1>11, <1>12, <1>13, <1>14, <1>15, <1>16, ZenonT(30) DEF OneShotInv

\* So does one that goes from one such place to another
LEMMA CalmKeeps ==
    ASSUME OneShotInv, NEW a \in Actors, Alone(a),
           UNCHANGED <<state, listeners, repeats, filled, bits, fate, queue>>,
           \A h \in Handles : h # a => seen'[h] = seen[h],
           pc[a] \notin {"read", "fill"}, pc'[a] \in CalmPc
    PROVE  OneShotInv'
<1>1. pc'[a] \notin OutputPc /\ pc'[a] \notin {"submit", "push", "fail"} /\ pc'[a] \notin BeforeWrite
  BY DEF CalmPc, OutputPc, BeforeWrite
<1>2. Plain(a)
  BY <1>1 DEF Plain
<1> QED  BY <1>2, PlainKeeps

\* A settling thread wakes the listeners
LEMMA WakeFailedKeeps ==
    ASSUME Placed, OneShotInv, NEW a \in Actors, WakeFailed(a)
    PROVE  OneShotInv'
<1>1. Alone(a) /\ pc[a] \in {"wake_failed"} /\ pc'[a] \in {"release"}
  BY WakeOnly DEF WakeFailed
<1>2. UNCHANGED <<state, listeners, repeats, filled, bits, fate, queue>>
  BY DEF WakeFailed, callVars, counters, slotVars
<1>3. seen' = seen
  BY DEF WakeFailed
<1> QED  BY <1>1, <1>2, <1>3, CalmKeeps DEF CalmPc

\* ... and gives the executor's reference back
LEMMA ReleaseKeeps ==
    ASSUME Placed, OneShotInv, NEW a \in Actors, Release(a)
    PROVE  OneShotInv'
<1>1. Alone(a) /\ pc[a] \in {"release"} /\ pc'[a] \in {"unref", "idle"}
  BY GoOnly DEF Release
<1>2. UNCHANGED <<state, listeners, repeats, filled, bits, fate, queue>>
  BY DEF Release, callVars, counters, slotVars
<1>3. seen' = seen
  BY DEF Release
<1> QED  BY <1>1, <1>2, <1>3, CalmKeeps DEF CalmPc

\* A waiting call looks at the state
LEMMA WaitKeeps ==
    ASSUME Placed, OneShotInv, NEW h \in Handles, h \in Actors, Wait(h)
    PROVE  OneShotInv'
<1>1. Alone(h) /\ pc[h] \in {"wait"} /\ pc'[h] \in {"block", "drop", "idle", "enter", "claim_result"}
  BY GoOnly DEF Wait, Finish
<1>2. UNCHANGED <<state, listeners, repeats, filled, bits, fate, queue>>
  BY DEF Wait, callVars, counters, slotVars
<1>3. \A g \in Handles : g # h => seen'[g] = seen[g]
  BY DEF Wait
<1> QED  BY <1>1, <1>2, <1>3, CalmKeeps DEF CalmPc

\* ... sleeps on it
LEMMA BlockKeeps ==
    ASSUME Placed, OneShotInv, NEW h \in Handles, h \in Actors, Block(h)
    PROVE  OneShotInv'
<1>1. Alone(h) /\ pc[h] \in {"block"} /\ pc'[h] \in {"blocked", "wait"}
  BY GoOnly DEF Block
<1>2. UNCHANGED <<state, listeners, repeats, filled, bits, fate, queue>>
  BY DEF Block, callVars, counters, slotVars
<1>3. seen' = seen
  BY DEF Block
<1> QED  BY <1>1, <1>2, <1>3, CalmKeeps DEF CalmPc

\* ... or gives up
LEMMA GiveUpKeeps ==
    ASSUME Placed, OneShotInv, NEW h \in Handles, h \in Actors, GiveUpWait(h)
    PROVE  OneShotInv'
<1>1. Alone(h) /\ pc[h] \in {"block", "blocked"} /\ pc'[h] \in {"idle"}
  BY GoOnly DEF GiveUpWait
<1>2. UNCHANGED <<state, listeners, repeats, filled, bits, fate, queue>>
  BY DEF GiveUpWait, callVars, counters, slotVars
<1>3. seen' = seen
  BY DEF GiveUpWait
<1> QED  BY <1>1, <1>2, <1>3, CalmKeeps DEF CalmPc

\* A read is counted
LEMMA EnterKeeps ==
    ASSUME Placed, OneShotInv, NEW h \in Handles, h \in Actors, EnterRead(h)
    PROVE  OneShotInv'
<1>1. Alone(h) /\ pc[h] \in {"enter"} /\ pc'[h] \in {"check"}
  BY GoOnly DEF EnterRead
<1>2. UNCHANGED <<state, listeners, repeats, filled, bits, fate, queue>>
  BY DEF EnterRead, callVars, counters, slotVars
<1>3. seen' = seen
  BY DEF EnterRead
<1> QED  BY <1>1, <1>2, <1>3, CalmKeeps DEF CalmPc

\* ... clones the output
LEMMA CloneKeeps ==
    ASSUME Placed, OneShotInv, NEW h \in Handles, h \in Actors, CloneOutput(h)
    PROVE  OneShotInv'
<1>1. Alone(h) /\ pc[h] \in {"clone"} /\ pc'[h] \in {"leave"}
  BY GoOnly DEF CloneOutput
<1>2. UNCHANGED <<state, listeners, repeats, filled, bits, fate, queue>>
  BY DEF CloneOutput, callVars, counters, slotVars
<1>3. seen' = seen
  BY DEF CloneOutput
<1> QED  BY <1>1, <1>2, <1>3, CalmKeeps DEF CalmPc

\* ... and leaves
LEMMA LeaveKeeps ==
    ASSUME Placed, OneShotInv, NEW h \in Handles, h \in Actors, LeaveRead(h)
    PROVE  OneShotInv'
<1>1. Alone(h) /\ pc[h] \in {"leave", "leave_bad"} /\ pc'[h] \in {"drop", "idle", "lost"}
  BY GoOnly DEF LeaveRead, Finish
<1>2. UNCHANGED <<state, listeners, repeats, filled, bits, fate, queue>>
  BY DEF LeaveRead, callVars, counters, slotVars
<1>3. seen' = seen
  BY DEF LeaveRead
<1> QED  BY <1>1, <1>2, <1>3, CalmKeeps DEF CalmPc

\* A call that lost its race goes round again or ends
LEMMA LostKeeps ==
    ASSUME Placed, OneShotInv, NEW h \in Handles, h \in Actors, Lost(h)
    PROVE  OneShotInv'
<1>1. Alone(h) /\ pc[h] \in {"lost"} /\ pc'[h] \in {"wait", "drop", "idle"}
  BY GoOnly DEF Lost, Finish
<1>2. UNCHANGED <<state, listeners, repeats, filled, bits, fate, queue>>
  BY DEF Lost, callVars, counters, slotVars
<1>3. seen' = seen
  BY DEF Lost
<1> QED  BY <1>1, <1>2, <1>3, CalmKeeps DEF CalmPc

\* A cancel wakes the listeners
LEMMA StoppedKeeps ==
    ASSUME Placed, OneShotInv, NEW h \in Handles, h \in Actors, Stopped(h)
    PROVE  OneShotInv'
<1>1. Alone(h) /\ pc[h] \in {"stopped"} /\ pc'[h] \in {"drop"}
  BY WakeOnly DEF Stopped
<1>2. UNCHANGED <<state, listeners, repeats, filled, bits, fate, queue>>
  BY DEF Stopped, callVars, counters, slotVars
<1>3. seen' = seen
  BY DEF Stopped
<1> QED  BY <1>1, <1>2, <1>3, CalmKeeps DEF CalmPc

\* The owner of a handle makes a call
LEMMA CallKeeps ==
    ASSUME Placed, OneShotInv, NEW h \in Handles, h \in Actors, Call(h)
    PROVE  OneShotInv'
<1>1. Alone(h) /\ pc[h] \in {"idle"} /\ pc'[h] \in {"stop", "enter", "claim_result", "wait"}
  BY GoOnly DEF Call
<1>2. UNCHANGED <<state, listeners, repeats, filled, bits, fate, queue>>
  BY DEF Call, callVars, counters, slotVars
<1>3. seen' = seen
  BY DEF Call
<1> QED  BY <1>1, <1>2, <1>3, CalmKeeps DEF CalmPc

\* A published run wakes the listeners
LEMMA WakeReadyKeeps ==
    ASSUME Placed, OneShotInv, NEW w \in Workers, w \in Actors, WakeReady(w)
    PROVE  OneShotInv'
<1>1. Alone(w) /\ pc[w] \in {"wake"} /\ pc'[w] \in {"after"}
  BY WakeOnly DEF WakeReady
<1>2. UNCHANGED <<state, listeners, repeats, filled, bits, fate, queue>>
  BY DEF WakeReady, callVars, counters, slotVars
<1>3. seen' = seen
  BY DEF WakeReady
<1> QED  BY <1>1, <1>2, <1>3, CalmKeeps DEF CalmPc

\* A run whose task was settled for it lets go
LEMMA SettleLostKeeps ==
    ASSUME Placed, OneShotInv, NEW w \in Workers, w \in Actors, SettleLost(w)
    PROVE  OneShotInv'
<1>1. Alone(w) /\ pc[w] \in {"give_up", "panicked"} /\ pc'[w] \in {"release"}
  BY GoOnly DEF SettleLost
<1>2. UNCHANGED <<state, listeners, repeats, filled, bits, fate, queue>>
  BY DEF SettleLost, callVars, counters, slotVars
<1>3. seen' = seen
  BY DEF SettleLost
<1> QED  BY <1>1, <1>2, <1>3, CalmKeeps DEF CalmPc

\* A new task is offered to the pool
LEMMA SubmitKeeps ==
    ASSUME Placed, OneShotInv, NEW h \in Handles, h \in Actors, h \notin Workers, Submit(h)
    PROVE  OneShotInv'
<1>1. Alone(h) /\ pc[h] = "submit" /\ pc'[h] \in {"push", "refuse"}
  BY GoOnly DEF Submit
<1>2. Unseen /\ ~filled
  BY <1>1 DEF OneShotInv, BeforeWrite
<1>3. UNCHANGED <<listeners, repeats, filled, bits, fate, seen, queue, state>>
  BY DEF Submit, callVars, counters, slotVars
<1>5. Plain(h)
  BY <1>1, <1>2, <1>3 DEF Plain, OutputPc, BeforeWrite, Unseen
<1> QED  BY <1>1, <1>5, PlainKeeps

\* ... and queued
LEMMA PushKeeps ==
    ASSUME Placed, OneShotInv, NEW h \in Handles, h \in Actors, h \notin Workers, Push(h)
    PROVE  OneShotInv'
<1>1. Alone(h) /\ pc[h] = "push" /\ pc'[h] \in {"idle"}
  BY GoOnly DEF Push
<1>2. Unseen /\ ~filled
  BY <1>1 DEF OneShotInv, BeforeWrite
<1>3. UNCHANGED <<listeners, repeats, filled, bits, fate, seen, state>>
  BY DEF Push, callVars, counters, slotVars
<1>5. Plain(h)
  BY <1>1, <1>2, <1>3 DEF Plain, OutputPc, BeforeWrite, Unseen
<1> QED  BY <1>1, <1>5, PlainKeeps

\* ... or refused
LEMMA RefuseKeeps ==
    ASSUME Placed, OneShotInv, NEW h \in Handles, h \in Actors, h \notin Workers, Refuse(h)
    PROVE  OneShotInv'
<1>1. Alone(h) /\ pc[h] = "refuse" /\ pc'[h] \in {"wake_failed"}
  BY GoOnly DEF Refuse
<1>2. Unseen /\ ~filled
  BY <1>1 DEF OneShotInv, BeforeWrite
<1>3. UNCHANGED <<listeners, repeats, filled, bits, fate, seen, queue>>
  BY DEF Refuse, callVars, counters, slotVars
<1>4. state' = "Failed"
  BY <1>2 DEF Refuse
<1>5. Plain(h)
  BY <1>1, <1>2, <1>3, <1>4 DEF Plain, OutputPc, BeforeWrite, Unseen
<1> QED  BY <1>1, <1>5, PlainKeeps

\* A cancel wins or goes round again
LEMMA StopCasKeeps ==
    ASSUME Placed, OneShotInv, NEW h \in Handles, h \in Actors, h \notin Workers, StopCas(h)
    PROVE  OneShotInv'
<1>1. Alone(h) /\ pc[h] = "stop_cas" /\ pc'[h] \in {"stopped", "stop"}
  BY GoOnly DEF StopCas
<1>2. seen[h] # "Taken"
  BY <1>1 DEF OneShotInv
<1>3. UNCHANGED <<listeners, repeats, filled, bits, fate, seen, queue>>
  BY DEF StopCas, callVars, counters, slotVars
<1>4. state' # state => state' = "Cancelled" /\ state # "Taken"
  BY <1>2 DEF StopCas
<1>5. Plain(h)
  BY <1>1, <1>2, <1>3, <1>4 DEF Plain, OutputPc, BeforeWrite, Unseen
<1> QED  BY <1>1, <1>5, PlainKeeps

\* A run claims the task
LEMMA ClaimKeeps ==
    ASSUME Placed, OneShotInv, NEW w \in Workers, w \in Actors, w \notin Handles, Claim(w)
    PROVE  OneShotInv'
<1>1. Alone(w) /\ pc[w] = "claim" /\ pc'[w] \in {"begin", "idle"}
  BY GoOnly DEF Claim
<1>2. Unseen /\ ~filled
  BY <1>1 DEF OneShotInv, BeforeWrite
<1>3. UNCHANGED <<listeners, repeats, filled, bits, fate, seen, queue, state>>
  BY DEF Claim, callVars, counters, slotVars
<1>5. Plain(w)
  BY <1>1, <1>2, <1>3 DEF Plain, OutputPc, BeforeWrite, Unseen
<1> QED  BY <1>1, <1>5, PlainKeeps

\* A finished run counts itself
LEMMA AfterKeeps ==
    ASSUME Placed, OneShotInv, NEW w \in Workers, w \in Actors, w \notin Handles, After(w)
    PROVE  OneShotInv'
<1>2. ~repeats
  BY DEF OneShotInv
<1>1. Alone(w) /\ pc[w] = "after" /\ pc'[w] \in {"release"}
  BY <1>2, GoOnly DEF After
<1>3. UNCHANGED <<listeners, repeats, filled, bits, fate, seen, queue, state>>
  BY <1>2 DEF After, callVars, counters, slotVars
<1>5. Plain(w)
  BY <1>1, <1>2, <1>3 DEF Plain, OutputPc, BeforeWrite, Unseen
<1> QED  BY <1>1, <1>5, PlainKeeps

\* `fail` settles the task
LEMMA SetFailedKeeps ==
    ASSUME Placed, OneShotInv, Reaper \in Actors, Reaper \notin Workers, SetFailed
    PROVE  OneShotInv'
<1>1. Alone(Reaper) /\ pc[Reaper] = "set_failed" /\ pc'[Reaper] \in {"wake_failed"}
  BY GoOnly DEF SetFailed
<1>2. Unseen /\ ~filled
  BY <1>1 DEF OneShotInv, BeforeWrite
<1>3. UNCHANGED <<listeners, repeats, filled, bits, fate, seen, queue>>
  BY DEF SetFailed, callVars, counters, slotVars
<1>4. state' = "Failed"
  BY <1>2 DEF SetFailed
<1>5. Plain(Reaper)
  BY <1>1, <1>2, <1>3, <1>4 DEF Plain, OutputPc, BeforeWrite, Unseen
<1> QED  BY <1>1, <1>5, PlainKeeps

\* A shutdown sweeps the table
LEMMA SweepKeeps ==
    ASSUME Placed, OneShotInv, Reaper \in Actors, Reaper \notin Workers, Sweep
    PROVE  OneShotInv'
<1>1. Alone(Reaper) /\ pc[Reaper] = "idle" /\ pc'[Reaper] \in {"fail", "idle"}
  BY GoOnly DEF Sweep
<1>2. pc'[Reaper] = "fail" => state # "Running"
  BY <1>1, GoOnly DEF Sweep
<1>3. UNCHANGED <<listeners, repeats, filled, bits, fate, seen, queue, state>>
  BY DEF Sweep, callVars, counters, slotVars
<1>5. Plain(Reaper)
  BY <1>1, <1>2, <1>3 DEF Plain, OutputPc, BeforeWrite, Unseen
<1> QED  BY <1>1, <1>5, PlainKeeps

\* `fail` looks at the state
LEMMA FailKeeps ==
    ASSUME Placed, OneShotInv, Reaper \in Actors, Reaper \notin Workers, Fail
    PROVE  OneShotInv'
<1>1. Alone(Reaper) /\ pc[Reaper] = "fail" /\ pc'[Reaper] \in {"release", "set_failed"}
  BY GoOnly DEF Fail
<1>2. pc'[Reaper] = "set_failed" => Unseen /\ ~filled
  <2>1. state \in {"Pending", "Running"} => Unseen /\ ~filled
    BY <1>1 DEF OneShotInv, Unseen
  <2> QED  BY <1>1, <2>1, GoOnly DEF Fail, terminal
<1>3. UNCHANGED <<listeners, repeats, filled, bits, fate, seen, queue, state>>
  BY DEF Fail, callVars, counters, slotVars
<1>5. Plain(Reaper)
  BY <1>1, <1>2, <1>3 DEF Plain, OutputPc, BeforeWrite, Unseen
<1> QED  BY <1>1, <1>5, PlainKeeps

\* ... or drains the queue
LEMMA DrainKeeps ==
    ASSUME Placed, OneShotInv, Reaper \in Actors, Reaper \notin Workers, Drain
    PROVE  OneShotInv'
<1>1. Alone(Reaper) /\ pc[Reaper] = "idle" /\ pc'[Reaper] \in {"fail"}
  BY GoOnly DEF Drain
<1>2. Unseen /\ ~filled
  BY <1>1 DEF OneShotInv, Drain
<1>3. UNCHANGED <<listeners, repeats, filled, bits, fate, seen, state>>
  BY DEF Drain, callVars, counters, slotVars
<1>4. queue > 0
  BY <1>2 DEF Drain
<1>5. Plain(Reaper)
  BY <1>1, <1>2, <1>3, <1>4 DEF Plain, OutputPc, BeforeWrite, Unseen
<1> QED  BY <1>1, <1>5, PlainKeeps

\* A worker takes the task's entry off the queue
LEMMA PopKeeps ==
    ASSUME Placed, OneShotInv, NEW w \in Workers, w \in Actors, w \notin Handles, Pop(w)
    PROVE  OneShotInv'
<1>1. Alone(w) /\ pc[w] = "idle" /\ pc'[w] \in {"claim"}
  BY GoOnly DEF Pop
<1>2. Unseen /\ ~filled
  BY <1>1 DEF OneShotInv, Pop
<1>3. UNCHANGED <<listeners, repeats, filled, bits, fate, seen, state>>
  BY DEF Pop, callVars, counters, slotVars
<1>4. queue > 0
  BY <1>2 DEF Pop
<1>5. Plain(w)
  BY <1>1, <1>2, <1>3, <1>4 DEF Plain, OutputPc, BeforeWrite, Unseen
<1> QED  BY <1>1, <1>5, PlainKeeps

\* A panicked run settles its task
LEMMA SettleKeeps ==
    ASSUME Placed, OneShotInv, NEW w \in Workers, w \in Actors, w \notin Handles, Settle(w)
    PROVE  OneShotInv'
<1>1. Alone(w) /\ pc[w] = "panicked" /\ pc'[w] \in {"wake_failed"}
  <2>1. pc[w] # "give_up"
    BY DEF OneShotInv
  <2> QED  BY <2>1, GoOnly DEF Settle
<1>2. Unseen
  BY <1>1 DEF OneShotInv, BeforeWrite
<1>3. UNCHANGED <<listeners, repeats, filled, bits, fate, seen, queue>>
  BY DEF Settle, callVars, counters, slotVars
<1>4. state' = "Failed"
  BY <1>2 DEF Settle
<1>5. Plain(w)
  BY <1>1, <1>2, <1>3, <1>4 DEF Plain, OutputPc, BeforeWrite, Unseen
<1> QED  BY <1>1, <1>5, PlainKeeps

-----------------------------------------------------------------------------
(* The steps that write, read, move out or drop the output.                *)

\* What the counters tell a thread about the others: RefsCounted and ReadersCounted
\* without the counting
Counted ==
    /\ \A h \in Handles : pc[h] \notin {"none", "gone"} => listeners > 0
    /\ \A a \in Actors : pc[a] = "unref" => listeners > 0
    /\ held => listeners > 0
    /\ readers = 0 => \A h \in Handles : pc[h] # "clone"
    /\ listeners = 1 =>
         /\ \A g, h \in Handles :
              pc[g] \notin {"none", "gone"} /\ pc[h] \notin {"none", "gone"} => g = h
         /\ \A a \in Actors : pc[a] = "unref" => ~held /\ \A h \in Handles : pc[h] \in {"none", "gone"}
         /\ \A h \in Handles : pc[h] \notin {"none", "gone"} => ~held

\* Nothing the invariant is about moves
LEMMA StillOneShot ==
    ASSUME OneShotInv, UNCHANGED <<state, listeners, repeats, filled, bits, fate, queue, seen, pc>>
    PROVE  OneShotInv'
BY DEF OneShotInv, Unseen

\* The calls that read or move the output
LEMMA TakeOneShot ==
    ASSUME TypeOK, SlotInv, Counted, OneShotInv, NEW h \in Handles,
           \/ CheckRead(h) \/ ClaimResult(h) \/ SpinReaders(h) \/ Empty(h) \/ ReadOut(h) \/ Stop(h)
    PROVE  OneShotInv'
<1> USE DEF counters, slotVars, callVars
<1>a. h \in Actors /\ h # Reaper /\ h \notin Workers
  BY SlotAssumption DEF Actors
<1>b. Placed /\ Runs \in Nat \ {0}
  BY SlotAssumption DEF TypeOK, Placed
<1>c. Reaper \in Actors /\ Handles \subseteq Actors /\ Workers \subseteq Actors
  BY DEF Actors
<1>d. pc[h] \notin {"none", "gone"} => listeners > 0
  BY DEF Counted
<1>1. CASE CheckRead(h)
  <2>1. /\ pc[h] = "check" /\ Alone(h) /\ pc'[h] = IF state = "Ready" THEN "clone" ELSE "leave_bad"
        /\ \A b \in Actors : b # h => pc'[b] = pc[b]
    BY <1>1, <1>a, <1>b, GoOnly DEF CheckRead
  <2>2. UNCHANGED <<state, listeners, repeats, filled, bits, fate, queue, seen>>
    BY <1>1 DEF CheckRead
  <2>3. CASE state = "Ready"
    BY <1>a, <1>c, <2>1, <2>2, <2>3 DEF OneShotInv, Unseen, BeforeWrite
  <2>4. CASE state # "Ready"
    <3>1. Plain(h)
      BY <1>a, <2>1, <2>2, <2>4 DEF Plain, OutputPc, BeforeWrite
    <3> QED  BY <1>a, <2>1, <3>1, PlainKeeps
  <2> QED  BY <2>3, <2>4
<1>2. CASE ClaimResult(h)
  <2>1. /\ pc[h] = "claim_result" /\ Alone(h) /\ pc'[h] = IF state = "Ready" THEN "spin" ELSE "lost"
        /\ state' = IF state = "Ready" THEN "Taken" ELSE state
        /\ \A b \in Actors : b # h => pc'[b] = pc[b]
    BY <1>2, <1>a, <1>b, GoOnly DEF ClaimResult
  <2>2. UNCHANGED <<listeners, repeats, filled, bits, fate, queue, seen>>
    BY <1>2 DEF ClaimResult
  <2>3. CASE state = "Ready"
    BY <1>a, <1>c, <2>1, <2>2, <2>3 DEF OneShotInv, Unseen, BeforeWrite
  <2>4. CASE state # "Ready"
    <3>1. Plain(h)
      BY <1>a, <2>1, <2>2, <2>4 DEF Plain, OutputPc, BeforeWrite
    <3> QED  BY <1>a, <2>1, <3>1, PlainKeeps
  <2> QED  BY <2>3, <2>4
<1>3. CASE SpinReaders(h)
  <2>1. /\ pc[h] = "spin" /\ pc'[h] = "empty"
        /\ \A b \in Actors : b # h => pc'[b] = pc[b]
    BY <1>3, <1>a, <1>b, GoOnly DEF SpinReaders
  <2>2. UNCHANGED <<state, listeners, repeats, filled, bits, fate, queue, seen>>
    BY <1>3 DEF SpinReaders
  <2>3. \A g \in Handles : pc[g] # "clone"
    BY <1>3 DEF SpinReaders, Counted
  <2> QED  BY <1>a, <1>c, <2>1, <2>2, <2>3 DEF OneShotInv, Unseen, BeforeWrite
<1>4. CASE Empty(h)
  <2>1. /\ pc[h] = "empty" /\ pc'[h] = "read"
        /\ \A b \in Actors : b # h => pc'[b] = pc[b]
    BY <1>4, <1>a, <1>b, GoOnly DEF Empty
  <2>2. UNCHANGED <<state, listeners, repeats, bits, fate, queue, seen>> /\ ~filled'
    BY <1>4 DEF Empty
  <2>3. listeners > 0
    BY <1>d, <2>1
  <2> QED  BY <1>a, <1>c, <2>1, <2>2, <2>3 DEF OneShotInv, Unseen, BeforeWrite
<1>5. CASE ReadOut(h)
  <2>1. /\ pc[h] = "read" /\ pc'[h] \in {"drop", "idle"}
        /\ \A b \in Actors : b # h => pc'[b] = pc[b]
    BY <1>5, <1>a, <1>b, GoOnly DEF ReadOut, Finish
  <2>2. UNCHANGED <<state, listeners, repeats, filled, bits, queue, seen>> /\ fate' = Own(fate, bits)
    BY <1>5 DEF ReadOut
  <2>3. listeners > 0 /\ bits = 1 /\ fate[1] = "live" /\ ~filled
    BY <1>d, <2>1 DEF OneShotInv
  <2>4. fate'[1] = "gone"
    BY <1>b, <2>2, <2>3 DEF Own, TypeOK
  <2>5. \A w \in Workers : pc[w] # "fill"
    BY <2>1 DEF OneShotInv, Unseen
  <2> QED  BY <1>a, <1>c, <2>1, <2>2, <2>3, <2>4, <2>5 DEF OneShotInv, Unseen, BeforeWrite
<1>6. CASE Stop(h)
  <2>1. /\ pc[h] = "stop" /\ Alone(h) /\ pc'[h] \in {"drop", "stop_cas"}
        /\ \A b \in Actors : b # h => pc'[b] = pc[b]
        /\ pc'[h] = "stop_cas" => state # "Free" /\ (state = "Taken" => repeats)
    BY <1>6, <1>a, <1>b, GoOnly DEF Stop
  <2>2. UNCHANGED <<state, listeners, repeats, filled, bits, fate, queue>>
    BY <1>6 DEF Stop
  <2>3. seen'[h] = state /\ \A g \in Handles : g # h => seen'[g] = seen[g]
    BY <1>6, <1>b DEF Stop, TypeOK
  <2> QED  BY <1>a, <1>c, <2>1, <2>2, <2>3 DEF OneShotInv, Unseen, BeforeWrite
<1> QED  BY <1>1, <1>2, <1>3, <1>4, <1>5, <1>6

\* A run from `begin` to the published output
LEMMA WriteOneShot ==
    ASSUME TypeOK, SlotInv, Counted, OneShotInv, Runs = 1, NEW w \in Workers,
           Begin(w) \/ Exec(w) \/ Fill(w) \/ Publish(w)
    PROVE  OneShotInv'
<1> USE DEF counters, slotVars, callVars
<1>a. w \in Actors /\ w # Reaper /\ w \notin Handles
  BY SlotAssumption DEF Actors
<1>b. Placed
  BY DEF TypeOK, Placed
<1>c. Reaper \in Actors /\ Handles \subseteq Actors /\ Workers \subseteq Actors
  BY DEF Actors
<1>d. pc[w] \in DutyPc => /\ held /\ listeners > 0 /\ queue = 0
                          /\ \A b \in Actors : b # w => pc[b] \notin DutyPc
  <2>1. pc[w] \in DutyPc => /\ held
                            /\ \A b \in Actors : b # w => pc[b] \notin DutyPc
                            /\ queue = 0
    BY <1>a DEF SlotInv, DutyUnique, OnDuty, DutyPc
  <2> QED  BY <2>1 DEF Counted
<1>1. CASE Begin(w)
  <2>1. pc[w] = "begin" /\ Unseen /\ ~filled /\ ~repeats /\ Alone(w)
    BY <1>1, <1>a, <1>b, GoOnly DEF Begin, OneShotInv, BeforeWrite
  <2>2. UNCHANGED <<listeners, repeats, filled, bits, fate, queue, seen>>
    BY <1>1 DEF Begin
  <2>3. /\ \/ state = "Pending" /\ state' = "Running" /\ pc'[w] = "exec"
           \/ state' = state /\ pc'[w] = "release"
        /\ \A b \in Actors : b # w => pc'[b] = pc[b]
    BY <1>1, <1>a, <1>b, <2>1, GoOnly DEF Begin
  <2> QED  BY <1>a, <1>c, <2>1, <2>2, <2>3 DEF OneShotInv, Unseen, BeforeWrite
<1>2. CASE Exec(w)
  <2>1. pc[w] = "exec" /\ Unseen /\ ~filled /\ Alone(w)
    BY <1>2, <1>a, <1>b, GoOnly DEF Exec, OneShotInv, BeforeWrite
  <2>2. UNCHANGED <<state, listeners, repeats, filled, queue, seen>>
    BY <1>2 DEF Exec
  <2>3. \A b \in Actors : b # w => pc'[b] = pc[b]
    BY <1>2, <1>a, <1>b, GoOnly DEF Exec
  <2>4. CASE pc'[w] \in {"panicked", "dead"}
    <3>1. bits' = bits /\ fate' = fate
      BY <1>2, <1>a, <1>b, <2>4, GoOnly DEF Exec
    <3>2. Plain(w)
      BY <2>1, <2>2, <2>4, <3>1, <1>a DEF Plain, OutputPc
    <3> QED  BY <1>a, <2>1, <3>2, PlainKeeps
  <2>5. CASE pc'[w] \notin {"panicked", "dead"}
    <3>1. runsLeft = 1
      BY <1>2, <1>b DEF Exec, SlotInv, RunsRemain, TypeOK
    <3>2. pc'[w] = "fill" /\ bits' = 1 /\ fate' = [fate EXCEPT ![1] = "live"]
      <4>1. Go(w, "fill") /\ bits' = Runs - runsLeft + 1 /\ fate' = [fate EXCEPT ![bits'] = "live"]
        BY <1>2, <1>a, <1>b, <2>5, GoOnly DEF Exec
      <4> QED  BY <4>1, <3>1, <1>a, <1>b, GoOnly
    <3>3. fate'[1] = "live"
      BY <1>b, <3>2 DEF TypeOK
    <3>4. listeners > 0 /\ queue = 0
      BY <1>d, <2>1 DEF DutyPc
    <3>5. \A v \in Workers : v # w => pc[v] # "fill"
      BY <1>d, <1>c, <2>1 DEF DutyPc
    <3>6. \A h \in Handles : pc[h] # "read" /\ pc[h] # "clone"
      BY <2>1 DEF OneShotInv, Unseen
    <3>7. state # "Pending" /\ ~(\A h \in Handles : pc'[h] = "none")
      <4>1. state # "Pending"
        BY <2>1 DEF OneShotInv
      <4>2. pc[w] # "idle"
        BY <2>1
      <4> QED  BY <4>1, <4>2, <1>a, <1>c, <2>3 DEF SlotInv, NotStarted
    <3> QED  BY <1>a, <1>c, <2>1, <2>2, <2>3, <3>2, <3>3, <3>4, <3>5, <3>6, <3>7
              DEF OneShotInv, Unseen, BeforeWrite
  <2> QED  BY <2>4, <2>5
<1>3. CASE Fill(w)
  <2>1. /\ pc[w] = "fill" /\ pc'[w] = "publish"
        /\ \A b \in Actors : b # w => pc'[b] = pc[b]
    BY <1>3, <1>a, <1>b, GoOnly DEF Fill
  <2>2. UNCHANGED <<state, listeners, repeats, bits, fate, queue, seen>> /\ filled'
    BY <1>3 DEF Fill
  <2>3. /\ listeners > 0 /\ queue = 0
        /\ \A b \in Actors : b # w => pc[b] \notin BeforeWrite /\ pc[b] \notin {"fail", "fill"}
    BY <1>d, <2>1 DEF DutyPc, BeforeWrite
  <2>4. /\ Unseen /\ ~filled /\ fate[1] = "live" /\ bits = 1 /\ state # "Pending"
        /\ \A h \in Handles : pc[h] \notin {"spin", "empty", "read", "clone"}
    BY <2>1 DEF OneShotInv, Unseen
  <2>5. ~(\A h \in Handles : pc'[h] = "none")
    BY <1>a, <1>c, <2>1 DEF SlotInv, NotStarted
  <2> QED  BY <1>a, <1>c, <2>1, <2>2, <2>3, <2>4, <2>5 DEF OneShotInv, Unseen, BeforeWrite
<1>4. CASE Publish(w)
  <2>1. /\ pc[w] = "publish" /\ Alone(w) /\ pc'[w] \in {"wake", "release"}
        /\ \A b \in Actors : b # w => pc'[b] = pc[b]
        /\ \/ state = "Running" /\ state' = "Ready"
           \/ state' = state
    BY <1>4, <1>a, <1>b, GoOnly DEF Publish
  <2>2. UNCHANGED <<listeners, repeats, filled, bits, fate, queue, seen>>
    BY <1>4 DEF Publish
  <2>3. /\ queue = 0
        /\ \A b \in Actors : b # w => pc[b] \notin BeforeWrite /\ pc[b] \notin {"fail", "fill", "publish"}
    BY <1>d, <2>1 DEF DutyPc, BeforeWrite
  <2>4. Unseen /\ filled
    BY <2>1 DEF OneShotInv
  <2> QED  BY <1>a, <1>c, <2>1, <2>2, <2>3, <2>4 DEF OneShotInv, Unseen, BeforeWrite
<1> QED  BY <1>1, <1>2, <1>3, <1>4

\* The last reference takes an output still in the slot with it
LEMMA DropOneShot ==
    ASSUME TypeOK, SlotInv, Counted, OneShotInv, Runs = 1, NEW a \in Actors, NEW p \in {"idle", "gone"},
           DropListener, Go(a, p), p = "gone" => a \in Handles,
           IF a \in Handles THEN pc[a] \in {"idle", "drop", "unref"} ELSE pc[a] = "unref",
           UNCHANGED <<filled, repeats, bits, queue, seen>>
    PROVE  OneShotInv'
<1>b. Placed
  BY DEF TypeOK, Placed
<1>c. Reaper \in Actors /\ Handles \subseteq Actors /\ Workers \subseteq Actors
  BY DEF Actors
<1>1. Alone(a) /\ pc'[a] = p /\ \A b \in Actors : b # a => pc'[b] = pc[b]
  BY <1>b, GoOnly
<1>2. listeners > 0 /\ listeners \in Nat /\ listeners' = listeners - 1
  <2>1. listeners > 0
    BY DEF Counted
  <2> QED  BY <2>1, <1>b DEF TypeOK, DropListener
<1>3. CASE listeners # 1
  <2>1. UNCHANGED <<state, fate>>
    BY <1>3 DEF DropListener
  <2>2. Plain(a)
    BY <1>1, <1>2, <1>3, <2>1, SlotAssumption DEF Plain, OutputPc, BeforeWrite
  <2> QED  BY <1>1, <2>2, PlainKeeps
<1>4. CASE listeners = 1
  <2>1. state' = "Free" /\ fate' = (IF filled THEN Own(fate, bits) ELSE fate) /\ listeners' = 0
    BY <1>2, <1>4 DEF DropListener
  <2>2. /\ \A h \in Handles : h # a => pc[h] \in {"none", "gone"}
        /\ ~held
    BY <1>4, <1>c DEF Counted
  <2>3. \A b \in Actors : pc[b] \notin {"fill", "publish", "exec"} \/ b \in Handles
    BY <2>2 DEF SlotInv, DutyUnique, OnDuty, DutyPc, Actors, TypeOK, ReaperPc
  <2>4. filled => fate[1] = "live" /\ bits = 1
    BY <1>2 DEF OneShotInv
  <2>5. /\ fate'[1] = IF filled THEN "gone" ELSE fate[1]
        /\ fate[1] = "live" => filled
    <3>1. filled => fate'[1] = "gone"
      BY <1>b, <2>1, <2>4 DEF Own, TypeOK
    <3>2. ~filled => fate'[1] = fate[1]
      BY <2>1
    <3>3. (\A h \in Handles : pc[h] # "read") /\ (\A w \in Workers : pc[w] # "fill")
      <4>1. \A w \in Workers : pc[w] # "fill" \/ w \in Handles
        BY <1>c, <2>3
      <4> QED  BY <4>1, <2>2, SlotAssumption
    <3>4. fate[1] = "live" => filled
      BY <3>3 DEF OneShotInv
    <3> QED  BY <3>1, <3>2, <3>4
  <2>6. \A h \in Handles : pc'[h] \in {"none", "gone", "idle"}
    BY <1>1, <1>c, <2>2
  <2>7. \A w \in Workers : pc'[w] # "fill" /\ pc'[w] # "publish" /\ pc'[w] # "exec"
    BY <1>1, <1>c, <2>3, SlotAssumption
  <2>8. \A b \in Actors : pc'[b] \in BeforeWrite => ~filled
    BY <1>1 DEF OneShotInv, BeforeWrite
  <2>9. (\A h \in Handles : pc'[h] = "none") => ~filled /\ fate'[1] = "unwritten"
    <3>1. CASE a \in Handles /\ p = "gone"
      BY <1>1, <3>1
    <3>2. CASE a \in Handles /\ p = "idle"
      BY <1>1, <3>2
    <3>3. CASE a \notin Handles
      BY <1>1, <1>c, <3>3, <2>5 DEF OneShotInv
    <3> QED  BY <3>1, <3>2, <3>3
  <2>10. ~repeats' /\ \A w \in Workers : pc'[w] \notin {"recycle", "rearm", "submit", "push", "give_up"}
    <3>1. ~repeats /\ \A w \in Workers : pc[w] \notin {"recycle", "rearm", "submit", "push", "give_up"}
      BY DEF OneShotInv
    <3> QED  BY <1>1, <1>c, <3>1
  <2>11. /\ queue' > 0 => ~filled' 
         /\ fate'[1] # "live" /\ fate'[1] # "twice"
    BY <2>5 DEF OneShotInv
  <2> QED  BY <2>1, <2>6, <2>7, <2>8, <2>9, <2>10, <2>11 DEF OneShotInv, Unseen
<1> QED  BY <1>3, <1>4

\* A task is put in the slot, a handle is cloned, a dead thread is found
LEMMA MakeOneShot ==
    ASSUME TypeOK, SlotInv, Counted, OneShotInv,
           \/ \E h \in Handles : Create(h)
           \/ \E h, g \in Handles : CloneHandle(h, g)
           \/ \E w \in Workers : Recover(w)
    PROVE  OneShotInv'
<1> USE DEF counters, slotVars, callVars
<1>b. Placed
  BY DEF TypeOK, Placed
<1>c. Reaper \in Actors /\ Handles \subseteq Actors /\ Workers \subseteq Actors
  BY DEF Actors
<1>1. CASE \E h \in Handles : Create(h)
  <2>1. PICK h \in Handles : Create(h)
    BY <1>1
  <2>2. /\ pc'[h] = "submit" /\ \A b \in Actors : b # h => pc'[b] = pc[b]
        /\ \A g \in Handles : pc[g] = "none"
    BY <2>1, <1>b, <1>c, GoOnly DEF Create
  <2>3. /\ state' = "Pending" /\ listeners' = 2
        /\ UNCHANGED <<filled, repeats, bits, fate, queue, seen>>
    BY <2>1 DEF Create
  <2>4. queue = 0 /\ pc[Reaper] = "idle" /\ \A w \in Workers : pc[w] = "idle"
    BY <2>2 DEF SlotInv, NotStarted
  <2>5. ~repeats /\ ~filled /\ fate[1] = "unwritten"
    BY <2>2 DEF OneShotInv
  <2>6. \A b \in Actors : b # h => pc'[b] \in {"none", "idle"}
    BY <2>2, <2>4 DEF Actors
  <2>7. h \notin Workers
    BY SlotAssumption
  <2> QED  BY <1>c, <2>2, <2>3, <2>4, <2>5, <2>6, <2>7 DEF OneShotInv, Unseen, BeforeWrite
<1>2. CASE \E h, g \in Handles : CloneHandle(h, g)
  <2>1. PICK h \in Handles, g \in Handles : CloneHandle(h, g)
    BY <1>2
  <2>2. g \in Actors /\ pc[g] = "none" /\ pc'[g] = "idle" /\ Alone(g) /\ pc[h] = "idle"
    BY <2>1, <1>b, <1>c, GoOnly DEF CloneHandle
  <2>3. listeners > 0 /\ listeners' = listeners + 1 /\ listeners \in Nat
    BY <2>1, <2>2 DEF CloneHandle, TypeOK, Counted
  <2>4. UNCHANGED <<state, repeats, filled, bits, fate, queue, seen>>
    BY <2>1 DEF CloneHandle
  <2>5. (listeners' > 0 <=> listeners > 0) /\ (listeners' = 0 => listeners = 0)
    BY <2>3
  <2>6. pc'[g] \notin OutputPc /\ pc'[g] \notin BeforeWrite
    BY <2>2 DEF OutputPc, BeforeWrite
  <2>7. Plain(g)
    BY <2>2, <2>4, <2>5, <2>6 DEF Plain
  <2> QED  BY <2>2, <2>7, PlainKeeps
<1>3. CASE \E w \in Workers : Recover(w)
  <2>1. PICK w \in Workers : Recover(w)
    BY <1>3
  <2>2. /\ pc[w] = "dead" /\ pc'[w] = "idle" /\ pc'[Reaper] = "fail" /\ pc[Reaper] = "idle"
        /\ \A b \in Actors : b # w /\ b # Reaper => pc'[b] = pc[b]
    BY <2>1, <1>b, <1>c DEF Recover, Placed
  <2>3. UNCHANGED <<state, listeners, repeats, filled, bits, fate, queue, seen>>
    BY <2>1 DEF Recover
  <2>4. Unseen /\ ~filled
    BY <1>c, <2>2 DEF OneShotInv, BeforeWrite
  <2>5. \A h \in Handles : h # w /\ h # Reaper
    BY SlotAssumption
  <2> QED  BY <1>c, <2>2, <2>3, <2>4, <2>5 DEF OneShotInv, Unseen, BeforeWrite
<1> QED  BY <1>1, <1>2, <1>3

-----------------------------------------------------------------------------
(* Both together.                                                          *)

\* When one reference is left, whoever holds it is alone with the slot
LEMMA LastOut ==
    ASSUME IInv, listeners = 1
    PROVE  /\ \A g, h \in Handles :
                pc[g] \notin {"none", "gone"} /\ pc[h] \notin {"none", "gone"} => g = h
           /\ \A a \in Actors : pc[a] = "unref" => ~held /\ \A h \in Handles : pc[h] \in {"none", "gone"}
           /\ \A h \in Handles : pc[h] \notin {"none", "gone"} => ~held
<1>1. TypeOK /\ RefsCounted
  BY DEF IInv, SlotInv
<1>2. /\ IsFiniteSet(Live) /\ Cardinality(Live) \in Nat /\ Cardinality(Releasing) \in Nat
      /\ Cardinality(Live) = 0 <=> Live = {}
      /\ Cardinality(Releasing) = 0 <=> Releasing = {}
  BY <1>1, SetsFinite, FS_EmptySet
<1>3. \A a \in Actors : pc[a] = "unref" => ~held /\ Live = {}
  BY <1>1, <1>2 DEF RefsCounted, Releasing
<1>4. \A h \in Handles : pc[h] \notin {"none", "gone"} => ~held
  BY <1>1, <1>2 DEF RefsCounted, Live
<1>5. Live # {} => Cardinality(Live) = 1
  BY <1>1, <1>2 DEF RefsCounted
<1>6. Live # {} => \E x : Live = {x}
  BY <1>2, <1>5, FS_Singleton
<1> QED  BY <1>3, <1>4, <1>6 DEF Live

\* The counters are exact, so Counted holds
LEMMA IsCounted == ASSUME IInv PROVE Counted
<1>1. TypeOK /\ ReadersCounted
  BY DEF IInv, SlotInv
<1>a. listeners \in Nat /\ (listeners >= 1 => listeners > 0)
  BY <1>1 DEF TypeOK
<1>2. \A h \in Handles : pc[h] \notin {"none", "gone"} => listeners > 0
  BY <1>a, Alive
<1>3. \A a \in Actors : pc[a] = "unref" => listeners > 0
  BY <1>a, Alive
<1>4. held => listeners > 0
  BY <1>a, Alive
<1>5. readers = 0 => \A h \in Handles : pc[h] # "clone"
  <2>1. IsFiniteSet(Reading)
    BY <1>1, SetsFinite
  <2>2. Cardinality(Reading) = 0 => Reading = {}
    BY <2>1, FS_EmptySet, ZenonT(30)
  <2> QED  BY <1>1, <2>2 DEF ReadersCounted, Reading
<1> QED  BY <1>2, <1>3, <1>4, <1>5, LastOut DEF Counted

\* No task, no output
LEMMA InitOneShot == ASSUME Runs = 1, ~Repeats, Init PROVE OneShotInv
BY SlotAssumption DEF Init, OneShotInv, BeforeWrite, Unseen, Actors

\* Every step keeps a one-shot's output where the invariant says it is
LEMMA NextOneShot ==
    ASSUME IInv, IInv', OneShotInv, Runs = 1, [Next]_vars
    PROVE  OneShotInv'
<1>1. Reaper \in Actors /\ Handles \subseteq Actors /\ Workers \subseteq Actors
  BY DEF Actors
<1>2. TypeOK /\ SlotInv /\ Counted
  BY IsCounted DEF IInv
<1>3. ASSUME NEW a \in Actors, Unref(a)
      PROVE  OneShotInv'
  <2>1. /\ pc[a] = "unref" /\ DropListener /\ Go(a, "idle")
        /\ UNCHANGED <<filled, repeats, bits, queue, seen>>
    BY <1>3 DEF Unref
  <2> QED  BY <1>2, <2>1, DropOneShot
<1>4. ASSUME NEW h \in Handles, DropHandle(h)
      PROVE  OneShotInv'
  <2>1. /\ pc[h] \in {"idle", "drop"} /\ DropListener /\ Go(h, "gone")
        /\ UNCHANGED <<filled, repeats, bits, queue, seen>>
    BY <1>4 DEF DropHandle
  <2> QED  BY <1>1, <1>2, <2>1, DropOneShot
<1>6. Placed /\ \A w \in Workers : w \in Actors /\ w \notin Handles
  BY <1>1, <1>2, SlotAssumption DEF TypeOK, Placed
<1>7. ASSUME NEW a \in Actors, Submit(a) \/ Push(a) \/ WakeFailed(a) \/ Release(a) \/ Unref(a)
      PROVE  OneShotInv'
  <2>1. CASE WakeFailed(a) \/ Release(a) \/ Unref(a)
    BY <2>1, <1>3, <1>6, WakeFailedKeeps, ReleaseKeeps
  <2>2. CASE Submit(a) \/ Push(a)
    <3>1. pc[a] \in {"submit", "push"}
      BY <2>2 DEF Submit, Push
    <3>2. \A w \in Workers : pc[w] \notin {"submit", "push"}
      BY DEF OneShotInv
    <3>3. a \in Handles /\ a \notin Workers
      BY <1>2, <3>1, <3>2 DEF Actors, TypeOK, ReaperPc
    <3> QED  BY <2>2, <3>3, <1>6, SubmitKeeps, PushKeeps
  <2> QED  BY <1>7, <2>1, <2>2
<1>8. ASSUME NEW h \in Handles, HandleStep(h)
      PROVE  OneShotInv'
  <2>1. h \in Actors /\ h \notin Workers
    BY <1>1, <1>6
  <2>2. CASE Refuse(h) \/ Wait(h) \/ Block(h) \/ EnterRead(h) \/ CloneOutput(h)
    BY <2>1, <2>2, <1>6, RefuseKeeps, WaitKeeps, BlockKeeps, EnterKeeps, CloneKeeps
  <2>3. CASE LeaveRead(h) \/ Lost(h) \/ StopCas(h) \/ Stopped(h)
    BY <2>1, <2>3, <1>6, LeaveKeeps, LostKeeps, StopCasKeeps, StoppedKeeps
  <2> QED  BY <1>7, <1>8, <2>1, <2>2, <2>3, <1>2, TakeOneShot DEF HandleStep
<1>9. ASSUME NEW w \in Workers, RunStep(w)
      PROVE  OneShotInv'
  <2>1. w \in Actors /\ w \notin Handles
    BY <1>6
  <2>2. CASE Pop(w) \/ Claim(w) \/ WakeReady(w) \/ After(w) \/ Settle(w) \/ SettleLost(w)
    BY <2>1, <2>2, <1>6, PopKeeps, ClaimKeeps, WakeReadyKeeps, AfterKeeps, SettleKeeps, SettleLostKeeps
  <2>3. ~Recycle(w) /\ ~Rearm(w)
    BY DEF OneShotInv, Recycle, Rearm
  <2> QED  BY <1>7, <1>9, <2>1, <2>2, <2>3, <1>2, WriteOneShot DEF RunStep
<1>10. CASE StopAll \/ Close \/ UNCHANGED vars
  BY <1>10, StillOneShot DEF StopAll, Close, vars, counters, slotVars
<1>11. CASE ReaperStep
  <2>1. Reaper \notin Workers
    BY SlotAssumption
  <2>2. CASE Fail \/ SetFailed \/ Drain \/ Sweep
    BY <1>1, <1>6, <2>1, <2>2, FailKeeps, SetFailedKeeps, DrainKeeps, SweepKeeps
  <2> QED  BY <1>1, <1>7, <1>10, <1>11, <2>2, <1>2, MakeOneShot DEF ReaperStep
<1>12. CASE \E h, g \in Handles : CloneHandle(h, g)
  BY <1>2, <1>12, MakeOneShot
<1>13. ASSUME NEW h \in Handles, Create(h) \/ Call(h) \/ GiveUpWait(h) \/ DropHandle(h)
       PROVE  OneShotInv'
  BY <1>1, <1>2, <1>4, <1>6, <1>13, CallKeeps, GiveUpKeeps, MakeOneShot
<1> QED  BY <1>8, <1>9, <1>10, <1>11, <1>12, <1>13 DEF Next

\* The invariant gives the three claims about the output
LEMMA OneShotGives ==
    ASSUME IInv, OneShotInv, Runs = 1
    PROVE  OutputOwnedOnce /\ ClonesReadLive /\ NoOutputLeaks
<1>1. 1..Runs = {1}
  OBVIOUS
<1>2. OutputOwnedOnce
  BY <1>1 DEF OneShotInv, OutputOwnedOnce
<1>3. ClonesReadLive
  <2> SUFFICES ASSUME NEW h \in Handles, pc[h] = "clone"
               PROVE  bits # 0 /\ fate[bits] = "live"
    BY DEF ClonesReadLive
  <2>1. listeners > 0
    BY Alive DEF IInv, TypeOK
  <2> QED  BY <2>1 DEF OneShotInv
<1>4. NoOutputLeaks
  BY <1>1 DEF IInv, SlotInv, RefsCounted, OneShotInv, NoOutputLeaks
<1> QED  BY <1>2, <1>3, <1>4

\* A task that runs once gives its output to one owner: a `take` that wins moves
\* it out, or the slot drops it, never both and never neither
THEOREM OneShotOwnedOnce == ASSUME ~Repeats PROVE Spec => []OutputOwnedOnce
<1>1. Runs = 1
  BY SlotAssumption
<1>2. Init => OneShotInv
  BY <1>1, InitOneShot
<1>3. IInv /\ IInv' /\ OneShotInv /\ [Next]_vars => OneShotInv'
  BY <1>1, NextOneShot
<1>4. IInv /\ OneShotInv => OutputOwnedOnce
  BY <1>1, OneShotGives
<1> QED  BY <1>2, <1>3, <1>4, InitInv, NextInv, PTL DEF Spec

\* No clone of a one-shot's output reads bytes that have been moved out or
\* dropped: `enter_read` and `claim_result` each see the other
THEOREM OneShotReadsLive == ASSUME ~Repeats PROVE Spec => []ClonesReadLive
<1>1. Runs = 1
  BY SlotAssumption
<1>2. Init => OneShotInv
  BY <1>1, InitOneShot
<1>3. IInv /\ IInv' /\ OneShotInv /\ [Next]_vars => OneShotInv'
  BY <1>1, NextOneShot
<1>4. IInv /\ OneShotInv => ClonesReadLive
  BY <1>1, OneShotGives
<1> QED  BY <1>2, <1>3, <1>4, InitInv, NextInv, PTL DEF Spec

\* Once a one-shot's slot is empty its output has gone somewhere
THEOREM OneShotNoLeaks == ASSUME ~Repeats PROVE Spec => []NoOutputLeaks
<1>1. Runs = 1
  BY SlotAssumption
<1>2. Init => OneShotInv
  BY <1>1, InitOneShot
<1>3. IInv /\ IInv' /\ OneShotInv /\ [Next]_vars => OneShotInv'
  BY <1>1, NextOneShot
<1>4. IInv /\ OneShotInv => NoOutputLeaks
  BY <1>1, OneShotGives
<1> QED  BY <1>2, <1>3, <1>4, InitInv, NextInv, PTL DEF Spec

-----------------------------------------------------------------------------
(* What a one-shot task promises its handles: TaskPromise.                 *)

\* Past the state that settles the task; before the run; at the run's output
Settled == {"wake_failed", "release", "unref", "wake", "after"}
Ahead == {"submit", "push", "claim", "begin"}
Inside == {"exec", "fill", "publish", "panicked"}
Winning == {"spin", "empty", "read"}

\* Where the state word stands, given where the threads are, for a task nobody
\* shuts down: the executor's reference outlives the wait for an answer, a run
\* starts from `Pending` with nothing written, and an output that was won is
\* with the winner or gone
PromiseInv ==
    /\ pool = "open"
    /\ \A a \in Actors : pc[a] \in Settled => terminal(state)
    /\ ~held => terminal(state)
    /\ \A w \in Workers : pc[w] \in Inside => state # "Pending"
    /\ \A a \in Actors : /\ pc[a] \in Ahead => state # "Running"
                         /\ pc[a] \in Ahead \cup {"exec"} => fate[1] = "unwritten"
    /\ queue > 0 => state # "Running" /\ fate[1] = "unwritten"
    /\ state = "Taken" => fate[1] = "gone" \/ \E h \in Handles : pc[h] \in Winning

\* A step of the promise, or none that shows
PromiseStep == [Promise!Next]_(Promise!vars)

\* What shows of the slot's words
LEMMA Shows ==
    /\ state \in {"Pending", "Running"} => phaseOf = "owed"
    /\ state = "Ready" => phaseOf = "ready"
    /\ state = "Taken" => phaseOf = "taken"
    /\ state \in {"Cancelled", "Failed"} => phaseOf = "over"
    /\ state = "Free" => phaseOf = "empty"
    /\ fate[1] = "unwritten" => outputOf = "none"
    /\ fate[1] = "live" => outputOf = "slot"
    /\ fate[1] = "gone" => outputOf = "gone"
BY DEF phaseOf, outputOf

\* So it is after a step
LEMMA ShowsNext ==
    /\ state' \in {"Pending", "Running"} => phaseOf' = "owed"
    /\ state' = "Ready" => phaseOf' = "ready"
    /\ state' = "Taken" => phaseOf' = "taken"
    /\ state' \in {"Cancelled", "Failed"} => phaseOf' = "over"
    /\ state' = "Free" => phaseOf' = "empty"
    /\ fate'[1] = "unwritten" => outputOf' = "none"
    /\ fate'[1] = "live" => outputOf' = "slot"
    /\ fate'[1] = "gone" => outputOf' = "gone"
BY DEF phaseOf, outputOf

\* Nothing that shows moves
LEMMA Stutters ==
    /\ state' = state => phaseOf' = phaseOf
    /\ fate'[1] = fate[1] => outputOf' = outputOf
BY DEF phaseOf, outputOf

\* A task is stopped, or stopped again, or nothing shows
LEMMA StopShows ==
    ASSUME TypeOK, fate'[1] = fate[1],
           state' # state => state \notin {"Taken", "Free"} /\ state' \in {"Cancelled", "Failed"}
    PROVE  PromiseStep
<1>1. outputOf' = outputOf
  BY Stutters
<1>2. CASE state' = state
  BY <1>1, <1>2, Stutters DEF PromiseStep, Promise!vars
<1>3. CASE state' # state
  <2>1. phaseOf' = "over" /\ phaseOf \in {"owed", "ready", "over"}
    BY <1>3, Shows, ShowsNext DEF TypeOK, States
  <2> QED  BY <1>1, <2>1 DEF PromiseStep, Promise!vars, Promise!Next, Promise!Stop
<1> QED  BY <1>2, <1>3

\* Thread a stops the task, or leaves it as it is, and moves on as the invariant has it
Stopping(a) ==
    /\ pool' = pool /\ fate' = fate
    /\ state' # state => state \notin {"Taken", "Free"} /\ state' \in {"Cancelled", "Failed"}
    /\ held => held' \/ terminal(state')
    /\ queue' > 0 => queue > 0 \/ pc[a] \in Ahead
    /\ pc[a] \in Winning => pc'[a] \in Winning
    /\ pc'[a] \in Settled => terminal(state')
    /\ pc'[a] \in Inside => state # "Pending"
    /\ pc'[a] \in Ahead => state # "Running" /\ fate[1] = "unwritten"
    /\ pc'[a] # "exec"

\* Such a step keeps the invariant and shows as a stop or not at all
LEMMA StoppingKeeps ==
    ASSUME TypeOK, PromiseInv, NEW a \in Actors, Alone(a), Stopping(a)
    PROVE  PromiseInv' /\ PromiseStep
<1>1. PromiseStep
  BY StopShows DEF Stopping
<1>2. \A b \in Actors : b # a => \/ pc'[b] = pc[b]
                                 \/ pc[b] = "blocked" /\ pc'[b] = "wait"
  BY DEF Alone
<1>3. Reaper \in Actors /\ Handles \subseteq Actors /\ Workers \subseteq Actors
  BY DEF Actors
<1>4. /\ state' # state => state # "Taken" /\ state' \in {"Cancelled", "Failed"}
      /\ fate' = fate
      /\ terminal(state) => terminal(state')
  BY DEF Stopping, terminal
<1>5. pool' = "open" /\ (~held' => terminal(state'))
  BY <1>4 DEF Stopping, PromiseInv
<1>6. \A b \in Actors : pc'[b] \in Settled => terminal(state')
  BY <1>2, <1>4 DEF Stopping, PromiseInv, Settled
<1>7. \A w \in Workers : pc'[w] \in Inside => state' # "Pending"
  BY <1>2, <1>3, <1>4 DEF Stopping, PromiseInv, Inside
<1>8. \A b \in Actors : /\ pc'[b] \in Ahead => state' # "Running"
                        /\ pc'[b] \in Ahead \cup {"exec"} => fate'[1] = "unwritten"
  BY <1>2, <1>4 DEF Stopping, PromiseInv, Ahead
<1>9. queue' > 0 => state' # "Running" /\ fate'[1] = "unwritten"
  BY <1>4 DEF Stopping, PromiseInv
<1>10. state' = "Taken" => fate'[1] = "gone" \/ \E h \in Handles : pc'[h] \in Winning
  <2> SUFFICES ASSUME state' = "Taken", fate'[1] # "gone"
               PROVE  \E h \in Handles : pc'[h] \in Winning
    OBVIOUS
  <2>1. PICK h \in Handles : pc[h] \in Winning
    BY <1>4 DEF PromiseInv
  <2>2. pc'[h] \in Winning
    BY <1>2, <1>3, <2>1 DEF Stopping, Winning
  <2> QED  BY <2>2
<1> QED  BY <1>1, <1>5, <1>6, <1>7, <1>8, <1>9, <1>10 DEF PromiseInv

\* Places the invariant says nothing about
Elsewhere == {"idle", "wait", "block", "blocked", "enter", "check", "clone", "leave",
           "leave_bad", "lost", "claim_result", "stop", "stop_cas", "stopped",
           "drop", "gone", "fail", "set_failed", "dead", "refuse", "none"}

\* A thread that only moves from one such place to another shows nothing
LEMMA RestKeeps ==
    ASSUME TypeOK, PromiseInv, NEW a \in Actors, Alone(a), pc[a] \notin Winning, pc'[a] \in Elsewhere,
           UNCHANGED <<state, held, fate, pool>>, queue' > 0 => queue > 0 \/ pc[a] \in Ahead
    PROVE  PromiseInv' /\ PromiseStep
<1>1. Stopping(a)
  BY DEF Stopping, Elsewhere, Settled, Inside, Ahead
<1> QED  BY <1>1, StoppingKeeps

\* A thread on duty has the task to itself, and the slot is in use
LEMMA OnDutyAlone ==
    ASSUME TypeOK, SlotInv, Counted, PromiseInv, NEW a \in Actors, pc[a] \in DutyPc
    PROVE  /\ held /\ state # "Free" /\ queue = 0
           /\ \A b \in Actors : b # a => pc[b] \notin DutyPc
<1>1. held /\ queue = 0 /\ \A b \in Actors : b # a => pc[b] \notin DutyPc
  BY DEF PromiseInv, SlotInv, DutyUnique, OnDuty
<1>2. listeners > 0
  BY <1>1 DEF Counted
<1> QED  BY <1>1, <1>2 DEF SlotInv, RefsCounted

\* The steps of any thread from `submit` to the release
LEMMA SharedPromise ==
    ASSUME TypeOK, PromiseInv, NEW a \in Actors,
           Submit(a) \/ Push(a) \/ WakeFailed(a) \/ Release(a)
    PROVE  PromiseInv' /\ PromiseStep
<1> USE DEF counters, slotVars, callVars
<1>1. Placed
  BY DEF TypeOK, Placed
<1>2. CASE Submit(a)
  <2>1. Alone(a) /\ pc[a] = "submit" /\ pc'[a] = "push" /\ UNCHANGED <<state, held, fate, pool, queue>>
    BY <1>1, <1>2, GoOnly DEF Submit, PromiseInv
  <2>2. state # "Running" /\ fate[1] = "unwritten"
    BY <2>1 DEF PromiseInv, Ahead
  <2>3. Stopping(a)
    BY <2>1, <2>2 DEF Stopping, Settled, Inside, Ahead, Winning
  <2> QED  BY <2>1, <2>3, StoppingKeeps
<1>3. CASE Push(a)
  <2>1. Alone(a) /\ pc[a] = "push" /\ pc'[a] = "idle" /\ UNCHANGED <<state, held, fate, pool>>
    BY <1>1, <1>3, GoOnly DEF Push
  <2> QED  BY <2>1, RestKeeps DEF Elsewhere, Winning, Ahead
<1>4. CASE WakeFailed(a)
  <2>1. Alone(a) /\ pc[a] = "wake_failed" /\ pc'[a] = "release" /\ UNCHANGED <<state, held, fate, pool, queue>>
    BY <1>1, <1>4, WakeOnly DEF WakeFailed
  <2>2. terminal(state)
    BY <2>1 DEF PromiseInv, Settled
  <2>3. Stopping(a)
    BY <2>1, <2>2 DEF Stopping, Inside, Ahead, Winning
  <2> QED  BY <2>1, <2>3, StoppingKeeps
<1>5. CASE Release(a)
  <2>1. Alone(a) /\ pc[a] = "release" /\ pc'[a] \in {"unref", "idle"} /\ UNCHANGED <<state, fate, pool, queue>>
    BY <1>1, <1>5, GoOnly DEF Release
  <2>2. terminal(state)
    BY <2>1 DEF PromiseInv, Settled
  <2>3. Stopping(a)
    BY <2>1, <2>2 DEF Stopping, Inside, Ahead, Winning
  <2> QED  BY <2>1, <2>3, StoppingKeeps
<1> QED  BY <1>2, <1>3, <1>4, <1>5

\* A handle's calls that only look, wait or read
LEMMA LookPromise ==
    ASSUME TypeOK, PromiseInv, NEW h \in Handles,
           \/ Call(h) \/ GiveUpWait(h) \/ Wait(h) \/ Block(h) \/ EnterRead(h) \/ CheckRead(h)
           \/ CloneOutput(h) \/ LeaveRead(h) \/ Lost(h) \/ Stop(h) \/ Stopped(h)
    PROVE  PromiseInv' /\ PromiseStep
<1> USE DEF counters, slotVars, callVars
<1>1. Placed /\ h \in Actors
  BY DEF TypeOK, Placed, Actors
<1>2. UNCHANGED <<state, held, fate, pool, queue>>
  BY DEF Call, GiveUpWait, Wait, Block, EnterRead, CheckRead, CloneOutput, LeaveRead, Lost, Stop, Stopped
<1>3. CASE Call(h)
  <2>1. Alone(h) /\ pc[h] = "idle" /\ pc'[h] \in {"stop", "enter", "claim_result", "wait"}
    <3>1. PICK o \in Ops \ {"none"} : Go(h, CASE o = "cancel"   -> "stop"
                                              [] o = "try_join" -> "enter"
                                              [] o = "try_take" -> "claim_result"
                                              [] OTHER          -> "wait")
      BY <1>3 DEF Call
    <3> QED  BY <1>1, <1>3, <3>1, GoOnly DEF Call
  <2> QED  BY <1>1, <1>2, <2>1, RestKeeps DEF Elsewhere, Winning
<1>4. CASE GiveUpWait(h)
  BY <1>1, <1>2, <1>4, GoOnly, RestKeeps DEF GiveUpWait, Elsewhere, Winning
<1>5. CASE Wait(h)
  <2>1. Alone(h) /\ pc[h] = "wait" /\ pc'[h] \in {"block", "drop", "idle", "enter", "claim_result"}
    BY <1>1, <1>5, GoOnly DEF Wait, Finish
  <2> QED  BY <1>1, <1>2, <2>1, RestKeeps DEF Elsewhere, Winning
<1>6. CASE Block(h) \/ EnterRead(h) \/ CheckRead(h) \/ CloneOutput(h)
  <2>1. /\ Alone(h) /\ pc[h] \in {"block", "enter", "check", "clone"}
        /\ pc'[h] \in {"blocked", "wait", "check", "clone", "leave", "leave_bad"}
    BY <1>1, <1>6, GoOnly DEF Block, EnterRead, CheckRead, CloneOutput
  <2> QED  BY <1>1, <1>2, <2>1, RestKeeps DEF Elsewhere, Winning
<1>7. CASE LeaveRead(h) \/ Lost(h)
  <2>1. /\ Alone(h) /\ pc[h] \in {"leave", "leave_bad", "lost"}
        /\ pc'[h] \in {"drop", "idle", "lost", "wait"}
    BY <1>1, <1>7, GoOnly DEF LeaveRead, Lost, Finish
  <2> QED  BY <1>1, <1>2, <2>1, RestKeeps DEF Elsewhere, Winning
<1>8. CASE Stop(h)
  <2>1. Alone(h) /\ pc[h] = "stop" /\ pc'[h] \in {"drop", "stop_cas"}
    BY <1>1, <1>8, GoOnly DEF Stop
  <2> QED  BY <1>1, <1>2, <2>1, RestKeeps DEF Elsewhere, Winning
<1>9. CASE Stopped(h)
  <2>1. Alone(h) /\ pc[h] = "stopped" /\ pc'[h] = "drop"
    BY <1>1, <1>9, WakeOnly DEF Stopped
  <2> QED  BY <1>1, <1>2, <2>1, RestKeeps DEF Elsewhere, Winning
<1> QED  BY <1>3, <1>4, <1>5, <1>6, <1>7, <1>8, <1>9

\* A handle's calls that stop the task, or win its output and move it out
LEMMA TakePromise ==
    ASSUME TypeOK, SlotInv, Counted, OneShotInv, PromiseInv, Runs = 1, NEW h \in Handles,
           Refuse(h) \/ ClaimResult(h) \/ SpinReaders(h) \/ Empty(h) \/ ReadOut(h) \/ StopCas(h)
    PROVE  PromiseInv' /\ PromiseStep
<1> USE DEF counters, slotVars, callVars
<1>1. Placed /\ h \in Actors /\ Handles \subseteq Actors /\ Workers \subseteq Actors /\ h \notin Workers
  BY SlotAssumption DEF TypeOK, Placed, Actors
<1>2. CASE Refuse(h)
  <2>1. /\ Alone(h) /\ pc[h] = "refuse" /\ pc'[h] = "wake_failed" /\ state' = "Failed"
        /\ UNCHANGED <<held, fate, pool, queue>>
    BY <1>1, <1>2, GoOnly DEF Refuse
  <2>2. state # "Taken" /\ state # "Free"
    BY <1>1, <2>1, OnDutyAlone DEF DutyPc, OneShotInv, BeforeWrite, Unseen
  <2>3. Stopping(h)
    BY <2>1, <2>2 DEF Stopping, Inside, Ahead, Winning, terminal
  <2> QED  BY <1>1, <2>1, <2>3, StoppingKeeps
<1>3. CASE StopCas(h)
  <2>1. /\ Alone(h) /\ pc[h] = "stop_cas" /\ pc'[h] \in {"stopped", "stop"}
        /\ state' # state => state = seen[h] /\ state' = "Cancelled"
        /\ UNCHANGED <<held, fate, pool, queue>>
    BY <1>1, <1>3, GoOnly DEF StopCas
  <2>2. seen[h] \notin {"Taken", "Free"}
    BY <2>1 DEF OneShotInv
  <2>3. Stopping(h)
    BY <2>1, <2>2 DEF Stopping, Settled, Inside, Ahead, Winning
  <2> QED  BY <1>1, <2>1, <2>3, StoppingKeeps
<1>4. CASE SpinReaders(h) \/ Empty(h)
  <2>1. /\ Alone(h) /\ pc[h] \in {"spin", "empty"} /\ pc'[h] \in {"empty", "read"}
        /\ UNCHANGED <<state, held, fate, pool, queue>>
    BY <1>1, <1>4, GoOnly DEF SpinReaders, Empty
  <2>2. Stopping(h)
    BY <2>1 DEF Stopping, Settled, Inside, Ahead, Winning
  <2> QED  BY <1>1, <2>1, <2>2, StoppingKeeps
<1>5. CASE ClaimResult(h)
  <2>1. /\ Alone(h) /\ pc[h] = "claim_result" /\ pc'[h] = IF state = "Ready" THEN "spin" ELSE "lost"
        /\ state' = IF state = "Ready" THEN "Taken" ELSE state
        /\ \A b \in Actors : b # h => pc'[b] = pc[b]
        /\ UNCHANGED <<held, fate, pool, queue>>
    BY <1>1, <1>5, GoOnly DEF ClaimResult
  <2>2. CASE state # "Ready"
    BY <1>1, <2>1, <2>2, RestKeeps DEF Elsewhere, Winning
  <2>3. CASE state = "Ready"
    <3>1. PromiseInv'
      BY <1>1, <2>1, <2>3 DEF PromiseInv, Settled, Inside, Ahead, Winning, terminal
    <3>2. phaseOf = "ready" /\ phaseOf' = "taken" /\ outputOf' = outputOf
      BY <2>1, <2>3, Shows, ShowsNext, Stutters
    <3> QED  BY <3>1, <3>2 DEF PromiseStep, Promise!Next, Promise!Take
  <2> QED  BY <2>2, <2>3
<1>6. CASE ReadOut(h)
  <2>1. /\ pc[h] = "read" /\ pc'[h] \in {"drop", "idle"}
        /\ \A b \in Actors : b # h => pc'[b] = pc[b]
        /\ UNCHANGED <<state, held, pool, queue>> /\ fate' = Own(fate, bits)
    BY <1>1, <1>6, GoOnly DEF ReadOut, Finish
  <2>2. state = "Taken" /\ bits = 1 /\ fate[1] = "live"
    BY <2>1 DEF OneShotInv
  <2>3. fate'[1] = "gone"
    BY <2>1, <2>2 DEF Own, TypeOK
  <2>4. queue' > 0 => FALSE
    BY <2>1, <2>2 DEF OneShotInv, Unseen
  <2>5. \A b \in Actors : pc[b] \notin BeforeWrite
    BY <2>2 DEF OneShotInv, Unseen
  <2>6. \A b \in Actors : pc'[b] \notin Ahead \cup {"exec"}
    BY <2>1, <2>5 DEF BeforeWrite, Ahead
  <2>7. PromiseInv'
    BY <1>1, <2>1, <2>2, <2>3, <2>4, <2>6 DEF PromiseInv, Settled, Inside, terminal
  <2>8. phaseOf = "taken" /\ phaseOf' = phaseOf /\ outputOf = "slot" /\ outputOf' = "gone"
    BY <2>1, <2>2, <2>3, Shows, ShowsNext, Stutters
  <2> QED  BY <2>7, <2>8 DEF PromiseStep, Promise!Next, Promise!HandOver
<1> QED  BY <1>2, <1>3, <1>4, <1>5, <1>6

\* A worker's steps that show nothing, or that settle a panicked run
LEMMA RunPromise ==
    ASSUME TypeOK, SlotInv, Counted, OneShotInv, PromiseInv, NEW w \in Workers,
           Pop(w) \/ Claim(w) \/ Fill(w) \/ WakeReady(w) \/ After(w) \/ Settle(w) \/ SettleLost(w)
    PROVE  PromiseInv' /\ PromiseStep
<1> USE DEF counters, slotVars, callVars
<1>1. Placed /\ w \in Actors
  BY DEF TypeOK, Placed, Actors
<1>2. CASE Pop(w)
  <2>1. /\ Alone(w) /\ pc[w] = "idle" /\ pc'[w] = "claim" /\ queue > 0
        /\ UNCHANGED <<state, held, fate, pool>>
    BY <1>1, <1>2, GoOnly DEF Pop
  <2>2. state # "Running" /\ fate[1] = "unwritten"
    BY <2>1 DEF PromiseInv
  <2>3. Stopping(w)
    BY <2>1, <2>2 DEF Stopping, Settled, Inside, Ahead, Winning
  <2> QED  BY <1>1, <2>1, <2>3, StoppingKeeps
<1>3. CASE Claim(w)
  <2>1. /\ Alone(w) /\ pc[w] = "claim" /\ pc'[w] \in {"begin", "idle"}
        /\ UNCHANGED <<state, held, fate, pool, queue>>
    BY <1>1, <1>3, GoOnly DEF Claim
  <2>2. state # "Running" /\ fate[1] = "unwritten"
    BY <1>1, <2>1 DEF PromiseInv, Ahead
  <2>3. Stopping(w)
    BY <2>1, <2>2 DEF Stopping, Settled, Inside, Ahead, Winning
  <2> QED  BY <1>1, <2>1, <2>3, StoppingKeeps
<1>4. CASE Fill(w)
  <2>1. /\ Alone(w) /\ pc[w] = "fill" /\ pc'[w] = "publish"
        /\ UNCHANGED <<state, held, fate, pool, queue>>
    BY <1>1, <1>4, GoOnly DEF Fill
  <2>2. state # "Pending"
    BY <2>1 DEF PromiseInv, Inside
  <2>3. Stopping(w)
    BY <2>1, <2>2 DEF Stopping, Settled, Inside, Ahead, Winning
  <2> QED  BY <1>1, <2>1, <2>3, StoppingKeeps
<1>5. CASE WakeReady(w) \/ After(w)
  <2>1. /\ Alone(w) /\ pc[w] \in {"wake", "after"} /\ pc'[w] \in {"after", "release"}
        /\ UNCHANGED <<state, held, fate, pool, queue>>
    <3>1. ~repeats
      BY DEF OneShotInv
    <3> QED  BY <1>1, <1>5, <3>1, GoOnly, WakeOnly DEF WakeReady, After
  <2>2. terminal(state)
    BY <1>1, <2>1 DEF PromiseInv, Settled
  <2>3. Stopping(w)
    BY <2>1, <2>2 DEF Stopping, Inside, Ahead, Winning
  <2> QED  BY <1>1, <2>1, <2>3, StoppingKeeps
<1>6. CASE Settle(w)
  <2>1. /\ Alone(w) /\ pc[w] = "panicked" /\ pc'[w] = "wake_failed"
        /\ state = "Running" /\ state' = "Failed"
        /\ UNCHANGED <<held, fate, pool, queue>>
    <3>1. pc[w] # "give_up"
      BY DEF OneShotInv
    <3> QED  BY <1>1, <1>6, <3>1, GoOnly DEF Settle
  <2>2. Stopping(w)
    BY <2>1 DEF Stopping, Inside, Ahead, Winning, terminal
  <2> QED  BY <1>1, <2>1, <2>2, StoppingKeeps
<1>7. CASE SettleLost(w)
  <2>1. /\ Alone(w) /\ pc[w] = "panicked" /\ pc'[w] = "release" /\ state # "Running"
        /\ UNCHANGED <<state, held, fate, pool, queue>>
    <3>1. pc[w] # "give_up"
      BY DEF OneShotInv
    <3> QED  BY <1>1, <1>7, <3>1, GoOnly DEF SettleLost
  <2>2. terminal(state)
    BY <2>1 DEF PromiseInv, Inside, terminal
  <2>3. Stopping(w)
    BY <2>1, <2>2 DEF Stopping, Inside, Ahead, Winning
  <2> QED  BY <1>1, <2>1, <2>3, StoppingKeeps
<1> QED  BY <1>2, <1>3, <1>4, <1>5, <1>6, <1>7

\* A run starts, writes its output and publishes it
LEMMA WritePromise ==
    ASSUME TypeOK, SlotInv, Counted, OneShotInv, PromiseInv, Runs = 1, NEW w \in Workers,
           Begin(w) \/ Exec(w) \/ Publish(w)
    PROVE  PromiseInv' /\ PromiseStep
<1> USE DEF counters, slotVars, callVars
<1>1. /\ Placed /\ w \in Actors /\ w \notin Handles
      /\ Handles \subseteq Actors /\ Workers \subseteq Actors
  BY SlotAssumption DEF TypeOK, Placed, Actors
<1>2. pc[w] \in {"begin", "exec", "publish"}
  BY DEF Begin, Exec, Publish
<1>3. /\ held /\ state # "Free" /\ queue = 0
      /\ \A b \in Actors : b # w => pc[b] \notin DutyPc
  BY <1>1, <1>2, OnDutyAlone DEF DutyPc
<1>4. \A b \in Actors : b # w => pc[b] \notin Inside /\ pc[b] \notin Ahead
  BY <1>3 DEF Inside, Ahead, DutyPc
<1>5. Unseen
  BY <1>1, <1>2 DEF OneShotInv, BeforeWrite
<1>6. CASE Begin(w)
  <2>1. /\ pc[w] = "begin" /\ Alone(w) /\ UNCHANGED <<held, fate, pool, queue>>
        /\ \A b \in Actors : b # w => pc'[b] = pc[b]
        /\ \/ state = "Pending" /\ state' = "Running" /\ pc'[w] = "exec"
           \/ state # "Pending" /\ state' = state /\ pc'[w] = "release"
    <3>1. ~repeats
      BY DEF OneShotInv
    <3> QED  BY <1>1, <1>6, <3>1, GoOnly DEF Begin
  <2>2. state # "Running" /\ fate[1] = "unwritten"
    BY <1>1, <2>1 DEF PromiseInv, Ahead
  <2>3. CASE state # "Pending"
    <3>1. Stopping(w)
      BY <2>1, <2>2, <2>3 DEF Stopping, Inside, Ahead, Winning, terminal
    <3> QED  BY <1>1, <2>1, <3>1, StoppingKeeps
  <2>4. CASE state = "Pending"
    <3>1. \A b \in Actors : pc[b] \notin Settled
      BY <2>4 DEF PromiseInv, terminal
    <3>2. \A b \in Actors : pc'[b] \notin Settled /\ pc'[b] \notin Ahead
      BY <1>4, <2>1, <2>4, <3>1 DEF Settled, Ahead
    <3>3. PromiseInv'
      BY <1>1, <1>3, <2>1, <2>2, <2>4, <3>2 DEF PromiseInv, Inside
    <3>4. phaseOf' = phaseOf /\ outputOf' = outputOf
      BY <2>1, <2>4, Shows, ShowsNext, Stutters
    <3> QED  BY <3>3, <3>4 DEF PromiseStep, Promise!vars
  <2> QED  BY <2>3, <2>4
<1>7. CASE Exec(w)
  <2>1. /\ pc[w] = "exec" /\ Alone(w) /\ UNCHANGED <<state, held, pool, queue>>
        /\ \A b \in Actors : b # w => pc'[b] = pc[b]
        /\ pc'[w] \in {"fill", "panicked", "dead"}
        /\ pc'[w] # "fill" => fate' = fate
        /\ pc'[w] = "fill" => fate' = [fate EXCEPT ![Runs - runsLeft + 1] = "live"]
    BY <1>1, <1>7, GoOnly DEF Exec
  <2>2. state # "Pending" /\ fate[1] = "unwritten"
    BY <1>1, <2>1 DEF PromiseInv, Inside
  <2>3. CASE pc'[w] # "fill"
    <3>1. Stopping(w)
      BY <2>1, <2>2, <2>3 DEF Stopping, Settled, Inside, Ahead, Winning
    <3> QED  BY <1>1, <2>1, <3>1, StoppingKeeps
  <2>4. CASE pc'[w] = "fill"
    <3>1. runsLeft = 1
      BY <1>1, <2>1 DEF SlotInv, RunsRemain, TypeOK
    <3>2. fate'[1] = "live"
      BY <2>1, <2>4, <3>1 DEF TypeOK
    <3>3. \A b \in Actors : pc'[b] \notin Ahead \cup {"exec"} /\ (pc'[b] \in Settled => pc[b] \in Settled)
      BY <1>4, <2>1, <2>4 DEF Settled, Ahead, Inside
    <3>4. state # "Taken"
      BY <1>5 DEF Unseen
    <3>5. PromiseInv'
      BY <1>1, <1>3, <2>1, <2>2, <3>3, <3>4 DEF PromiseInv, Inside
    <3>6. phaseOf \in {"owed", "over"} /\ phaseOf' = phaseOf /\ outputOf = "none" /\ outputOf' = "slot"
      BY <1>3, <1>5, <2>1, <2>2, <3>2, Shows, ShowsNext, Stutters DEF Unseen, TypeOK, States
    <3> QED  BY <3>5, <3>6 DEF PromiseStep, Promise!Next, Promise!Write
  <2> QED  BY <2>3, <2>4
<1>8. CASE Publish(w)
  <2>1. /\ pc[w] = "publish" /\ Alone(w) /\ UNCHANGED <<held, fate, pool, queue>>
        /\ \A b \in Actors : b # w => pc'[b] = pc[b]
        /\ \/ state = "Running" /\ state' = "Ready" /\ pc'[w] = "wake"
           \/ state # "Running" /\ state' = state /\ pc'[w] = "release"
    BY <1>1, <1>8, GoOnly DEF Publish
  <2>2. state # "Pending"
    BY <2>1 DEF PromiseInv, Inside
  <2>3. CASE state # "Running"
    <3>1. Stopping(w)
      BY <2>1, <2>2, <2>3 DEF Stopping, Inside, Ahead, Winning, terminal
    <3> QED  BY <1>1, <2>1, <3>1, StoppingKeeps
  <2>4. CASE state = "Running"
    <3>1. fate[1] = "live"
      <4>1. filled /\ listeners > 0
        BY <1>3, <2>1 DEF OneShotInv, Counted
      <4> QED  BY <4>1 DEF OneShotInv
    <3>2. \A b \in Actors : pc'[b] \notin Ahead \cup {"exec"}
      BY <1>4, <2>1, <2>4 DEF Ahead, Inside
    <3>3. PromiseInv'
      BY <1>1, <1>3, <2>1, <2>4, <3>2 DEF PromiseInv, terminal
    <3>4. phaseOf = "owed" /\ phaseOf' = "ready" /\ outputOf = "slot" /\ outputOf' = outputOf
      BY <2>1, <2>4, <3>1, Shows, ShowsNext, Stutters
    <3> QED  BY <3>3, <3>4 DEF PromiseStep, Promise!Next, Promise!Publish
  <2> QED  BY <2>3, <2>4
<1> QED  BY <1>6, <1>7, <1>8

\* A task is put in the slot, a handle is cloned, a dead thread is found and its
\* task failed
LEMMA MakePromise ==
    ASSUME TypeOK, SlotInv, Counted, OneShotInv, PromiseInv,
           \/ \E h \in Handles : Create(h)
           \/ \E h, g \in Handles : CloneHandle(h, g)
           \/ \E w \in Workers : Recover(w)
           \/ Fail \/ SetFailed
    PROVE  PromiseInv' /\ PromiseStep
<1> USE DEF counters, slotVars, callVars
<1>1. Placed /\ Reaper \in Actors /\ Handles \subseteq Actors /\ Workers \subseteq Actors
  BY DEF TypeOK, Placed, Actors
<1>2. CASE \E h \in Handles : Create(h)
  <2>1. PICK h \in Handles : Create(h)
    BY <1>2
  <2>2. /\ pc'[h] = "submit" /\ \A b \in Actors : b # h => pc'[b] = pc[b]
        /\ \A g \in Handles : pc[g] = "none"
        /\ state' = "Pending" /\ held' = TRUE /\ UNCHANGED <<fate, pool, queue>>
    BY <1>1, <2>1, GoOnly DEF Create
  <2>3. /\ state = "Free" /\ queue = 0 /\ pc[Reaper] = "idle" /\ \A w \in Workers : pc[w] = "idle"
    BY <2>2 DEF SlotInv, NotStarted
  <2>4. fate[1] = "unwritten"
    BY <2>2 DEF OneShotInv
  <2>5. \A b \in Actors : b # h => pc'[b] \in {"none", "idle"}
    BY <2>2, <2>3 DEF Actors
  <2>6. h \notin Workers
    BY SlotAssumption
  <2>7. PromiseInv'
    BY <1>1, <2>2, <2>3, <2>4, <2>5, <2>6 DEF PromiseInv, Settled, Inside, Ahead
  <2>8. phaseOf = "empty" /\ phaseOf' = "owed" /\ outputOf = "none" /\ outputOf' = outputOf
    BY <2>2, <2>3, <2>4, Shows, ShowsNext, Stutters
  <2> QED  BY <2>7, <2>8 DEF PromiseStep, Promise!Next, Promise!Spawn
<1>3. CASE \E h, g \in Handles : CloneHandle(h, g)
  <2>1. PICK h \in Handles, g \in Handles : CloneHandle(h, g)
    BY <1>3
  <2>2. /\ g \in Actors /\ pc[g] = "none" /\ pc'[g] = "idle" /\ Alone(g)
        /\ UNCHANGED <<state, held, fate, pool, queue>>
    BY <1>1, <2>1, GoOnly DEF CloneHandle
  <2> QED  BY <2>2, RestKeeps DEF Elsewhere, Winning
<1>4. CASE \E w \in Workers : Recover(w)
  <2>1. PICK w \in Workers : Recover(w)
    BY <1>4
  <2>2. /\ pc'[w] = "idle" /\ pc'[Reaper] = "fail"
        /\ \A b \in Actors : b # w /\ b # Reaper => pc'[b] = pc[b]
        /\ UNCHANGED <<state, held, fate, pool, queue>>
    BY <1>1, <2>1, SlotAssumption DEF Recover, Placed
  <2>3. \A h \in Handles : h # w /\ h # Reaper
    BY SlotAssumption
  <2>4. PromiseInv'
    BY <1>1, <2>2, <2>3 DEF PromiseInv, Settled, Inside, Ahead, Winning
  <2>5. phaseOf' = phaseOf /\ outputOf' = outputOf
    BY <2>2, Stutters
  <2> QED  BY <2>4, <2>5 DEF PromiseStep, Promise!vars
<1>5. CASE Fail
  <2>1. /\ Alone(Reaper) /\ pc[Reaper] = "fail" /\ UNCHANGED <<state, held, fate, pool, queue>>
        /\ pc'[Reaper] = IF terminal(state) THEN "release" ELSE "set_failed"
    BY <1>1, <1>5, GoOnly DEF Fail
  <2>2. Stopping(Reaper)
    BY <2>1 DEF Stopping, Settled, Inside, Ahead, Winning
  <2> QED  BY <1>1, <2>1, <2>2, StoppingKeeps
<1>6. CASE SetFailed
  <2>1. /\ Alone(Reaper) /\ pc[Reaper] = "set_failed" /\ pc'[Reaper] = "wake_failed"
        /\ state' = "Failed" /\ UNCHANGED <<held, fate, pool, queue>>
    BY <1>1, <1>6, GoOnly DEF SetFailed
  <2>2. state # "Taken" /\ state # "Free"
    BY <1>1, <2>1, OnDutyAlone DEF DutyPc, OneShotInv, BeforeWrite, Unseen
  <2>3. Stopping(Reaper)
    BY <2>1, <2>2 DEF Stopping, Inside, Ahead, Winning, terminal
  <2> QED  BY <1>1, <2>1, <2>3, StoppingKeeps
<1> QED  BY <1>2, <1>3, <1>4, <1>5, <1>6

\* The last reference goes only once the task is settled and an output that was
\* won has reached its winner
LEMMA ClearPromise ==
    ASSUME TypeOK, SlotInv, Counted, OneShotInv, PromiseInv, Runs = 1,
           NEW a \in Actors, NEW p \in {"idle", "gone"}, DropListener, Go(a, p),
           IF a \in Handles THEN pc[a] \in {"idle", "drop", "unref"} ELSE pc[a] = "unref",
           UNCHANGED <<held, pool, queue>>
    PROVE  PromiseInv' /\ PromiseStep
<1>1. Placed /\ Handles \subseteq Actors /\ Workers \subseteq Actors
  BY DEF TypeOK, Placed, Actors
<1>2. Alone(a) /\ pc'[a] = p /\ \A b \in Actors : b # a => pc'[b] = pc[b]
  BY <1>1, GoOnly
<1>3. CASE listeners # 1
  <2>1. UNCHANGED <<state, fate>>
    BY <1>3 DEF DropListener
  <2> QED  BY <1>2, <2>1, RestKeeps DEF Elsewhere, Winning
<1>4. CASE listeners = 1
  <2>1. state' = "Free" /\ fate' = (IF filled THEN Own(fate, bits) ELSE fate)
    BY <1>4 DEF DropListener
  <2>2. ~held /\ \A h \in Handles : h # a => pc[h] \in {"none", "gone"}
    BY <1>1, <1>4 DEF Counted
  <2>3. listeners > 0
    BY <1>4
  <2>4. terminal(state) /\ state # "Free"
    BY <2>2, <2>3 DEF PromiseInv, SlotInv, RefsCounted
  <2>5. \A b \in Actors : pc[b] \notin DutyPc
    BY <2>2 DEF SlotInv, DutyUnique, OnDuty, PromiseInv
  <2>6. \A h \in Handles : pc[h] \notin Winning
    BY <2>2 DEF Winning
  <2>7. fate[1] = "live" <=> filled
    <3>1. \A w \in Workers : pc[w] # "fill"
      BY <1>1, <2>5 DEF DutyPc
    <3>2. \A h \in Handles : pc[h] # "read"
      BY <2>6 DEF Winning
    <3> QED  BY <2>3, <3>1, <3>2 DEF OneShotInv
  <2>8. /\ fate[1] = "live" => fate'[1] = "gone"
        /\ fate[1] # "live" => fate'[1] = fate[1]
    <3>1. filled => bits = 1
      BY <2>3 DEF OneShotInv
    <3> QED  BY <2>1, <2>7, <3>1 DEF Own, TypeOK
  <2>9. queue = 0
    BY <2>2 DEF SlotInv, DutyUnique, PromiseInv
  <2>10. \A b \in Actors : pc'[b] \notin Ahead \cup {"exec"}
    BY <1>2, <2>5 DEF Ahead, DutyPc
  <2>11. PromiseInv'
    BY <1>1, <2>1, <2>9, <2>10 DEF PromiseInv, terminal
  <2>12. state = "Taken" => fate[1] = "gone"
    BY <2>6 DEF PromiseInv
  <2>13. fate[1] \in {"unwritten", "live", "gone"}
    BY DEF TypeOK, Fates, OneShotInv
  <2>14. /\ phaseOf' = "empty"
         /\ \/ phaseOf \in {"ready", "over"}
            \/ phaseOf = "taken" /\ outputOf = "gone"
    BY <2>1, <2>4, <2>12, Shows, ShowsNext DEF terminal, TypeOK, States
  <2>15. outputOf' = IF outputOf = "slot" THEN "gone" ELSE outputOf
    BY <2>8, <2>13, Shows, ShowsNext
  <2> QED  BY <2>11, <2>14, <2>15 DEF PromiseStep, Promise!Next, Promise!Clear
<1> QED  BY <1>3, <1>4

\* No task yet
LEMMA InitPromise == ASSUME Runs = 1, Init PROVE PromiseInv /\ Promise!Init
<1>1. PromiseInv
  BY DEF Init, PromiseInv, Actors, Settled, Inside, Ahead, terminal
<1>2. state = "Free" /\ fate[1] = "unwritten"
  BY DEF Init
<1> QED  BY <1>1, <1>2, Shows DEF Promise!Init

\* Every step of a one-shot task's threads keeps the invariant and is a step of
\* the promise, or shows nothing
LEMMA NextPromise ==
    ASSUME IInv, OneShotInv, PromiseInv, Runs = 1, ~Shutdown, [Next]_vars
    PROVE  PromiseInv' /\ PromiseStep
<1>1. Reaper \in Actors /\ Handles \subseteq Actors /\ Workers \subseteq Actors
  BY DEF Actors
<1>2. TypeOK /\ SlotInv /\ Counted
  BY IsCounted DEF IInv
<1>3. ASSUME NEW a \in Actors, Unref(a)
      PROVE  PromiseInv' /\ PromiseStep
  <2>1. pc[a] = "unref" /\ DropListener /\ Go(a, "idle") /\ UNCHANGED <<held, pool, queue>>
    BY <1>3 DEF Unref
  <2> QED  BY <1>2, <2>1, ClearPromise
<1>4. ASSUME NEW h \in Handles, DropHandle(h)
      PROVE  PromiseInv' /\ PromiseStep
  <2>1. pc[h] \in {"idle", "drop"} /\ DropListener /\ Go(h, "gone") /\ UNCHANGED <<held, pool, queue>>
    BY <1>4 DEF DropHandle
  <2> QED  BY <1>1, <1>2, <2>1, ClearPromise
<1>5. ASSUME NEW h \in Handles, HandleStep(h)
      PROVE  PromiseInv' /\ PromiseStep
  BY <1>1, <1>2, <1>3, <1>5, SharedPromise, LookPromise, TakePromise DEF HandleStep
<1>6. ASSUME NEW w \in Workers, RunStep(w)
      PROVE  PromiseInv' /\ PromiseStep
  <2>1. ~Recycle(w) /\ ~Rearm(w)
    BY DEF OneShotInv, Recycle, Rearm
  <2> QED  BY <1>1, <1>2, <1>3, <1>6, <2>1, SharedPromise, RunPromise, WritePromise DEF RunStep
<1>7. ~StopAll /\ ~Drain /\ ~Sweep /\ ~Close
  BY DEF PromiseInv, StopAll, Drain, Sweep, Close
<1>8. CASE ReaperStep
  BY <1>1, <1>2, <1>3, <1>7, <1>8, SharedPromise, MakePromise DEF ReaperStep
<1>9. CASE \E h, g \in Handles : CloneHandle(h, g)
  BY <1>2, <1>9, MakePromise
<1>10. ASSUME NEW h \in Handles, Create(h) \/ Call(h) \/ GiveUpWait(h) \/ DropHandle(h)
       PROVE  PromiseInv' /\ PromiseStep
  BY <1>2, <1>4, <1>10, LookPromise, MakePromise
<1>11. CASE UNCHANGED vars
  <2>1. UNCHANGED <<state, held, fate, pool, queue, pc>>
    BY <1>11 DEF vars, counters, slotVars
  <2>2. PromiseInv'
    BY <2>1 DEF PromiseInv
  <2> QED  BY <2>1, <2>2, Stutters DEF PromiseStep, Promise!vars
<1> QED  BY <1>5, <1>6, <1>7, <1>8, <1>9, <1>10, <1>11 DEF Next

\* A task that runs once, in a runtime nobody shuts down, keeps the promise of
\* TaskPromise whatever its threads do and however many pool threads go down: it
\* settles once, is never seen with an output before it is published, gives the
\* output to one owner, and its slot is cleared only once that is over.  A
\* shutdown can store `Failed` in a slot emptied since it looked (README.md)
THEOREM OneShotPromise ==
    ASSUME ~Repeats, ~Shutdown
    PROVE  Spec => Promise!Init /\ [][Promise!Next]_(Promise!vars)
<1>1. Runs = 1
  BY SlotAssumption
<1>2. Init => OneShotInv /\ PromiseInv /\ Promise!Init
  BY <1>1, InitOneShot, InitPromise
<1>3. IInv /\ IInv' /\ OneShotInv /\ [Next]_vars => OneShotInv'
  BY <1>1, NextOneShot
<1>4. IInv /\ OneShotInv /\ PromiseInv /\ [Next]_vars => PromiseInv' /\ [Promise!Next]_(Promise!vars)
  BY <1>1, NextPromise DEF PromiseStep
<1> QED  BY <1>2, <1>3, <1>4, InitInv, NextInv, PTL DEF Spec
=============================================================================
