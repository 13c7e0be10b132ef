-------------------------- MODULE ReceiversProofs --------------------------
(***************************************************************************)
(* Proofs about Receivers, for any number of registrations and outputs.    *)
(* A request to walk is never lost: whenever a registration is owed an     *)
(* output, or its release, some thread is still to make a pass that sees   *)
(* it, or the run is still to ask for one.                                 *)
(***************************************************************************)
EXTENDS Receivers, FiniteSetTheorems, TLAPS

WalkPcs == Walking \cup {"walk", "look", "look_lock", "lock", "again"}
RegisterPcs == {"none", "push", "over", "kind", "mark", "done"}
RunPcs == {"begin", "recycle", "write", "note", "publish", "forward", "after", "close", "fail", "done"}

\* Where the run is, or will be once its walk is over
Place == IF pc[Run] \in WalkPcs THEN then[Run] ELSE pc[Run]

\* Where threads can be
Places ==
    /\ \A r \in Late : pc[r] \in WalkPcs \cup RegisterPcs /\ then[r] = "done"
    /\ pc[Run] \in WalkPcs \cup RunPcs
    /\ pc[Run] \in WalkPcs => attached
    /\ ~attached => \A r \in Late : pc[r] = "none"

\* The run's place and the state it has moved the task to
RunPlaced ==
    /\ Place = "begin" => /\ state \in {"Pending", "Ready", "Taken", "Cancelled"} /\ output < Outputs
                          /\ state \in {"Ready", "Taken"} => repeats
    /\ Place \in {"recycle", "write", "note", "publish", "fail"} => state \in {"Running", "Cancelled"}
    /\ Place \in {"recycle", "write"} => output < Outputs
    /\ Place \in {"forward", "after", "close"} => state \in {"Ready", "Taken", "Cancelled"}
    /\ Place = "done" => state \in {"Ready", "Taken", "Cancelled", "Failed"}
    /\ Place \in {"close", "done"} /\ state \in {"Ready", "Taken"} => ~repeats
    /\ state \in {"Ready", "Taken"} \/ Place \in {"note", "publish"} => output > 0
    /\ Place = "note" => generation < output

\* The registrations are in one place each, and only a pass holds any
PassPlaced ==
    /\ ~attached => head = {}
    /\ \A r \in Late : pc[r] \in {"none", "push"} => r \notin head \cup nodes \cup kept
    /\ \A r \in Early : far[r] = "none" => r \notin head \cup nodes \cup kept
    /\ nodes # {} => \E a \in Actors : pc[a] \in {"enter", "check", "generation", "visit"}
    /\ kept # {} => \E a \in Actors : pc[a] \in {"visit", "back"}
    /\ closed => CLOSED /\ kept = {}

\* A read is counted from `enter_read` until the pass leaves it, and while it is the run
\* does not get to the output
ReadCounted ==
    /\ readers = IF readable \/ \E a \in Actors : pc[a] = "check" THEN 1 ELSE 0
    /\ readable => \E a \in Actors : pc[a] \in {"generation", "visit"}
    /\ readable => Place \notin {"write", "note", "publish", "fail"} /\ state # "Pending" /\ output > 0
    /\ readable => \A a \in Actors : pc[a] = "visit" => gen = generation

\* What each registration was handed
HandedKept ==
    /\ gen <= generation
    /\ \A r \in Registrations :
         /\ handed[r] <= generation
         /\ handed[r] # NONE_HANDED => attached /\ output > 0
         /\ \A o \in 1 .. Outputs : got[r][o] \in {0, 1} /\ (o > output => got[r][o] = 0)
         /\ output > 0 /\ got[r][output] # 0 => handed[r] = generation /\ Place \notin {"note", "publish"}
         /\ Place # "note" /\ far[r] = "open" /\ handed[r] = generation => got[r][output] # 0

\* Nothing more is published: the end a registration may close on
Finished ==
    \/ state \in {"Cancelled", "Failed"}
    \/ ~repeats /\ state \in {"Ready", "Taken"}
    \/ Place = "fail"
Ending ==
    /\ CLOSED => Finished
    /\ \A r \in Late : pc[r] = "mark" => Finished
    /\ \A r \in Late : pc[r] = "kind" => state # "Pending" /\ (~repeats => state \in {"Ready", "Taken", "Cancelled"})
    /\ closed /\ state = "Ready" => \A a \in Actors : pc[a] \in {"generation", "visit"} => readable

\* Somebody is still to ask for a walk, or to see that one has been
Asked ==
    \/ \E a \in Actors : pc[a] \in {"over", "kind", "mark", "walk"}
    \/ REWALK /\ \E a \in Actors : pc[a] \in {"look", "lock", "again"} \cup Walking

\* A closed task's registrations are to be let go
ReleaseAsked ==
    CLOSED /\ (head \cup kept # {} \/ (~closed /\ nodes # {})) =>
      \/ Asked
      \/ \E a \in Actors : pc[a] = "closed" \/ (pc[a] = "swap" /\ closed)

\* One that closed with nothing attached is closed by whoever registers
LateCloses ==
    Place = "done" /\ state \in {"Ready", "Taken"} /\ ~CLOSED =>
      /\ pc[Run] = "done"
      /\ \A r \in Late : pc[r] \in {"none", "push", "over", "kind", "mark"}
      /\ \A r \in head : r \in Late /\ pc[r] \in {"over", "kind", "mark"}

\* An output that can be read and has not reached an open far end is still to
Owed(r) == state = "Ready" /\ r \in Made /\ far[r] = "open" /\ got[r][output] = 0
Reaching(r) ==
    /\ r \in head \cup nodes \cup kept
    /\ \/ pc[Run] = "forward" \/ Asked
       \/ r \in head /\ \E a \in Actors : pc[a] \in {"closed", "swap"}
       \/ r \in nodes /\ \E a \in Actors : pc[a] \in {"enter", "check"}
       \/ r \in nodes /\ readable
OutputAsked == \A r \in Registrations : Owed(r) => Reaching(r)

\* A far end still open is reached by the walks for as long as anything is published
MadePlaced ==
    \A r \in Made : far[r] = "open" => r \in head \cup nodes \cup kept \/ (attached /\ Finished)

WalkInv ==
    /\ TypeOK /\ OneWalk /\ Places /\ RunPlaced /\ PassPlaced /\ ReadCounted /\ HandedKept
    /\ Ending /\ ReleaseAsked /\ LateCloses /\ OutputAsked /\ MadePlaced

-----------------------------------------------------------------------------
\* tlapm infers types before it calls the SMT solver, which is most of its work on the
\* steps below; a fact with a CASE in it makes it go on without them
LEMMA Untyped == CASE TRUE -> TRUE
BY ZenonT(30)

-----------------------------------------------------------------------------
(* Steps.                                                                  *)

\* The words keep their types: no run writes past the last, and none counts ahead
LEMMA NextTyped ==
    ASSUME WalkInv, Next
    PROVE  TypeOK'
<1> USE Untyped DEF taskVars, flagVars, passVars, farVars, Go, Call, Walking, TypeOK, NONE_HANDED
<1>1. /\ TypeOK /\ Run \in Actors /\ Late \subseteq Actors /\ Late \subseteq Registrations /\ Outputs \in Nat \ {0}
      /\ pc[Run] \in {"begin", "recycle", "write"} => output < Outputs
      /\ pc[Run] = "note" => generation < output
      /\ (\E a \in Actors : pc[a] = "check") \/ readable => readers = 1
      /\ readable => output > 0
  BY ReceiversAssumption DEF WalkInv, RunPlaced, ReadCounted, Place, WalkPcs, Actors, Registrations
<1>2. ASSUME NEW r \in Late, Attach(r)  PROVE TypeOK'
  BY <1>1, <1>2 DEF Attach
<1>3. ASSUME NEW r \in Late, Push(r)  PROVE TypeOK'
  BY <1>1, <1>3 DEF Push
<1>4. ASSUME NEW r \in Late, OverState(r)  PROVE TypeOK'
  BY <1>1, <1>4, ZenonT(30) DEF OverState
<1>5. ASSUME NEW r \in Late, OverKind(r)  PROVE TypeOK'
  BY <1>1, <1>5, ZenonT(30) DEF OverKind
<1>6. ASSUME NEW r \in Late, MarkClosed(r)  PROVE TypeOK'
  BY <1>1, <1>6 DEF MarkClosed
<1>7. ASSUME NEW a \in Actors, Ask(a)  PROVE TypeOK'
  BY <1>1, <1>7 DEF Ask
<1>8. ASSUME NEW a \in Actors, LookHead(a)  PROVE TypeOK'
  BY <1>1, <1>8 DEF LookHead
<1>9. ASSUME NEW a \in Actors, LookLock(a)  PROVE TypeOK'
  BY <1>1, <1>9 DEF LookLock
<1>10. ASSUME NEW a \in Actors, Lock(a)  PROVE TypeOK'
  BY <1>1, <1>10 DEF Lock
<1>11. ASSUME NEW a \in Actors, Request(a)  PROVE TypeOK'
  BY <1>1, <1>11, ZenonT(30) DEF Request
<1>12. ASSUME NEW a \in Actors, Unlock(a)  PROVE TypeOK'
  BY <1>1, <1>12, ZenonT(30) DEF Unlock
<1>13. ASSUME NEW a \in Actors, Again(a)  PROVE TypeOK'
  BY <1>1, <1>13 DEF Again
<1>14. ASSUME NEW a \in Actors, LookClosed(a)  PROVE TypeOK'
  BY <1>1, <1>14 DEF LookClosed
<1>15. ASSUME NEW a \in Actors, SwapHead(a)  PROVE TypeOK'
  BY <1>1, <1>15 DEF SwapHead
<1>16. ASSUME NEW a \in Actors, Enter(a)  PROVE TypeOK'
  BY <1>1, <1>16 DEF Enter
<1>17. ASSUME NEW a \in Actors, Check(a)  PROVE TypeOK'
  BY <1>1, <1>17 DEF Check
<1>18. ASSUME NEW a \in Actors, LookGeneration(a)  PROVE TypeOK'
  BY <1>1, <1>18 DEF LookGeneration
<1>19. ASSUME NEW a \in Actors, NEW r \in Registrations, Visit(a, r)  PROVE TypeOK'
  <2>1. handed' \in [Registrations -> NONE_HANDED .. Outputs]
    <3>1. handed' = handed \/ handed' = [handed EXCEPT ![r] = gen]
      BY <1>19 DEF Visit
    <3>2. gen \in NONE_HANDED .. Outputs
      BY <1>1
    <3> QED  BY <1>1, <3>1, <3>2, ZenonT(30)
  <2>2. got' \in [Registrations -> [1 .. Outputs -> Nat]]
    <3>1. CASE got' = got
      BY <1>1, <3>1
    <3>2. CASE readable /\ Deliver(r)
      <4>1. Outputs \in Nat /\ output \in 1 .. Outputs /\ got[r] \in [1 .. Outputs -> Nat]
        BY <1>1, <3>2
      <4>2. [got[r] EXCEPT ![output] = @ + 1] \in [1 .. Outputs -> Nat]
        BY <4>1
      <4> QED  BY <1>1, <3>2, <4>2 DEF Deliver
    <3> QED  BY <1>19, <3>1, <3>2 DEF Visit
  <2>3. kept' \subseteq Registrations /\ nodes' \subseteq Registrations
    BY <1>1, <1>19 DEF Visit
  <2> QED  BY <1>1, <1>19, <2>1, <2>2, <2>3 DEF Visit
<1>20. ASSUME NEW a \in Actors, NEW r \in Registrations, VisitPanics(a, r)  PROVE TypeOK'
  BY <1>1, <1>20 DEF VisitPanics, Unseen
<1>21. ASSUME NEW a \in Actors, Leave(a)  PROVE TypeOK'
  <2>1. readers' \in Nat
    BY <1>1, <1>21 DEF Leave
  <2>2. {repeats', attached', LOCKED', REWALK', CLOSED', closed', readable'} \subseteq BOOLEAN
    BY <1>1, <1>21, ZenonT(30) DEF Leave
  <2> QED  BY <1>1, <1>21, <2>1, <2>2 DEF Leave
<1>22. ASSUME NEW a \in Actors, PutBack(a)  PROVE TypeOK'
  <2>1. gen' \in 0 .. Outputs /\ head' \subseteq Registrations /\ kept' \subseteq Registrations
    BY <1>1, <1>22 DEF PutBack
  <2>2. {repeats', attached', LOCKED', REWALK', CLOSED', closed', readable'} \subseteq BOOLEAN
    BY <1>1, <1>22, ZenonT(30) DEF PutBack
  <2> QED  BY <1>1, <1>22, <2>1, <2>2 DEF PutBack
<1>23. CASE Begin
  BY <1>1, <1>23, ZenonT(30) DEF Begin
<1>24. CASE Recycle
  BY <1>1, <1>24 DEF Recycle
<1>25. CASE Write
  BY <1>1, <1>25 DEF Write
<1>26. CASE Panic
  BY <1>1, <1>26, ZenonT(30) DEF Panic
<1>27. CASE SettleFailed
  BY <1>1, <1>27 DEF SettleFailed
<1>28. CASE NoteOutput
  BY <1>1, <1>28 DEF NoteOutput
<1>29. CASE Publish
  BY <1>1, <1>29 DEF Publish
<1>30. CASE ForwardOutput
  BY <1>1, <1>30, ZenonT(30) DEF ForwardOutput
<1>31. CASE After
  BY <1>1, <1>31 DEF After
<1>32. CASE Close
  BY <1>1, <1>32, ZenonT(30) DEF Close
<1>33. CASE Cancel
  BY <1>1, <1>33 DEF Cancel
<1>34. CASE Take
  BY <1>1, <1>34 DEF Take
<1>35. ASSUME NEW r \in Registrations, FarFinishes(r)  PROVE TypeOK'
  BY <1>1, <1>35 DEF FarFinishes
<1> HIDE DEF TypeOK
<1> QED  BY <1>2, <1>3, <1>4, <1>5, <1>6, <1>7, <1>8, <1>9, <1>10, <1>11, <1>12, <1>13, <1>14, <1>15, <1>16, <1>17, <1>18, <1>19, <1>20, <1>21, <1>22, <1>23, <1>24, <1>25, <1>26, <1>27, <1>28, <1>29, <1>30, <1>31, <1>32, <1>33, <1>34, <1>35
     DEF Next, RegisterStep, WalkStep, RunStep

\* The lock admits one walk, and its pass moves the registrations from the stack and back
LEMMA NextOneWalk ==
    ASSUME WalkInv, Next
    PROVE  OneWalk'
<1> USE Untyped DEF taskVars, flagVars, passVars, farVars, Go, Call, Walking, OneWalk
<1>1. /\ pc \in [Actors -> WalkPcs \cup RegisterPcs \cup RunPcs] /\ LOCKED \in BOOLEAN
      /\ Run \in Actors /\ Late \subseteq Actors /\ OneWalk /\ PassPlaced
      /\ \A a \in Actors : then[a] \notin Walking
  BY ZenonT(30) DEF WalkInv, TypeOK, Actors, Walking, WalkPcs, RegisterPcs, RunPcs
<1>2. ASSUME NEW r \in Late, Attach(r)  PROVE OneWalk'
  BY <1>1, <1>2 DEF Attach
<1>3. ASSUME NEW r \in Late, Push(r)  PROVE OneWalk'
  BY <1>1, <1>3 DEF Push, PassPlaced
<1>4. ASSUME NEW r \in Late, OverState(r)  PROVE OneWalk'
  BY <1>1, <1>4 DEF OverState
<1>5. ASSUME NEW r \in Late, OverKind(r)  PROVE OneWalk'
  BY <1>1, <1>5 DEF OverKind
<1>6. ASSUME NEW r \in Late, MarkClosed(r)  PROVE OneWalk'
  BY <1>1, <1>6 DEF MarkClosed
<1>7. ASSUME NEW a \in Actors, Ask(a)  PROVE OneWalk'
  BY <1>1, <1>7 DEF Ask
<1>8. ASSUME NEW a \in Actors, LookHead(a)  PROVE OneWalk'
  BY <1>1, <1>8 DEF LookHead
<1>9. ASSUME NEW a \in Actors, LookLock(a)  PROVE OneWalk'
  BY <1>1, <1>9 DEF LookLock
<1>10. ASSUME NEW a \in Actors, Lock(a)  PROVE OneWalk'
  BY <1>1, <1>10 DEF Lock
<1>11. ASSUME NEW a \in Actors, Request(a)  PROVE OneWalk'
  BY <1>1, <1>11 DEF Request
<1>12. ASSUME NEW a \in Actors, Unlock(a)  PROVE OneWalk'
  BY <1>1, <1>12 DEF Unlock
<1>13. ASSUME NEW a \in Actors, Again(a)  PROVE OneWalk'
  BY <1>1, <1>13 DEF Again
<1>14. ASSUME NEW a \in Actors, LookClosed(a)  PROVE OneWalk'
  BY <1>1, <1>14 DEF LookClosed
<1>15. ASSUME NEW a \in Actors, SwapHead(a)  PROVE OneWalk'
  BY <1>1, <1>15 DEF SwapHead, PassPlaced
<1>16. ASSUME NEW a \in Actors, Enter(a)  PROVE OneWalk'
  BY <1>1, <1>16 DEF Enter
<1>17. ASSUME NEW a \in Actors, Check(a)  PROVE OneWalk'
  BY <1>1, <1>17 DEF Check
<1>18. ASSUME NEW a \in Actors, LookGeneration(a)  PROVE OneWalk'
  BY <1>1, <1>18 DEF LookGeneration
<1>19. ASSUME NEW a \in Actors, NEW r \in Registrations, Visit(a, r)  PROVE OneWalk'
  BY <1>1, <1>19 DEF Visit, Unseen, Deliver
<1>20. ASSUME NEW a \in Actors, NEW r \in Registrations, VisitPanics(a, r)  PROVE OneWalk'
  BY <1>1, <1>20 DEF VisitPanics, Unseen
<1>21. ASSUME NEW a \in Actors, Leave(a)  PROVE OneWalk'
  BY <1>1, <1>21 DEF Leave
<1>22. ASSUME NEW a \in Actors, PutBack(a)  PROVE OneWalk'
  BY <1>1, <1>22 DEF PutBack, PassPlaced
<1>23. CASE Begin
  BY <1>1, <1>23 DEF Begin
<1>24. CASE Recycle
  BY <1>1, <1>24 DEF Recycle
<1>25. CASE Write
  BY <1>1, <1>25 DEF Write
<1>26. CASE Panic
  BY <1>1, <1>26 DEF Panic
<1>27. CASE SettleFailed
  BY <1>1, <1>27 DEF SettleFailed
<1>28. CASE NoteOutput
  BY <1>1, <1>28 DEF NoteOutput
<1>29. CASE Publish
  BY <1>1, <1>29 DEF Publish
<1>30. CASE ForwardOutput
  BY <1>1, <1>30 DEF ForwardOutput
<1>31. CASE After
  BY <1>1, <1>31 DEF After
<1>32. CASE Close
  BY <1>1, <1>32 DEF Close
<1>33. CASE Cancel
  BY <1>1, <1>33 DEF Cancel
<1>34. CASE Take
  BY <1>1, <1>34 DEF Take
<1>35. ASSUME NEW r \in Registrations, FarFinishes(r)  PROVE OneWalk'
  BY <1>1, <1>35 DEF FarFinishes
<1> HIDE DEF OneWalk
<1> QED  BY <1>2, <1>3, <1>4, <1>5, <1>6, <1>7, <1>8, <1>9, <1>10, <1>11, <1>12, <1>13, <1>14, <1>15, <1>16, <1>17, <1>18, <1>19, <1>20, <1>21, <1>22, <1>23, <1>24, <1>25, <1>26, <1>27, <1>28, <1>29, <1>30, <1>31, <1>32, <1>33, <1>34, <1>35
     DEF Next, RegisterStep, WalkStep, RunStep

\* Where threads are: nobody walks a task that has nothing attached
LEMMA NextPlaces ==
    ASSUME WalkInv, Next
    PROVE  Places'
<1> USE Untyped DEF taskVars, flagVars, passVars, farVars, Go, Call, Walking, Places, WalkPcs, RegisterPcs, RunPcs, Actors
<1>1. TypeOK /\ Places /\ Run \notin Late
  BY ReceiversAssumption, SMTT(30) DEF WalkInv, Registrations
<1> USE DEF TypeOK
<1>2. ASSUME NEW r \in Late, Attach(r)  PROVE Places'
  BY <1>1, <1>2 DEF Attach
<1>3. ASSUME NEW r \in Late, Push(r)  PROVE Places'
  BY <1>1, <1>3 DEF Push
<1>4. ASSUME NEW r \in Late, OverState(r)  PROVE Places'
  BY <1>1, <1>4, ZenonT(30) DEF OverState
<1>5. ASSUME NEW r \in Late, OverKind(r)  PROVE Places'
  BY <1>1, <1>5, ZenonT(30) DEF OverKind
<1>6. ASSUME NEW r \in Late, MarkClosed(r)  PROVE Places'
  BY <1>1, <1>6 DEF MarkClosed
<1>7. ASSUME NEW a \in Actors, Ask(a)  PROVE Places'
  BY <1>1, <1>7 DEF Ask
<1>8. ASSUME NEW a \in Actors, LookHead(a)  PROVE Places'
  BY <1>1, <1>8 DEF LookHead
<1>9. ASSUME NEW a \in Actors, LookLock(a)  PROVE Places'
  BY <1>1, <1>9 DEF LookLock
<1>10. ASSUME NEW a \in Actors, Lock(a)  PROVE Places'
  BY <1>1, <1>10 DEF Lock
<1>11. ASSUME NEW a \in Actors, Request(a)  PROVE Places'
  BY <1>1, <1>11 DEF Request
<1>12. ASSUME NEW a \in Actors, Unlock(a)  PROVE Places'
  BY <1>1, <1>12 DEF Unlock
<1>13. ASSUME NEW a \in Actors, Again(a)  PROVE Places'
  BY <1>1, <1>13 DEF Again
<1>14. ASSUME NEW a \in Actors, LookClosed(a)  PROVE Places'
  BY <1>1, <1>14 DEF LookClosed
<1>15. ASSUME NEW a \in Actors, SwapHead(a)  PROVE Places'
  BY <1>1, <1>15 DEF SwapHead
<1>16. ASSUME NEW a \in Actors, Enter(a)  PROVE Places'
  BY <1>1, <1>16 DEF Enter
<1>17. ASSUME NEW a \in Actors, Check(a)  PROVE Places'
  BY <1>1, <1>17 DEF Check
<1>18. ASSUME NEW a \in Actors, LookGeneration(a)  PROVE Places'
  BY <1>1, <1>18 DEF LookGeneration
<1>19. ASSUME NEW a \in Actors, NEW r \in Registrations, Visit(a, r)  PROVE Places'
  BY <1>1, <1>19 DEF Visit, Unseen, Deliver
<1>20. ASSUME NEW a \in Actors, NEW r \in Registrations, VisitPanics(a, r)  PROVE Places'
  BY <1>1, <1>20 DEF VisitPanics, Unseen
<1>21. ASSUME NEW a \in Actors, Leave(a)  PROVE Places'
  BY <1>1, <1>21 DEF Leave
<1>22. ASSUME NEW a \in Actors, PutBack(a)  PROVE Places'
  BY <1>1, <1>22 DEF PutBack
<1>23. CASE Begin
  <2>1. UNCHANGED <<then, attached>> /\ \E p \in {"write", "recycle", "close"} : pc' = [pc EXCEPT ![Run] = p]
    BY <1>23 DEF Begin
  <2> QED  BY <1>1, <2>1
<1>24. CASE Recycle
  BY <1>1, <1>24 DEF Recycle
<1>25. CASE Write
  BY <1>1, <1>25 DEF Write
<1>26. CASE Panic
  BY <1>1, <1>26 DEF Panic
<1>27. CASE SettleFailed
  BY <1>1, <1>27 DEF SettleFailed
<1>28. CASE NoteOutput
  BY <1>1, <1>28 DEF NoteOutput
<1>29. CASE Publish
  <2>1. UNCHANGED <<then, attached>> /\ \E p \in {"forward", "close"} : pc' = [pc EXCEPT ![Run] = p]
    BY <1>29 DEF Publish
  <2> QED  BY <1>1, <2>1
<1>30. CASE ForwardOutput
  BY <1>1, <1>30 DEF ForwardOutput
<1>31. CASE After
  BY <1>1, <1>31 DEF After
<1>32. CASE Close
  BY <1>1, <1>32 DEF Close
<1>33. CASE Cancel
  BY <1>1, <1>33 DEF Cancel
<1>34. CASE Take
  BY <1>1, <1>34 DEF Take
<1>35. ASSUME NEW r \in Registrations, FarFinishes(r)  PROVE Places'
  BY <1>1, <1>35 DEF FarFinishes
<1> HIDE DEF Places
<1> QED  BY <1>2, <1>3, <1>4, <1>5, <1>6, <1>7, <1>8, <1>9, <1>10, <1>11, <1>12, <1>13, <1>14, <1>15, <1>16, <1>17, <1>18, <1>19, <1>20, <1>21, <1>22, <1>23, <1>24, <1>25, <1>26, <1>27, <1>28, <1>29, <1>30, <1>31, <1>32, <1>33, <1>34, <1>35
     DEF Next, RegisterStep, WalkStep, RunStep

\* The run's place and the state of the task
LEMMA NextRunPlaced ==
    ASSUME WalkInv, Next
    PROVE  RunPlaced'
<1> USE Untyped DEF taskVars, flagVars, passVars, farVars, Go, Call, Walking, RunPlaced, Place, WalkPcs, RunPcs, Actors
<1>1. TypeOK /\ RunPlaced /\ Places /\ Run \notin Late /\ Outputs \in Nat
  BY ReceiversAssumption, SMTT(30) DEF WalkInv, Registrations
<1> USE DEF TypeOK, Places
<1>2. ASSUME NEW r \in Late, Attach(r)  PROVE RunPlaced'
  BY <1>1, <1>2 DEF Attach
<1>3. ASSUME NEW r \in Late, Push(r)  PROVE RunPlaced'
  BY <1>1, <1>3 DEF Push
<1>4. ASSUME NEW r \in Late, OverState(r)  PROVE RunPlaced'
  BY <1>1, <1>4 DEF OverState
<1>5. ASSUME NEW r \in Late, OverKind(r)  PROVE RunPlaced'
  BY <1>1, <1>5 DEF OverKind
<1>6. ASSUME NEW r \in Late, MarkClosed(r)  PROVE RunPlaced'
  BY <1>1, <1>6 DEF MarkClosed
<1>7. ASSUME NEW a \in Actors, Ask(a)  PROVE RunPlaced'
  BY <1>1, <1>7 DEF Ask
<1>8. ASSUME NEW a \in Actors, LookHead(a)  PROVE RunPlaced'
  BY <1>1, <1>8, SMTT(30) DEF LookHead
<1>9. ASSUME NEW a \in Actors, LookLock(a)  PROVE RunPlaced'
  BY <1>1, <1>9 DEF LookLock
<1>10. ASSUME NEW a \in Actors, Lock(a)  PROVE RunPlaced'
  BY <1>1, <1>10 DEF Lock
<1>11. ASSUME NEW a \in Actors, Request(a)  PROVE RunPlaced'
  BY <1>1, <1>11 DEF Request
<1>12. ASSUME NEW a \in Actors, Unlock(a)  PROVE RunPlaced'
  BY <1>1, <1>12, SMTT(30) DEF Unlock
<1>13. ASSUME NEW a \in Actors, Again(a)  PROVE RunPlaced'
  BY <1>1, <1>13 DEF Again
<1>14. ASSUME NEW a \in Actors, LookClosed(a)  PROVE RunPlaced'
  BY <1>1, <1>14 DEF LookClosed
<1>15. ASSUME NEW a \in Actors, SwapHead(a)  PROVE RunPlaced'
  BY <1>1, <1>15, SMTT(30) DEF SwapHead
<1>16. ASSUME NEW a \in Actors, Enter(a)  PROVE RunPlaced'
  BY <1>1, <1>16 DEF Enter
<1>17. ASSUME NEW a \in Actors, Check(a)  PROVE RunPlaced'
  BY <1>1, <1>17 DEF Check
<1>18. ASSUME NEW a \in Actors, LookGeneration(a)  PROVE RunPlaced'
  BY <1>1, <1>18 DEF LookGeneration
<1>19. ASSUME NEW a \in Actors, NEW r \in Registrations, Visit(a, r)  PROVE RunPlaced'
  BY <1>1, <1>19 DEF Visit, Unseen, Deliver
<1>20. ASSUME NEW a \in Actors, NEW r \in Registrations, VisitPanics(a, r)  PROVE RunPlaced'
  BY <1>1, <1>20 DEF VisitPanics, Unseen
<1>21. ASSUME NEW a \in Actors, Leave(a)  PROVE RunPlaced'
  BY <1>1, <1>21 DEF Leave
<1>22. ASSUME NEW a \in Actors, PutBack(a)  PROVE RunPlaced'
  BY <1>1, <1>22 DEF PutBack
<1>23. CASE Begin
  BY <1>1, <1>23 DEF Begin
<1>24. CASE Recycle
  BY <1>1, <1>24 DEF Recycle
<1>25. CASE Write
  BY <1>1, <1>25 DEF Write
<1>26. CASE Panic
  BY <1>1, <1>26 DEF Panic
<1>27. CASE SettleFailed
  BY <1>1, <1>27 DEF SettleFailed
<1>28. CASE NoteOutput
  BY <1>1, <1>28 DEF NoteOutput
<1>29. CASE Publish
  BY <1>1, <1>29 DEF Publish
<1>30. CASE ForwardOutput
  BY <1>1, <1>30 DEF ForwardOutput
<1>31. CASE After
  BY <1>1, <1>31, ZenonT(30) DEF After
<1>32. CASE Close
  BY <1>1, <1>32 DEF Close
<1>33. CASE Cancel
  BY <1>1, <1>33 DEF Cancel
<1>34. CASE Take
  BY <1>1, <1>34 DEF Take
<1>35. ASSUME NEW r \in Registrations, FarFinishes(r)  PROVE RunPlaced'
  BY <1>1, <1>35 DEF FarFinishes
<1> HIDE DEF RunPlaced
<1> QED  BY <1>2, <1>3, <1>4, <1>5, <1>6, <1>7, <1>8, <1>9, <1>10, <1>11, <1>12, <1>13, <1>14, <1>15, <1>16, <1>17, <1>18, <1>19, <1>20, <1>21, <1>22, <1>23, <1>24, <1>25, <1>26, <1>27, <1>28, <1>29, <1>30, <1>31, <1>32, <1>33, <1>34, <1>35
     DEF Next, RegisterStep, WalkStep, RunStep

\* What a pass holds
LEMMA NextPassPlaced ==
    ASSUME WalkInv, Next
    PROVE  PassPlaced'
<1> USE Untyped DEF taskVars, flagVars, passVars, farVars, Go, Call, Walking, PassPlaced, Actors
<1>1. TypeOK /\ PassPlaced /\ OneWalk /\ Places /\ Run \notin Late /\ Registrations = Early \cup Late /\ Early \cap Late = {}
  BY ReceiversAssumption, SMTT(30) DEF WalkInv, Registrations
<1> USE DEF TypeOK, OneWalk, Places
<1>2. ASSUME NEW r \in Late, Attach(r)  PROVE PassPlaced'
  BY <1>1, <1>2 DEF Attach
<1>3. ASSUME NEW r \in Late, Push(r)  PROVE PassPlaced'
  BY <1>1, <1>3 DEF Push
<1>4. ASSUME NEW r \in Late, OverState(r)  PROVE PassPlaced'
  BY <1>1, <1>4 DEF OverState
<1>5. ASSUME NEW r \in Late, OverKind(r)  PROVE PassPlaced'
  BY <1>1, <1>5 DEF OverKind
<1>6. ASSUME NEW r \in Late, MarkClosed(r)  PROVE PassPlaced'
  BY <1>1, <1>6 DEF MarkClosed
<1>7. ASSUME NEW a \in Actors, Ask(a)  PROVE PassPlaced'
  BY <1>1, <1>7 DEF Ask
<1>8. ASSUME NEW a \in Actors, LookHead(a)  PROVE PassPlaced'
  BY <1>1, <1>8 DEF LookHead
<1>9. ASSUME NEW a \in Actors, LookLock(a)  PROVE PassPlaced'
  BY <1>1, <1>9 DEF LookLock
<1>10. ASSUME NEW a \in Actors, Lock(a)  PROVE PassPlaced'
  BY <1>1, <1>10 DEF Lock
<1>11. ASSUME NEW a \in Actors, Request(a)  PROVE PassPlaced'
  BY <1>1, <1>11 DEF Request
<1>12. ASSUME NEW a \in Actors, Unlock(a)  PROVE PassPlaced'
  BY <1>1, <1>12 DEF Unlock
<1>13. ASSUME NEW a \in Actors, Again(a)  PROVE PassPlaced'
  BY <1>1, <1>13 DEF Again
<1>14. ASSUME NEW a \in Actors, LookClosed(a)  PROVE PassPlaced'
  BY <1>1, <1>14 DEF LookClosed
<1>15. ASSUME NEW a \in Actors, SwapHead(a)  PROVE PassPlaced'
  BY <1>1, <1>15 DEF SwapHead
<1>16. ASSUME NEW a \in Actors, Enter(a)  PROVE PassPlaced'
  BY <1>1, <1>16 DEF Enter
<1>17. ASSUME NEW a \in Actors, Check(a)  PROVE PassPlaced'
  BY <1>1, <1>17 DEF Check
<1>18. ASSUME NEW a \in Actors, LookGeneration(a)  PROVE PassPlaced'
  BY <1>1, <1>18 DEF LookGeneration
<1>19. ASSUME NEW a \in Actors, NEW r \in Registrations, Visit(a, r)  PROVE PassPlaced'
  BY <1>1, <1>19 DEF Visit, Unseen, Deliver
<1>20. ASSUME NEW a \in Actors, NEW r \in Registrations, VisitPanics(a, r)  PROVE PassPlaced'
  BY <1>1, <1>20 DEF VisitPanics, Unseen
<1>21. ASSUME NEW a \in Actors, Leave(a)  PROVE PassPlaced'
  BY <1>1, <1>21 DEF Leave
<1>22. ASSUME NEW a \in Actors, PutBack(a)  PROVE PassPlaced'
  <2>1. /\ \A b \in Actors : pc[b] \in Walking => b = a
        /\ pc' = [pc EXCEPT ![a] = "request"] /\ head' = head \cup kept /\ kept' = {} /\ nodes' = nodes
        /\ far' = far /\ CLOSED' = CLOSED /\ ~closed' /\ (attached' <=> attached)
    BY <1>1, <1>22 DEF PutBack
  <2>2. nodes = {} /\ attached
    BY <1>1, <1>22, <2>1 DEF PutBack, WalkPcs
  <2> QED  BY <1>1, <1>22, <2>1, <2>2
<1>23. CASE Begin
  BY <1>1, <1>23 DEF Begin
<1>24. CASE Recycle
  BY <1>1, <1>24 DEF Recycle
<1>25. CASE Write
  BY <1>1, <1>25 DEF Write
<1>26. CASE Panic
  BY <1>1, <1>26 DEF Panic
<1>27. CASE SettleFailed
  BY <1>1, <1>27 DEF SettleFailed
<1>28. CASE NoteOutput
  BY <1>1, <1>28 DEF NoteOutput
<1>29. CASE Publish
  BY <1>1, <1>29 DEF Publish
<1>30. CASE ForwardOutput
  BY <1>1, <1>30 DEF ForwardOutput
<1>31. CASE After
  BY <1>1, <1>31 DEF After
<1>32. CASE Close
  BY <1>1, <1>32 DEF Close
<1>33. CASE Cancel
  BY <1>1, <1>33 DEF Cancel
<1>34. CASE Take
  BY <1>1, <1>34 DEF Take
<1>35. ASSUME NEW r \in Registrations, FarFinishes(r)  PROVE PassPlaced'
  BY <1>1, <1>35 DEF FarFinishes
<1> HIDE DEF PassPlaced
<1> QED  BY <1>2, <1>3, <1>4, <1>5, <1>6, <1>7, <1>8, <1>9, <1>10, <1>11, <1>12, <1>13, <1>14, <1>15, <1>16, <1>17, <1>18, <1>19, <1>20, <1>21, <1>22, <1>23, <1>24, <1>25, <1>26, <1>27, <1>28, <1>29, <1>30, <1>31, <1>32, <1>33, <1>34, <1>35
     DEF Next, RegisterStep, WalkStep, RunStep

\* The read a pass counts keeps the run from the output it hands on
LEMMA NextReadCounted ==
    ASSUME WalkInv, Next
    PROVE  ReadCounted'
<1> USE Untyped DEF taskVars, flagVars, passVars, farVars, Go, Call, Walking, ReadCounted, Place, WalkPcs, Actors
<1>1. TypeOK /\ ReadCounted /\ RunPlaced /\ OneWalk /\ Places /\ Run \notin Late
  BY ReceiversAssumption, SMTT(30) DEF WalkInv, Registrations
<1> USE DEF TypeOK, OneWalk, RunPlaced, Places
<1>2. ASSUME NEW r \in Late, Attach(r)  PROVE ReadCounted'
  BY <1>1, <1>2 DEF Attach
<1>3. ASSUME NEW r \in Late, Push(r)  PROVE ReadCounted'
  BY <1>1, <1>3 DEF Push
<1>4. ASSUME NEW r \in Late, OverState(r)  PROVE ReadCounted'
  BY <1>1, <1>4 DEF OverState
<1>5. ASSUME NEW r \in Late, OverKind(r)  PROVE ReadCounted'
  BY <1>1, <1>5 DEF OverKind
<1>6. ASSUME NEW r \in Late, MarkClosed(r)  PROVE ReadCounted'
  BY <1>1, <1>6 DEF MarkClosed
<1>7. ASSUME NEW a \in Actors, Ask(a)  PROVE ReadCounted'
  BY <1>1, <1>7 DEF Ask
<1>8. ASSUME NEW a \in Actors, LookHead(a)  PROVE ReadCounted'
  BY <1>1, <1>8 DEF LookHead
<1>9. ASSUME NEW a \in Actors, LookLock(a)  PROVE ReadCounted'
  BY <1>1, <1>9 DEF LookLock
<1>10. ASSUME NEW a \in Actors, Lock(a)  PROVE ReadCounted'
  BY <1>1, <1>10 DEF Lock
<1>11. ASSUME NEW a \in Actors, Request(a)  PROVE ReadCounted'
  BY <1>1, <1>11 DEF Request
<1>12. ASSUME NEW a \in Actors, Unlock(a)  PROVE ReadCounted'
  BY <1>1, <1>12 DEF Unlock
<1>13. ASSUME NEW a \in Actors, Again(a)  PROVE ReadCounted'
  BY <1>1, <1>13 DEF Again
<1>14. ASSUME NEW a \in Actors, LookClosed(a)  PROVE ReadCounted'
  BY <1>1, <1>14 DEF LookClosed
<1>15. ASSUME NEW a \in Actors, SwapHead(a)  PROVE ReadCounted'
  BY <1>1, <1>15 DEF SwapHead
<1>16. ASSUME NEW a \in Actors, Enter(a)  PROVE ReadCounted'
  BY <1>1, <1>16 DEF Enter
<1>17. ASSUME NEW a \in Actors, Check(a)  PROVE ReadCounted'
  BY <1>1, <1>17 DEF Check
<1>18. ASSUME NEW a \in Actors, LookGeneration(a)  PROVE ReadCounted'
  BY <1>1, <1>18 DEF LookGeneration
<1>19. ASSUME NEW a \in Actors, NEW r \in Registrations, Visit(a, r)  PROVE ReadCounted'
  BY <1>1, <1>19 DEF Visit, Unseen, Deliver
<1>20. ASSUME NEW a \in Actors, NEW r \in Registrations, VisitPanics(a, r)  PROVE ReadCounted'
  BY <1>1, <1>20 DEF VisitPanics, Unseen
<1>21. ASSUME NEW a \in Actors, Leave(a)  PROVE ReadCounted'
  BY <1>1, <1>21 DEF Leave
<1>22. ASSUME NEW a \in Actors, PutBack(a)  PROVE ReadCounted'
  BY <1>1, <1>22 DEF PutBack
<1>23. CASE Begin
  BY <1>1, <1>23 DEF Begin
<1>24. CASE Recycle
  BY <1>1, <1>24 DEF Recycle
<1>25. CASE Write
  BY <1>1, <1>25 DEF Write
<1>26. CASE Panic
  BY <1>1, <1>26 DEF Panic
<1>27. CASE SettleFailed
  BY <1>1, <1>27 DEF SettleFailed
<1>28. CASE NoteOutput
  BY <1>1, <1>28 DEF NoteOutput
<1>29. CASE Publish
  BY <1>1, <1>29 DEF Publish
<1>30. CASE ForwardOutput
  BY <1>1, <1>30 DEF ForwardOutput
<1>31. CASE After
  BY <1>1, <1>31 DEF After
<1>32. CASE Close
  BY <1>1, <1>32 DEF Close
<1>33. CASE Cancel
  BY <1>1, <1>33 DEF Cancel
<1>34. CASE Take
  BY <1>1, <1>34 DEF Take
<1>35. ASSUME NEW r \in Registrations, FarFinishes(r)  PROVE ReadCounted'
  BY <1>1, <1>35 DEF FarFinishes
<1> HIDE DEF ReadCounted
<1> QED  BY <1>2, <1>3, <1>4, <1>5, <1>6, <1>7, <1>8, <1>9, <1>10, <1>11, <1>12, <1>13, <1>14, <1>15, <1>16, <1>17, <1>18, <1>19, <1>20, <1>21, <1>22, <1>23, <1>24, <1>25, <1>26, <1>27, <1>28, <1>29, <1>30, <1>31, <1>32, <1>33, <1>34, <1>35
     DEF Next, RegisterStep, WalkStep, RunStep

\* The generation handed to a registration stands for the output it was given
LEMMA NextHandedKept ==
    ASSUME WalkInv, Next
    PROVE  HandedKept'
<1> USE Untyped DEF taskVars, flagVars, passVars, farVars, Go, Call, Walking, HandedKept, NONE_HANDED, Place, WalkPcs
<1>1. TypeOK /\ HandedKept /\ RunPlaced /\ ReadCounted /\ OneWalk /\ Places /\ Run \notin Late /\ Actors = Late \cup {Run}
      /\ Late \subseteq Registrations /\ Outputs \in Nat
  BY ReceiversAssumption, SMTT(30) DEF WalkInv, Registrations, Actors
<1> USE DEF TypeOK, RunPlaced, Places
<1>2. ASSUME NEW r \in Late, Attach(r)  PROVE HandedKept'
  BY <1>1, <1>2 DEF Attach
<1>3. ASSUME NEW r \in Late, Push(r)  PROVE HandedKept'
  BY <1>1, <1>3 DEF Push
<1>4. ASSUME NEW r \in Late, OverState(r)  PROVE HandedKept'
  BY <1>1, <1>4 DEF OverState
<1>5. ASSUME NEW r \in Late, OverKind(r)  PROVE HandedKept'
  BY <1>1, <1>5 DEF OverKind
<1>6. ASSUME NEW r \in Late, MarkClosed(r)  PROVE HandedKept'
  BY <1>1, <1>6 DEF MarkClosed
<1>7. ASSUME NEW a \in Actors, Ask(a)  PROVE HandedKept'
  BY <1>1, <1>7 DEF Ask
<1>8. ASSUME NEW a \in Actors, LookHead(a)  PROVE HandedKept'
  BY <1>1, <1>8 DEF LookHead
<1>9. ASSUME NEW a \in Actors, LookLock(a)  PROVE HandedKept'
  BY <1>1, <1>9 DEF LookLock
<1>10. ASSUME NEW a \in Actors, Lock(a)  PROVE HandedKept'
  BY <1>1, <1>10 DEF Lock
<1>11. ASSUME NEW a \in Actors, Request(a)  PROVE HandedKept'
  BY <1>1, <1>11 DEF Request
<1>12. ASSUME NEW a \in Actors, Unlock(a)  PROVE HandedKept'
  BY <1>1, <1>12 DEF Unlock
<1>13. ASSUME NEW a \in Actors, Again(a)  PROVE HandedKept'
  BY <1>1, <1>13 DEF Again
<1>14. ASSUME NEW a \in Actors, LookClosed(a)  PROVE HandedKept'
  BY <1>1, <1>14 DEF LookClosed
<1>15. ASSUME NEW a \in Actors, SwapHead(a)  PROVE HandedKept'
  BY <1>1, <1>15 DEF SwapHead
<1>16. ASSUME NEW a \in Actors, Enter(a)  PROVE HandedKept'
  BY <1>1, <1>16 DEF Enter
<1>17. ASSUME NEW a \in Actors, Check(a)  PROVE HandedKept'
  BY <1>1, <1>17 DEF Check
<1>18. ASSUME NEW a \in Actors, LookGeneration(a)  PROVE HandedKept'
  BY <1>1, <1>18 DEF LookGeneration
<1>19. ASSUME NEW a \in Actors, NEW r \in Registrations, Visit(a, r)  PROVE HandedKept'
  <2>1. CASE got' = got /\ handed' = handed
    BY <1>1, <1>19, <2>1 DEF Visit
  <2>2. CASE readable /\ Unseen(r) /\ handed' = [handed EXCEPT ![r] = gen] /\ Deliver(r)
    <3>1. /\ output \in 1 .. Outputs /\ gen = generation /\ attached /\ Place \notin {"note", "publish"}
      BY <1>1, <1>19, <2>2 DEF Visit, ReadCounted
    <3>2. got[r][output] = 0
      BY <1>1, <2>2, <3>1 DEF Unseen
    <3>3. /\ handed' \in [Registrations -> NONE_HANDED .. Outputs]
          /\ \A q \in Registrations : handed'[q] = IF q = r THEN generation ELSE handed[q]
      BY <1>1, <2>2, <3>1
    <3>4. \A q \in Registrations : \A o \in 1 .. Outputs :
            got'[q][o] = IF q = r /\ o = output THEN 1 ELSE got[q][o]
      BY <1>1, <2>2, <3>1, <3>2 DEF Deliver
    <3>5. UNCHANGED <<gen, generation, attached, output, far, Place>>
      BY <1>19 DEF Visit
    <3> HIDE DEF Place
    <3>6. ASSUME NEW q \in Registrations, NEW o \in 1 .. Outputs
          PROVE  got'[q][o] \in {0, 1} /\ (o > output' => got'[q][o] = 0)
      BY <1>1, <3>1, <3>4, <3>5
    <3>7. ASSUME NEW q \in Registrations
          PROVE  /\ handed'[q] <= generation'
                 /\ handed'[q] # NONE_HANDED => attached' /\ output' > 0
                 /\ output' > 0 /\ got'[q][output'] # 0 => handed'[q] = generation' /\ Place' \notin {"note", "publish"}
                 /\ Place' # "note" /\ far'[q] = "open" /\ handed'[q] = generation' => got'[q][output'] # 0
      <4>1. CASE q = r
        <5>1. handed'[q] = generation /\ got'[q][output] = 1
          BY <3>1, <3>3, <3>4, <4>1
        <5> QED  BY <1>1, <3>1, <3>5, <5>1
      <4>2. CASE q # r
        <5>1. handed'[q] = handed[q] /\ got'[q][output] = got[q][output]
          BY <3>1, <3>3, <3>4, <4>2
        <5> QED  BY <1>1, <3>1, <3>5, <5>1
      <4> QED  BY <4>1, <4>2
    <3> QED  BY <1>1, <3>5, <3>6, <3>7
  <2> QED  BY <1>19, <2>1, <2>2 DEF Visit
<1>20. ASSUME NEW a \in Actors, NEW r \in Registrations, VisitPanics(a, r)  PROVE HandedKept'
  <2>1. /\ output \in 1 .. Outputs /\ gen = generation /\ attached /\ Place \notin {"note", "publish"}
    BY <1>1, <1>20, SMTT(30) DEF VisitPanics, ReadCounted
  <2>2. got[r][output] = 0
    BY <1>1, <1>20, <2>1 DEF VisitPanics, Unseen
  <2>3. /\ \A q \in Registrations : handed'[q] = IF q = r THEN generation ELSE handed[q]
        /\ \A q \in Registrations : far'[q] = IF q = r THEN "failed" ELSE far[q]
    BY <1>1, <1>20, <2>1 DEF VisitPanics
  <2>4. UNCHANGED <<gen, generation, attached, output, got, Place>>
    BY <1>20 DEF VisitPanics
  <2> HIDE DEF Place
  <2> QED  BY <1>1, <2>1, <2>2, <2>3, <2>4
<1>21. ASSUME NEW a \in Actors, Leave(a)  PROVE HandedKept'
  BY <1>1, <1>21 DEF Leave
<1>22. ASSUME NEW a \in Actors, PutBack(a)  PROVE HandedKept'
  BY <1>1, <1>22 DEF PutBack
<1>23. CASE Begin
  BY <1>1, <1>23 DEF Begin
<1>24. CASE Recycle
  BY <1>1, <1>24 DEF Recycle
<1>25. CASE Write
  <2>1. /\ output' = output + 1 /\ output' \in 1 .. Outputs /\ Place' = "note"
        /\ UNCHANGED <<gen, generation, attached, handed, far, got>>
    BY <1>1, <1>25 DEF Write
  <2> HIDE DEF Place
  <2> QED  BY <1>1, <2>1
<1>26. CASE Panic
  BY <1>1, <1>26 DEF Panic
<1>27. CASE SettleFailed
  BY <1>1, <1>27 DEF SettleFailed
<1>28. CASE NoteOutput
  BY <1>1, <1>28 DEF NoteOutput
<1>29. CASE Publish
  BY <1>1, <1>29 DEF Publish
<1>30. CASE ForwardOutput
  BY <1>1, <1>30 DEF ForwardOutput
<1>31. CASE After
  BY <1>1, <1>31 DEF After
<1>32. CASE Close
  BY <1>1, <1>32 DEF Close
<1>33. CASE Cancel
  BY <1>1, <1>33 DEF Cancel
<1>34. CASE Take
  BY <1>1, <1>34 DEF Take
<1>35. ASSUME NEW r \in Registrations, FarFinishes(r)  PROVE HandedKept'
  BY <1>1, <1>35 DEF FarFinishes
<1> HIDE DEF HandedKept
<1> QED  BY <1>2, <1>3, <1>4, <1>5, <1>6, <1>7, <1>8, <1>9, <1>10, <1>11, <1>12, <1>13, <1>14, <1>15, <1>16, <1>17, <1>18, <1>19, <1>20, <1>21, <1>22, <1>23, <1>24, <1>25, <1>26, <1>27, <1>28, <1>29, <1>30, <1>31, <1>32, <1>33, <1>34, <1>35
     DEF Next, RegisterStep, WalkStep, RunStep

\* A task is closed when nothing more is published
LEMMA NextEnding ==
    ASSUME WalkInv, Next
    PROVE  Ending'
<1> USE Untyped DEF taskVars, flagVars, passVars, farVars, Go, Call, Walking, Ending, Finished, Place, WalkPcs
<1>1. TypeOK /\ Ending /\ PassPlaced /\ RunPlaced /\ OneWalk /\ Places /\ Run \notin Late /\ Actors = Late \cup {Run}
  BY ReceiversAssumption, SMTT(30) DEF WalkInv, Registrations, Actors
<1> USE DEF TypeOK, RunPlaced, Places, OneWalk, PassPlaced
<1>2. ASSUME NEW r \in Late, Attach(r)  PROVE Ending'
  BY <1>1, <1>2 DEF Attach
<1>3. ASSUME NEW r \in Late, Push(r)  PROVE Ending'
  BY <1>1, <1>3 DEF Push
<1>4. ASSUME NEW r \in Late, OverState(r)  PROVE Ending'
  BY <1>1, <1>4 DEF OverState
<1>5. ASSUME NEW r \in Late, OverKind(r)  PROVE Ending'
  BY <1>1, <1>5 DEF OverKind
<1>6. ASSUME NEW r \in Late, MarkClosed(r)  PROVE Ending'
  BY <1>1, <1>6 DEF MarkClosed
<1>7. ASSUME NEW a \in Actors, Ask(a)  PROVE Ending'
  BY <1>1, <1>7 DEF Ask
<1>8. ASSUME NEW a \in Actors, LookHead(a)  PROVE Ending'
  BY <1>1, <1>8 DEF LookHead
<1>9. ASSUME NEW a \in Actors, LookLock(a)  PROVE Ending'
  BY <1>1, <1>9 DEF LookLock
<1>10. ASSUME NEW a \in Actors, Lock(a)  PROVE Ending'
  BY <1>1, <1>10 DEF Lock
<1>11. ASSUME NEW a \in Actors, Request(a)  PROVE Ending'
  BY <1>1, <1>11 DEF Request
<1>12. ASSUME NEW a \in Actors, Unlock(a)  PROVE Ending'
  BY <1>1, <1>12 DEF Unlock
<1>13. ASSUME NEW a \in Actors, Again(a)  PROVE Ending'
  BY <1>1, <1>13 DEF Again
<1>14. ASSUME NEW a \in Actors, LookClosed(a)  PROVE Ending'
  BY <1>1, <1>14 DEF LookClosed
<1>15. ASSUME NEW a \in Actors, SwapHead(a)  PROVE Ending'
  BY <1>1, <1>15 DEF SwapHead
<1>16. ASSUME NEW a \in Actors, Enter(a)  PROVE Ending'
  BY <1>1, <1>16 DEF Enter
<1>17. ASSUME NEW a \in Actors, Check(a)  PROVE Ending'
  BY <1>1, <1>17 DEF Check
<1>18. ASSUME NEW a \in Actors, LookGeneration(a)  PROVE Ending'
  BY <1>1, <1>18 DEF LookGeneration
<1>19. ASSUME NEW a \in Actors, NEW r \in Registrations, Visit(a, r)  PROVE Ending'
  BY <1>1, <1>19 DEF Visit, Unseen, Deliver
<1>20. ASSUME NEW a \in Actors, NEW r \in Registrations, VisitPanics(a, r)  PROVE Ending'
  BY <1>1, <1>20 DEF VisitPanics, Unseen
<1>21. ASSUME NEW a \in Actors, Leave(a)  PROVE Ending'
  BY <1>1, <1>21 DEF Leave
<1>22. ASSUME NEW a \in Actors, PutBack(a)  PROVE Ending'
  BY <1>1, <1>22 DEF PutBack
<1>23. CASE Begin
  BY <1>1, <1>23 DEF Begin
<1>24. CASE Recycle
  BY <1>1, <1>24 DEF Recycle
<1>25. CASE Write
  BY <1>1, <1>25 DEF Write
<1>26. CASE Panic
  BY <1>1, <1>26 DEF Panic
<1>27. CASE SettleFailed
  BY <1>1, <1>27 DEF SettleFailed
<1>28. CASE NoteOutput
  BY <1>1, <1>28 DEF NoteOutput
<1>29. CASE Publish
  BY <1>1, <1>29 DEF Publish
<1>30. CASE ForwardOutput
  BY <1>1, <1>30 DEF ForwardOutput
<1>31. CASE After
  BY <1>1, <1>31 DEF After
<1>32. CASE Close
  BY <1>1, <1>32 DEF Close
<1>33. CASE Cancel
  BY <1>1, <1>33 DEF Cancel
<1>34. CASE Take
  BY <1>1, <1>34 DEF Take
<1>35. ASSUME NEW r \in Registrations, FarFinishes(r)  PROVE Ending'
  BY <1>1, <1>35 DEF FarFinishes
<1> HIDE DEF Ending
<1> QED  BY <1>2, <1>3, <1>4, <1>5, <1>6, <1>7, <1>8, <1>9, <1>10, <1>11, <1>12, <1>13, <1>14, <1>15, <1>16, <1>17, <1>18, <1>19, <1>20, <1>21, <1>22, <1>23, <1>24, <1>25, <1>26, <1>27, <1>28, <1>29, <1>30, <1>31, <1>32, <1>33, <1>34, <1>35
     DEF Next, RegisterStep, WalkStep, RunStep

\* The request to let the registrations go is not lost
LEMMA NextReleaseAsked ==
    ASSUME WalkInv, Next
    PROVE  ReleaseAsked'
<1> USE Untyped DEF taskVars, flagVars, passVars, farVars, Go, Call, Walking, ReleaseAsked, Asked
<1>1. TypeOK /\ ReleaseAsked /\ PassPlaced /\ OneWalk /\ Places /\ Run \in Actors /\ Late \subseteq Actors
  BY ReceiversAssumption, SMTT(30) DEF WalkInv, Actors
<1> USE DEF TypeOK, OneWalk, PassPlaced
<1>2. ASSUME NEW r \in Late, Attach(r)  PROVE ReleaseAsked'
  BY <1>1, <1>2 DEF Attach
<1>3. ASSUME NEW r \in Late, Push(r)  PROVE ReleaseAsked'
  BY <1>1, <1>3 DEF Push
<1>4. ASSUME NEW r \in Late, OverState(r)  PROVE ReleaseAsked'
  BY <1>1, <1>4 DEF OverState
<1>5. ASSUME NEW r \in Late, OverKind(r)  PROVE ReleaseAsked'
  BY <1>1, <1>5 DEF OverKind
<1>6. ASSUME NEW r \in Late, MarkClosed(r)  PROVE ReleaseAsked'
  BY <1>1, <1>6 DEF MarkClosed
<1>7. ASSUME NEW a \in Actors, Ask(a)  PROVE ReleaseAsked'
  BY <1>1, <1>7 DEF Ask
<1>8. ASSUME NEW a \in Actors, LookHead(a)  PROVE ReleaseAsked'
  BY <1>1, <1>8 DEF LookHead
<1>9. ASSUME NEW a \in Actors, LookLock(a)  PROVE ReleaseAsked'
  BY <1>1, <1>9 DEF LookLock
<1>10. ASSUME NEW a \in Actors, Lock(a)  PROVE ReleaseAsked'
  BY <1>1, <1>10 DEF Lock
<1>11. ASSUME NEW a \in Actors, Request(a)  PROVE ReleaseAsked'
  BY <1>1, <1>11 DEF Request
<1>12. ASSUME NEW a \in Actors, Unlock(a)  PROVE ReleaseAsked'
  BY <1>1, <1>12 DEF Unlock
<1>13. ASSUME NEW a \in Actors, Again(a)  PROVE ReleaseAsked'
  BY <1>1, <1>13 DEF Again
<1>14. ASSUME NEW a \in Actors, LookClosed(a)  PROVE ReleaseAsked'
  BY <1>1, <1>14 DEF LookClosed
<1>15. ASSUME NEW a \in Actors, SwapHead(a)  PROVE ReleaseAsked'
  BY <1>1, <1>15 DEF SwapHead
<1>16. ASSUME NEW a \in Actors, Enter(a)  PROVE ReleaseAsked'
  BY <1>1, <1>16 DEF Enter
<1>17. ASSUME NEW a \in Actors, Check(a)  PROVE ReleaseAsked'
  BY <1>1, <1>17 DEF Check
<1>18. ASSUME NEW a \in Actors, LookGeneration(a)  PROVE ReleaseAsked'
  BY <1>1, <1>18 DEF LookGeneration
<1>19. ASSUME NEW a \in Actors, NEW r \in Registrations, Visit(a, r)  PROVE ReleaseAsked'
  BY <1>1, <1>19 DEF Visit, Unseen, Deliver
<1>20. ASSUME NEW a \in Actors, NEW r \in Registrations, VisitPanics(a, r)  PROVE ReleaseAsked'
  BY <1>1, <1>20 DEF VisitPanics, Unseen
<1>21. ASSUME NEW a \in Actors, Leave(a)  PROVE ReleaseAsked'
  BY <1>1, <1>21 DEF Leave
<1>22. ASSUME NEW a \in Actors, PutBack(a)  PROVE ReleaseAsked'
  BY <1>1, <1>22 DEF PutBack
<1>23. CASE Begin
  BY <1>1, <1>23 DEF Begin
<1>24. CASE Recycle
  BY <1>1, <1>24 DEF Recycle
<1>25. CASE Write
  BY <1>1, <1>25 DEF Write
<1>26. CASE Panic
  <2>1. CASE attached
    <3>1. pc'[Run] = "walk"
      BY <1>1, <1>26, <2>1 DEF Panic
    <3> QED  BY <1>1, <3>1
  <2>2. CASE ~attached
    <3>1. head = {} /\ nodes = {} /\ kept = {}
      BY <1>1, <2>2 DEF Places, WalkPcs, Actors
    <3>2. head' = {} /\ nodes' = {} /\ kept' = {}
      BY <3>1, <1>26, <2>2 DEF Panic
    <3> QED  BY <3>2
  <2> QED  BY <2>1, <2>2
<1>27. CASE SettleFailed
  BY <1>1, <1>27 DEF SettleFailed
<1>28. CASE NoteOutput
  BY <1>1, <1>28 DEF NoteOutput
<1>29. CASE Publish
  BY <1>1, <1>29 DEF Publish
<1>30. CASE ForwardOutput
  BY <1>1, <1>30 DEF ForwardOutput
<1>31. CASE After
  BY <1>1, <1>31 DEF After
<1>32. CASE Close
  <2>1. CASE attached
    <3>1. pc'[Run] = "walk"
      BY <1>1, <1>32, <2>1 DEF Close
    <3> QED  BY <1>1, <3>1
  <2>2. CASE ~attached
    <3>1. head = {} /\ nodes = {} /\ kept = {}
      BY <1>1, <2>2 DEF Places, WalkPcs, Actors
    <3>2. head' = {} /\ nodes' = {} /\ kept' = {}
      BY <3>1, <1>32, <2>2 DEF Close
    <3> QED  BY <3>2
  <2> QED  BY <2>1, <2>2
<1>33. CASE Cancel
  BY <1>1, <1>33 DEF Cancel
<1>34. CASE Take
  BY <1>1, <1>34 DEF Take
<1>35. ASSUME NEW r \in Registrations, FarFinishes(r)  PROVE ReleaseAsked'
  BY <1>1, <1>35 DEF FarFinishes
<1> HIDE DEF ReleaseAsked
<1> QED  BY <1>2, <1>3, <1>4, <1>5, <1>6, <1>7, <1>8, <1>9, <1>10, <1>11, <1>12, <1>13, <1>14, <1>15, <1>16, <1>17, <1>18, <1>19, <1>20, <1>21, <1>22, <1>23, <1>24, <1>25, <1>26, <1>27, <1>28, <1>29, <1>30, <1>31, <1>32, <1>33, <1>34, <1>35
     DEF Next, RegisterStep, WalkStep, RunStep

\* A registration on a task that is over closes it
LEMMA NextLateCloses ==
    ASSUME WalkInv, Next
    PROVE  LateCloses'
<1> USE Untyped DEF taskVars, flagVars, passVars, farVars, Go, Call, Walking, LateCloses, WalkPcs, Place
<1>1. TypeOK /\ LateCloses /\ PassPlaced /\ RunPlaced /\ Places /\ OneWalk /\ Run \notin Late /\ Actors = Late \cup {Run}
  BY ReceiversAssumption DEF WalkInv, Registrations, Actors
<1> USE DEF TypeOK, OneWalk, PassPlaced, Places, RunPlaced
<1>2. ASSUME NEW r \in Late, Attach(r)  PROVE LateCloses'
  BY <1>1, <1>2 DEF Attach
<1>3. ASSUME NEW r \in Late, Push(r)  PROVE LateCloses'
  BY <1>1, <1>3 DEF Push
<1>4. ASSUME NEW r \in Late, OverState(r)  PROVE LateCloses'
  <2>1. CASE state \in {"Ready", "Taken"}
    <3>1. pc' = [pc EXCEPT ![r] = "kind"] /\ pc[r] = "over" /\ then' = then
          /\ UNCHANGED <<state, CLOSED, head>>
      BY <1>4, <2>1 DEF OverState
    <3> QED  BY <1>1, <3>1
  <2> QED  BY <1>4, <2>1 DEF OverState
<1>5. ASSUME NEW r \in Late, OverKind(r)  PROVE LateCloses'
  <2>1. UNCHANGED <<state, CLOSED, head, Place>> /\ pc'[Run] = pc[Run] /\ pc[r] = "kind"
    BY <1>1, <1>5 DEF OverKind
  <2>2. CASE ~repeats
    <3>1. pc' = [pc EXCEPT ![r] = "mark"]
      BY <1>5, <2>2 DEF OverKind
    <3> QED  BY <1>1, <2>1, <3>1
  <2>3. CASE repeats
    <3>1. ~(Place' = "done" /\ state' \in {"Ready", "Taken"})
      BY <1>1, <2>1, <2>3
    <3> QED  BY <3>1
  <2> QED  BY <2>2, <2>3
<1>6. ASSUME NEW r \in Late, MarkClosed(r)  PROVE LateCloses'
  BY <1>1, <1>6 DEF MarkClosed
<1>7. ASSUME NEW a \in Actors, Ask(a)  PROVE LateCloses'
  BY <1>1, <1>7 DEF Ask
<1>8. ASSUME NEW a \in Actors, LookHead(a)  PROVE LateCloses'
  BY <1>1, <1>8 DEF LookHead
<1>9. ASSUME NEW a \in Actors, LookLock(a)  PROVE LateCloses'
  BY <1>1, <1>9 DEF LookLock
<1>10. ASSUME NEW a \in Actors, Lock(a)  PROVE LateCloses'
  BY <1>1, <1>10 DEF Lock
<1>11. ASSUME NEW a \in Actors, Request(a)  PROVE LateCloses'
  BY <1>1, <1>11 DEF Request
<1>12. ASSUME NEW a \in Actors, Unlock(a)  PROVE LateCloses'
  BY <1>1, <1>12 DEF Unlock
<1>13. ASSUME NEW a \in Actors, Again(a)  PROVE LateCloses'
  BY <1>1, <1>13 DEF Again
<1>14. ASSUME NEW a \in Actors, LookClosed(a)  PROVE LateCloses'
  BY <1>1, <1>14 DEF LookClosed
<1>15. ASSUME NEW a \in Actors, SwapHead(a)  PROVE LateCloses'
  BY <1>1, <1>15 DEF SwapHead
<1>16. ASSUME NEW a \in Actors, Enter(a)  PROVE LateCloses'
  BY <1>1, <1>16 DEF Enter
<1>17. ASSUME NEW a \in Actors, Check(a)  PROVE LateCloses'
  BY <1>1, <1>17 DEF Check
<1>18. ASSUME NEW a \in Actors, LookGeneration(a)  PROVE LateCloses'
  BY <1>1, <1>18 DEF LookGeneration
<1>19. ASSUME NEW a \in Actors, NEW r \in Registrations, Visit(a, r)  PROVE LateCloses'
  BY <1>1, <1>19 DEF Visit, Unseen, Deliver
<1>20. ASSUME NEW a \in Actors, NEW r \in Registrations, VisitPanics(a, r)  PROVE LateCloses'
  BY <1>1, <1>20 DEF VisitPanics, Unseen
<1>21. ASSUME NEW a \in Actors, Leave(a)  PROVE LateCloses'
  BY <1>1, <1>21 DEF Leave
<1>22. ASSUME NEW a \in Actors, PutBack(a)  PROVE LateCloses'
  <2>1. ~(Place = "done" /\ state \in {"Ready", "Taken"} /\ ~CLOSED)
    BY <1>1, <1>22, ZenonT(30) DEF PutBack
  <2>2. Place' = Place /\ UNCHANGED <<state, CLOSED>>
    BY <1>1, <1>22 DEF PutBack
  <2> QED  BY <2>1, <2>2
<1>23. CASE Begin
  BY <1>1, <1>23 DEF Begin
<1>24. CASE Recycle
  BY <1>1, <1>24 DEF Recycle
<1>25. CASE Write
  BY <1>1, <1>25 DEF Write
<1>26. CASE Panic
  BY <1>1, <1>26 DEF Panic
<1>27. CASE SettleFailed
  BY <1>1, <1>27 DEF SettleFailed
<1>28. CASE NoteOutput
  BY <1>1, <1>28 DEF NoteOutput
<1>29. CASE Publish
  BY <1>1, <1>29 DEF Publish
<1>30. CASE ForwardOutput
  BY <1>1, <1>30 DEF ForwardOutput
<1>31. CASE After
  BY <1>1, <1>31 DEF After
<1>32. CASE Close
  BY <1>1, <1>32 DEF Close
<1>33. CASE Cancel
  BY <1>1, <1>33 DEF Cancel
<1>34. CASE Take
  BY <1>1, <1>34 DEF Take
<1>35. ASSUME NEW r \in Registrations, FarFinishes(r)  PROVE LateCloses'
  BY <1>1, <1>35 DEF FarFinishes
<1> HIDE DEF LateCloses
<1> QED  BY <1>2, <1>3, <1>4, <1>5, <1>6, <1>7, <1>8, <1>9, <1>10, <1>11, <1>12, <1>13, <1>14, <1>15, <1>16, <1>17, <1>18, <1>19, <1>20, <1>21, <1>22, <1>23, <1>24, <1>25, <1>26, <1>27, <1>28, <1>29, <1>30, <1>31, <1>32, <1>33, <1>34, <1>35
     DEF Next, RegisterStep, WalkStep, RunStep

\* The request to hand on an output is not lost
LEMMA NextOutputAsked ==
    ASSUME WalkInv, Next
    PROVE  OutputAsked'
<1> USE Untyped DEF taskVars, flagVars, passVars, farVars, Go, Call, Walking, OutputAsked, Owed, Reaching, Asked, Made, Linked, WalkPcs
<1>1. /\ TypeOK /\ OutputAsked /\ PassPlaced /\ RunPlaced /\ Places /\ OneWalk /\ HandedKept /\ ReadCounted /\ Ending /\ MadePlaced
      /\ Run \notin Late /\ Actors = Late \cup {Run} /\ Early \cap Late = {} /\ Registrations = Early \cup Late /\ Outputs \in Nat
  BY ReceiversAssumption, SMTT(30) DEF WalkInv, Registrations, Actors
<1> USE DEF TypeOK
<1>2. ASSUME NEW r \in Late, Attach(r)  PROVE OutputAsked'
  BY <1>1, <1>2, ZenonT(30) DEF Attach
<1>3. ASSUME NEW r \in Late, Push(r)  PROVE OutputAsked'
  BY <1>1, <1>3 DEF Push
<1>4. ASSUME NEW r \in Late, OverState(r)  PROVE OutputAsked'
  <2>1. UNCHANGED <<far, head, nodes, kept, state, got, output>> /\ pc[r] = "over"
        /\ \E p \in {"mark", "walk", "kind"} : pc' = [pc EXCEPT ![r] = p]
    BY <1>4 DEF OverState
  <2>2. Made' = Made
    BY <1>1, <2>1
  <2>3. Asked'
    BY <1>1, <2>1
  <2> HIDE DEF Made, Asked
  <2> QED  BY <1>1, <2>1, <2>2, <2>3
<1>5. ASSUME NEW r \in Late, OverKind(r)  PROVE OutputAsked'
  <2>1. UNCHANGED <<far, head, nodes, kept, state, got, output>> /\ pc[r] = "kind"
        /\ \E p \in {"mark", "walk", "kind"} : pc' = [pc EXCEPT ![r] = p]
    BY <1>5 DEF OverKind
  <2>2. Made' = Made
    BY <1>1, <2>1
  <2>3. Asked'
    BY <1>1, <2>1
  <2> HIDE DEF Made, Asked
  <2> QED  BY <1>1, <2>1, <2>2, <2>3
<1>6. ASSUME NEW r \in Late, MarkClosed(r)  PROVE OutputAsked'
  BY <1>1, <1>6 DEF MarkClosed
<1>7. ASSUME NEW a \in Actors, Ask(a)  PROVE OutputAsked'
  BY <1>1, <1>7 DEF Ask
<1>8. ASSUME NEW a \in Actors, LookHead(a)  PROVE OutputAsked'
  <2>1. nodes \cup kept # {} => \E b \in Actors : pc[b] \in Walking
    BY <1>1 DEF PassPlaced
  <2>2. UNCHANGED <<far, head, nodes, kept, state, got, output, readable, REWALK>> /\ pc[a] = "look"
        /\ pc' = [pc EXCEPT ![a] = IF head = {} THEN "look_lock" ELSE "lock"]
    BY <1>8 DEF LookHead
  <2>3. Made' = Made
    BY <1>1, <2>2
  <2>4. ASSUME NEW q \in Registrations, Owed(q)  PROVE Reaching(q)'
    <3>1. Reaching(q)
      BY <1>1, <2>4, ZenonT(30)
    <3>2. CASE head = {}
      BY <1>1, <2>1, <2>2, <3>1, <3>2
    <3>3. CASE head # {}
      BY <1>1, <2>2, <3>1, <3>3
    <3> QED  BY <3>2, <3>3
  <2> HIDE DEF Made, Reaching
  <2> QED  BY <2>2, <2>3, <2>4
<1>9. ASSUME NEW a \in Actors, LookLock(a)  PROVE OutputAsked'
  BY <1>1, <1>9, ZenonT(30) DEF LookLock
<1>10. ASSUME NEW a \in Actors, Lock(a)  PROVE OutputAsked'
  <2>1. LOCKED => \E b \in Actors : pc[b] \in Walking
    BY <1>1 DEF OneWalk
  <2> QED  BY <1>1, <1>10, <2>1, ZenonT(30) DEF Lock
<1>11. ASSUME NEW a \in Actors, Request(a)  PROVE OutputAsked'
  <2>1. nodes = {} /\ kept = {} /\ \A b \in Actors : pc[b] \in Walking => b = a
    BY <1>1, <1>11 DEF Request, OneWalk, PassPlaced
  <2> QED  BY <1>1, <1>11, <2>1, ZenonT(30) DEF Request
<1>12. ASSUME NEW a \in Actors, Unlock(a)  PROVE OutputAsked'
  BY <1>1, <1>12, ZenonT(30) DEF Unlock
<1>13. ASSUME NEW a \in Actors, Again(a)  PROVE OutputAsked'
  BY <1>1, <1>13, ZenonT(30) DEF Again
<1>14. ASSUME NEW a \in Actors, LookClosed(a)  PROVE OutputAsked'
  BY <1>1, <1>14, ZenonT(30) DEF LookClosed
<1>15. ASSUME NEW a \in Actors, SwapHead(a)  PROVE OutputAsked'
  <2>1. nodes = {} /\ kept = {} /\ \A b \in Actors : pc[b] \in Walking => b = a
    BY <1>1, <1>15 DEF SwapHead, OneWalk, PassPlaced
  <2> QED  BY <1>1, <1>15, <2>1 DEF SwapHead
<1>16. ASSUME NEW a \in Actors, Enter(a)  PROVE OutputAsked'
  BY <1>1, <1>16 DEF Enter
<1>17. ASSUME NEW a \in Actors, Check(a)  PROVE OutputAsked'
  BY <1>1, <1>17, ZenonT(30) DEF Check
<1>18. ASSUME NEW a \in Actors, LookGeneration(a)  PROVE OutputAsked'
  BY <1>1, <1>18, ZenonT(30) DEF LookGeneration
<1>19. ASSUME NEW a \in Actors, NEW r \in Registrations, Visit(a, r)  PROVE OutputAsked'
  <2> SUFFICES ASSUME NEW q \in Registrations, Owed(q)'  PROVE Reaching(q)'
    BY DEF OutputAsked
  <2>1. /\ UNCHANGED <<Asked, Made, state, far, output, readable, pc, head, closed>> /\ nodes' = nodes \ {r} /\ r \in nodes /\ pc[a] = "visit"
        /\ kept' = IF ~closed /\ far[r] = "open" THEN kept \cup {r} ELSE kept
    BY <1>19 DEF Visit
  <2>2. \A b \in Actors : pc[b] \notin {"closed", "swap", "enter", "check"}
    BY <1>1, <2>1 DEF OneWalk
  <2>3. output \in 1 .. Outputs /\ Outputs \in Nat
    BY <1>1, <2>1 DEF RunPlaced
  <2>4. CASE q = r
    <3>1. ~(readable /\ Unseen(r)) /\ got' = got
      <4>1. SUFFICES ASSUME readable, Unseen(r), Deliver(r)  PROVE FALSE
        BY <1>19 DEF Visit
      <4>2. got'[r][output] = got[r][output] + 1 /\ got[r][output] \in Nat
        BY <1>1, <2>3, <4>1 DEF Deliver
      <4> QED  BY <2>1, <2>4, <4>2
    <3>2. Owed(r)
      BY <2>1, <2>4, <3>1
    <3>3. ~readable
      <4>1. SUFFICES ASSUME readable  PROVE FALSE
        OBVIOUS
      <4>2. gen = generation /\ handed[r] # NONE_HANDED /\ handed[r] >= gen
        BY <1>1, <2>1, <3>1, <4>1 DEF ReadCounted, Unseen, NONE_HANDED
      <4>3. handed[r] = generation /\ Place # "note"
        BY <1>1, <2>1, <3>2, <4>2 DEF HandedKept, RunPlaced
      <4> QED  BY <1>1, <3>2, <4>3 DEF HandedKept
    <3>4. ~closed
      BY <1>1, <2>1, <3>2, <3>3 DEF Ending
    <3>5. pc[Run] = "forward" \/ Asked
      BY <1>1, <2>1, <2>2, <3>2, <3>3
    <3> HIDE DEF Asked
    <3> QED  BY <2>1, <2>4, <3>2, <3>4, <3>5
  <2>5. CASE q # r
    <3>1. got'[q] = got[q]
      BY <1>1, <1>19, <2>5 DEF Visit, Deliver
    <3>2. Reaching(q)
      BY <1>1, <2>1, <3>1
    <3> HIDE DEF Asked
    <3> QED  BY <2>1, <2>5, <3>2
  <2> QED  BY <2>4, <2>5
<1>20. ASSUME NEW a \in Actors, NEW r \in Registrations, VisitPanics(a, r)  PROVE OutputAsked'
  BY <1>1, <1>20, ZenonT(30) DEF VisitPanics, Unseen
<1>21. ASSUME NEW a \in Actors, Leave(a)  PROVE OutputAsked'
  BY <1>1, <1>21, ZenonT(30) DEF Leave
<1>22. ASSUME NEW a \in Actors, PutBack(a)  PROVE OutputAsked'
  BY <1>1, <1>22, ZenonT(30) DEF PutBack
<1>23. CASE Begin
  BY <1>1, <1>23 DEF Begin
<1>24. CASE Recycle
  BY <1>1, <1>24, ZenonT(30) DEF Recycle
<1>25. CASE Write
  <2>1. state' # "Ready"
    BY <1>1, <1>25 DEF Write, RunPlaced, Place
  <2> QED  BY <2>1
<1>26. CASE Panic
  <2>1. state' # "Ready"
    BY <1>1, <1>26 DEF Panic, RunPlaced, Place
  <2> QED  BY <2>1
<1>27. CASE SettleFailed
  BY <1>1, <1>27, ZenonT(30) DEF SettleFailed
<1>28. CASE NoteOutput
  BY <1>1, <1>28, ZenonT(30) DEF NoteOutput
<1>29. CASE Publish
  <2>1. CASE state = "Running"
    <3>1. ~Finished
      BY <1>29, <2>1 DEF Publish, Finished, Place
    <3>2. \A q \in Made : far[q] = "open" => q \in head \cup nodes \cup kept
      BY <1>1, <3>1 DEF MadePlaced
    <3>3. pc' = [pc EXCEPT ![Run] = "forward"] /\ UNCHANGED <<far, head, nodes, kept>>
      BY <1>29, <2>1 DEF Publish
    <3>4. Made' = Made /\ pc'[Run] = "forward"
      BY <1>1, <3>3
    <3> QED  BY <3>2, <3>3, <3>4
  <2>2. CASE state # "Running"
    <3>1. state' # "Ready"
      BY <1>1, <1>29, <2>2 DEF Publish, RunPlaced, Place
    <3> QED  BY <3>1
  <2> QED  BY <2>1, <2>2
<1>30. CASE ForwardOutput
  <2>1. CASE attached
    <3>1. pc' = [pc EXCEPT ![Run] = "walk"] /\ UNCHANGED <<far, head, nodes, kept, state, got, output>>
      BY <1>30, <2>1 DEF ForwardOutput
    <3>2. Made' = Made /\ pc'[Run] = "walk"
      BY <1>1, <3>1
    <3> QED  BY <1>1, <3>1, <3>2
  <2>2. CASE ~attached
    <3>1. head = {} /\ nodes = {} /\ kept = {}
      BY <1>1, <2>2 DEF Places, PassPlaced
    <3>2. \A q \in Registrations : ~Owed(q)
      BY <1>1, <3>1
    <3>3. UNCHANGED <<Made, far, state, got, output>>
      BY <1>1, <1>30 DEF ForwardOutput
    <3> HIDE DEF Made
    <3> QED  BY <3>2, <3>3
  <2> QED  BY <2>1, <2>2
<1>31. CASE After
  BY <1>1, <1>31, ZenonT(30) DEF After
<1>32. CASE Close
  <2>1. CASE attached
    <3>1. pc' = [pc EXCEPT ![Run] = "walk"] /\ UNCHANGED <<far, head, nodes, kept, state, got, output>>
      BY <1>32, <2>1 DEF Close
    <3>2. Made' = Made /\ pc'[Run] = "walk"
      BY <1>1, <3>1
    <3> QED  BY <1>1, <3>1, <3>2
  <2>2. CASE ~attached
    <3>1. head = {} /\ nodes = {} /\ kept = {}
      BY <1>1, <2>2 DEF Places, PassPlaced
    <3>2. \A q \in Registrations : ~Owed(q)
      BY <1>1, <3>1
    <3>3. UNCHANGED <<Made, far, state, got, output>>
      BY <1>1, <1>32 DEF Close
    <3> HIDE DEF Made
    <3> QED  BY <3>2, <3>3
  <2> QED  BY <2>1, <2>2
<1>33. CASE Cancel
  BY <1>1, <1>33 DEF Cancel
<1>34. CASE Take
  BY <1>1, <1>34 DEF Take
<1>35. ASSUME NEW r \in Registrations, FarFinishes(r)  PROVE OutputAsked'
  BY <1>1, <1>35, ZenonT(30) DEF FarFinishes
<1> HIDE DEF OutputAsked
<1> QED  BY <1>2, <1>3, <1>4, <1>5, <1>6, <1>7, <1>8, <1>9, <1>10, <1>11, <1>12, <1>13, <1>14, <1>15, <1>16, <1>17, <1>18, <1>19, <1>20, <1>21, <1>22, <1>23, <1>24, <1>25, <1>26, <1>27, <1>28, <1>29, <1>30, <1>31, <1>32, <1>33, <1>34, <1>35
     DEF Next, RegisterStep, WalkStep, RunStep

\* No registration is dropped while something may still be published
LEMMA NextMadePlaced ==
    ASSUME WalkInv, Next
    PROVE  MadePlaced'
<1> USE Untyped DEF taskVars, flagVars, passVars, farVars, Go, Call, Walking, MadePlaced, Made, Linked, Finished, Place, WalkPcs
<1>1. TypeOK /\ MadePlaced /\ PassPlaced /\ RunPlaced /\ Ending /\ Places /\ OneWalk /\ Run \notin Late /\ Actors = Late \cup {Run}
      /\ Early \cap Late = {} /\ Registrations = Early \cup Late
  BY ReceiversAssumption DEF WalkInv, Registrations, Actors
<1> USE DEF TypeOK, Places
<1>2. ASSUME NEW r \in Late, Attach(r)  PROVE MadePlaced'
  BY <1>1, <1>2 DEF Attach
<1>3. ASSUME NEW r \in Late, Push(r)  PROVE MadePlaced'
  BY <1>1, <1>3 DEF Push
<1>4. ASSUME NEW r \in Late, OverState(r)  PROVE MadePlaced'
  <2>1. /\ Finished => Finished'
        /\ UNCHANGED <<attached, Made, far, head, nodes, kept>>
    BY <1>1, <1>4 DEF OverState
  <2> HIDE DEF Made, Finished
  <2> QED  BY <1>1, <2>1
<1>5. ASSUME NEW r \in Late, OverKind(r)  PROVE MadePlaced'
  <2>1. /\ Finished => Finished'
        /\ UNCHANGED <<attached, Made, far, head, nodes, kept>>
    BY <1>1, <1>5 DEF OverKind
  <2> HIDE DEF Made, Finished
  <2> QED  BY <1>1, <2>1
<1>6. ASSUME NEW r \in Late, MarkClosed(r)  PROVE MadePlaced'
  BY <1>1, <1>6 DEF MarkClosed
<1>7. ASSUME NEW a \in Actors, Ask(a)  PROVE MadePlaced'
  BY <1>1, <1>7 DEF Ask
<1>8. ASSUME NEW a \in Actors, LookHead(a)  PROVE MadePlaced'
  BY <1>1, <1>8 DEF LookHead
<1>9. ASSUME NEW a \in Actors, LookLock(a)  PROVE MadePlaced'
  BY <1>1, <1>9 DEF LookLock
<1>10. ASSUME NEW a \in Actors, Lock(a)  PROVE MadePlaced'
  BY <1>1, <1>10 DEF Lock
<1>11. ASSUME NEW a \in Actors, Request(a)  PROVE MadePlaced'
  BY <1>1, <1>11 DEF Request
<1>12. ASSUME NEW a \in Actors, Unlock(a)  PROVE MadePlaced'
  BY <1>1, <1>12 DEF Unlock
<1>13. ASSUME NEW a \in Actors, Again(a)  PROVE MadePlaced'
  BY <1>1, <1>13 DEF Again
<1>14. ASSUME NEW a \in Actors, LookClosed(a)  PROVE MadePlaced'
  BY <1>1, <1>14 DEF LookClosed
<1>15. ASSUME NEW a \in Actors, SwapHead(a)  PROVE MadePlaced'
  <2>1. nodes = {}
    BY <1>1, <1>15 DEF SwapHead, OneWalk, PassPlaced
  <2> QED  BY <1>1, <1>15, <2>1 DEF SwapHead
<1>16. ASSUME NEW a \in Actors, Enter(a)  PROVE MadePlaced'
  BY <1>1, <1>16 DEF Enter
<1>17. ASSUME NEW a \in Actors, Check(a)  PROVE MadePlaced'
  BY <1>1, <1>17 DEF Check
<1>18. ASSUME NEW a \in Actors, LookGeneration(a)  PROVE MadePlaced'
  BY <1>1, <1>18 DEF LookGeneration
<1>19. ASSUME NEW a \in Actors, NEW r \in Registrations, Visit(a, r)  PROVE MadePlaced'
  <2>1. closed => attached /\ Finished
    BY <1>1, <1>19 DEF Visit, Ending, PassPlaced
  <2>2. UNCHANGED <<attached, Finished, Made, far, head>> /\ nodes' = nodes \ {r}
        /\ kept' = IF ~closed /\ far[r] = "open" THEN kept \cup {r} ELSE kept
    BY <1>19 DEF Visit
  <2> HIDE DEF Made, Finished
  <2> QED  BY <1>1, <2>1, <2>2
<1>20. ASSUME NEW a \in Actors, NEW r \in Registrations, VisitPanics(a, r)  PROVE MadePlaced'
  BY <1>1, <1>20 DEF VisitPanics, Unseen
<1>21. ASSUME NEW a \in Actors, Leave(a)  PROVE MadePlaced'
  BY <1>1, <1>21 DEF Leave
<1>22. ASSUME NEW a \in Actors, PutBack(a)  PROVE MadePlaced'
  BY <1>1, <1>22 DEF PutBack
<1>23. CASE Begin
  <2>1. /\ Finished => Finished'
        /\ UNCHANGED <<attached, Made, far, head, nodes, kept>>
    BY <1>1, <1>23 DEF Begin, RunPlaced
  <2> HIDE DEF Made, Finished
  <2> QED  BY <1>1, <2>1
<1>24. CASE Recycle
  BY <1>1, <1>24 DEF Recycle
<1>25. CASE Write
  BY <1>1, <1>25 DEF Write
<1>26. CASE Panic
  BY <1>1, <1>26 DEF Panic
<1>27. CASE SettleFailed
  <2>1. /\ Finished => Finished'
        /\ UNCHANGED <<attached, Made, far, head, nodes, kept>>
    BY <1>1, <1>27 DEF SettleFailed, RunPlaced
  <2> HIDE DEF Made, Finished
  <2> QED  BY <1>1, <2>1
<1>28. CASE NoteOutput
  BY <1>1, <1>28 DEF NoteOutput
<1>29. CASE Publish
  BY <1>1, <1>29 DEF Publish
<1>30. CASE ForwardOutput
  BY <1>1, <1>30 DEF ForwardOutput
<1>31. CASE After
  BY <1>1, <1>31 DEF After
<1>32. CASE Close
  BY <1>1, <1>32 DEF Close
<1>33. CASE Cancel
  BY <1>1, <1>33 DEF Cancel
<1>34. CASE Take
  BY <1>1, <1>34 DEF Take
<1>35. ASSUME NEW r \in Registrations, FarFinishes(r)  PROVE MadePlaced'
  BY <1>1, <1>35 DEF FarFinishes
<1> HIDE DEF MadePlaced
<1> QED  BY <1>2, <1>3, <1>4, <1>5, <1>6, <1>7, <1>8, <1>9, <1>10, <1>11, <1>12, <1>13, <1>14, <1>15, <1>16, <1>17, <1>18, <1>19, <1>20, <1>21, <1>22, <1>23, <1>24, <1>25, <1>26, <1>27, <1>28, <1>29, <1>30, <1>31, <1>32, <1>33, <1>34, <1>35
     DEF Next, RegisterStep, WalkStep, RunStep

LEMMA InitWalk ==
    ASSUME Init
    PROVE  WalkInv
<1> USE Untyped, ReceiversAssumption
<1>1. TypeOK
  <2>1. /\ handed \in [Registrations -> NONE_HANDED .. Outputs] /\ generation \in 0 .. output
        /\ gen \in 0 .. Outputs /\ output \in 0 .. Outputs /\ readers \in Nat
        /\ got \in [Registrations -> [1 .. Outputs -> Nat]]
    BY DEF Init, NONE_HANDED
  <2>2. {repeats, attached, LOCKED, REWALK, CLOSED, closed, readable} \subseteq BOOLEAN
    <3>1. /\ repeats = (Outputs > 1) /\ attached = (head # {})
          /\ LOCKED = FALSE /\ REWALK = FALSE /\ CLOSED = FALSE /\ closed = FALSE /\ readable = FALSE
      BY DEF Init
    <3>2. (Outputs > 1) \in BOOLEAN /\ (head # {}) \in BOOLEAN
      OBVIOUS
    <3> QED  BY <3>1, <3>2, ZenonT(30)
  <2> QED  BY <2>1, <2>2 DEF Init, TypeOK, Registrations
<1>2. /\ pc[Run] = "begin" /\ \A r \in Late : pc[r] = "none"
      /\ \A a \in Actors : pc[a] \in {"begin", "none"} /\ then[a] = "done"
      /\ Run \in Actors /\ Late \subseteq Actors
  BY DEF Init, Actors, Registrations
<1>3. /\ head \subseteq Early /\ (attached <=> head # {}) /\ nodes = {} /\ kept = {}
      /\ ~LOCKED /\ ~REWALK /\ ~CLOSED /\ ~closed /\ ~readable
      /\ state = "Pending" /\ readers = 0 /\ output = 0 /\ generation = 0 /\ gen = 0
      /\ \A r \in Early : far[r] = "none" <=> r \notin head
      /\ \A r \in Registrations : handed[r] = NONE_HANDED /\ \A o \in 1 .. Outputs : got[r][o] = 0
  BY ZenonT(30) DEF Init, Registrations
<1>4. Place = "begin" /\ Outputs \in Nat \ {0}
  BY <1>2 DEF Place, WalkPcs, Walking
<1>5. OneWalk /\ Places
  BY <1>2, <1>3 DEF OneWalk, Places, WalkPcs, RegisterPcs, RunPcs, Walking
<1>6. RunPlaced /\ ReadCounted
  BY <1>2, <1>3, <1>4 DEF RunPlaced, ReadCounted
<1>7. PassPlaced /\ Ending
  BY <1>2, <1>3, <1>4 DEF PassPlaced, Ending, Registrations
<1>8. HandedKept
  BY <1>3, <1>4 DEF HandedKept, NONE_HANDED
<1>9. ReleaseAsked /\ LateCloses /\ OutputAsked
  BY <1>3 DEF ReleaseAsked, LateCloses, OutputAsked, Owed
<1>10. MadePlaced
  BY <1>2, <1>3 DEF MadePlaced, Made, Linked
<1> QED  BY <1>1, <1>5, <1>6, <1>7, <1>8, <1>9, <1>10 DEF WalkInv

\* A step that changes nothing
LEMMA StillWalk ==
    ASSUME WalkInv, UNCHANGED vars
    PROVE  WalkInv'
<1> USE Untyped DEF vars, taskVars, flagVars, passVars, farVars
<1>1. TypeOK'
  BY DEF WalkInv, TypeOK
<1>2. OneWalk'
  BY DEF WalkInv, OneWalk
<1>3. Places'
  BY DEF WalkInv, Places
<1>4. RunPlaced'
  BY DEF WalkInv, RunPlaced, Place
<1>5. PassPlaced'
  BY DEF WalkInv, PassPlaced
<1>6. ReadCounted'
  BY DEF WalkInv, ReadCounted, Place
<1>7. HandedKept'
  BY DEF WalkInv, HandedKept, Place
<1>8. Ending'
  BY DEF WalkInv, Ending, Finished, Place
<1>9. ReleaseAsked'
  BY DEF WalkInv, ReleaseAsked, Asked
<1>10. LateCloses'
  BY DEF WalkInv, LateCloses, Place
<1>11. OutputAsked'
  BY DEF WalkInv, OutputAsked, Owed, Reaching, Asked, Made, Linked
<1>12. MadePlaced'
  BY DEF WalkInv, MadePlaced, Made, Linked, Finished, Place
<1> QED  BY <1>1, <1>2, <1>3, <1>4, <1>5, <1>6, <1>7, <1>8, <1>9, <1>10, <1>11, <1>12 DEF WalkInv

\* The inductive invariant gives what the registrations are promised
LEMMA WalkShows ==
    ASSUME WalkInv
    PROVE  ReceiversInv
<1> USE Untyped
<1>1. /\ TypeOK /\ OneWalk /\ Places /\ RunPlaced /\ ReadCounted /\ HandedKept
      /\ ReleaseAsked /\ LateCloses /\ OutputAsked
      /\ Run \in Actors /\ Late \subseteq Actors /\ Run \notin Late /\ Outputs \in Nat
  BY ReceiversAssumption DEF WalkInv, Actors, Registrations
<1>2. NoneTwice
  BY <1>1 DEF HandedKept, NoneTwice
<1>3. Quiet => /\ pc[Run] = "done" /\ Place = "done" /\ ~Asked
               /\ \A a \in Actors : pc[a] \notin Walking \cup {"forward", "over", "kind", "mark"}
  BY <1>1 DEF Quiet, Places, Place, RunPcs, WalkPcs, Walking, Asked
<1>4. AllLetGo
  <2>1. ASSUME Quiet, CLOSED  PROVE head = {}
    BY <1>1, <1>3, <2>1 DEF Walking, ReleaseAsked
  <2>2. ASSUME Quiet, ~CLOSED, state \in {"Ready", "Taken"}  PROVE head = {}
    BY <1>1, <1>3, <2>2 DEF LateCloses
  <2> QED  BY <2>1, <2>2 DEF AllLetGo
<1>5. LastReaches
  <2> SUFFICES ASSUME Quiet, state = "Ready", NEW r \in Made, far[r] = "open"
               PROVE  got[r][output] = 1
    BY DEF LastReaches
  <2>1. r \in Registrations /\ output \in 1 .. Outputs
    BY <1>1 DEF Made, Linked, Registrations, TypeOK, RunPlaced
  <2>2. ~readable /\ ~Reaching(r)
    BY <1>1, <1>3 DEF ReadCounted, Reaching, Walking
  <2>3. got[r][output] # 0
    BY <1>1, <2>1, <2>2 DEF OutputAsked, Owed
  <2> QED  BY <1>1, <2>1, <2>3 DEF HandedKept
<1> QED  BY <1>1, <1>2, <1>4, <1>5 DEF ReceiversInv

\* `Receivers::walk`, `pass` and `close`, for any number of registrations, outputs and
\* threads: one walk at a time has the registrations, no output reaches one twice, and
\* when all threads are done none is left on the stack of a task that closed or ran to
\* its end, and the last output, while it can be read, has reached every open far end
THEOREM WalksReach == Spec => []ReceiversInv
<1>1. Init => WalkInv
  BY InitWalk
<1>2. WalkInv /\ [Next]_vars => WalkInv'
  <2>1. ASSUME WalkInv, Next  PROVE WalkInv'
    BY <2>1, NextTyped, NextOneWalk, NextPlaces, NextRunPlaced, NextPassPlaced, NextReadCounted, NextHandedKept, NextEnding, NextReleaseAsked, NextLateCloses, NextOutputAsked, NextMadePlaced DEF WalkInv
  <2> QED  BY <2>1, StillWalk
<1>3. WalkInv => ReceiversInv
  BY WalkShows
<1> QED  BY <1>1, <1>2, <1>3, PTL DEF Spec
=============================================================================
