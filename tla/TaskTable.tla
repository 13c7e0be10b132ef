----------------------------- MODULE TaskTable -----------------------------
(***************************************************************************)
(* The ids of the task table: the lock-free free list, the high water mark *)
(* that grows when the list is empty, and the trim that takes the top of   *)
(* the table back.  One block is modelled, since a block is only mapped    *)
(* once and never moves; `compare_exchange_weak` failing for no reason is  *)
(* a retry that changes nothing.                                           *)
(***************************************************************************)
EXTENDS Integers, FiniteSets

CONSTANTS
    Threads,    \* threads that allocate, free and trim
    MaxIds,     \* ids the table may grow to (bound)
    Pops,       \* times the head's tag may be bumped (bound): it wraps at 2^16
    Threshold, Minimum,     \* TRIM_THRESHOLD and TRIM_MINIMUM
    PerPage,    \* slots in a page
    Refused     \* whether the kernel may refuse a block

Ids == 0 .. (MaxIds - 1)

ASSUME TableAssumption ==
    /\ IsFiniteSet(Threads) /\ MaxIds \in Nat \ {0} /\ Pops \in Nat
    /\ Threshold \in Nat /\ Minimum \in Nat /\ PerPage \in Nat \ {0}
    /\ Refused \in BOOLEAN

VARIABLES
    free,       \* the head of the free list: a tag, and an index one past an id
    link,       \* each slot's `next`, an index one past an id or 0
    next_id,    \* one past the highest id the table spans
    peak,       \* the highest it had been when a trim lowered it
    live,       \* ids handed out and not given back
    trimming,   \* a trim is under way
    pc, head, nxt, id, then,    \* each thread's place and what it read
    current, floor, keep, limit, cursor, taken, \* the trim's own values
    owned,      \* ids the program holds
    highest     \* the most the table has ever spanned

listVars == <<free, link>>
markVars == <<next_id, peak, highest>>
trimVars == <<trimming, current, floor, keep, limit, cursor, taken>>
vars == <<listVars, markVars, trimVars, live, owned, pc, head, nxt, id, then>>

NoHead == [tag |-> 0, index |-> 0]

Init ==
    /\ free = NoHead /\ link = [i \in Ids |-> 0]
    /\ next_id = 0 /\ peak = 0 /\ highest = 0 /\ live = 0 /\ owned = {}
    /\ trimming = FALSE /\ current = 0 /\ floor = 0 /\ keep = 0 /\ limit = 0
    /\ cursor = 0 /\ taken = {}
    /\ pc = [t \in Threads |-> "idle"] /\ then = [t \in Threads |-> "idle"]
    /\ head = [t \in Threads |-> NoHead] /\ nxt = [t \in Threads |-> 0]
    /\ id = [t \in Threads |-> 0]

Go(t, p) == pc' = [pc EXCEPT ![t] = p]
Forget(t) == head' = [head EXCEPT ![t] = NoHead] /\ nxt' = [nxt EXCEPT ![t] = 0]
Larger(a, b) == IF a > b THEN a ELSE b

-----------------------------------------------------------------------------
(* `alloc`.                                                                *)

AllocHead(t) ==
    /\ pc[t] \in {"idle", "alloc"}
    /\ \/ free.index = 0 /\ Go(t, "grow") /\ UNCHANGED head
       \/ free.index # 0 /\ Go(t, "next") /\ head' = [head EXCEPT ![t] = free]
    /\ UNCHANGED <<listVars, markVars, trimVars, live, owned, nxt, id, then>>

AllocNext(t) ==
    /\ pc[t] = "next"
    /\ nxt' = [nxt EXCEPT ![t] = link[head[t].index - 1]]
    /\ Go(t, "pop")
    /\ UNCHANGED <<listVars, markVars, trimVars, live, owned, head, id, then>>

\* Mutant: the tag is left as it was
AllocPopUntagged(t) ==
    /\ pc[t] = "pop"
    /\ \/ /\ free = head[t]
          /\ free' = [free EXCEPT !.index = nxt[t]]
          /\ id' = [id EXCEPT ![t] = head[t].index - 1]
          /\ Go(t, "count")
       \/ free # head[t] /\ Go(t, "alloc") /\ UNCHANGED <<free, id>>
    /\ Forget(t)
    /\ UNCHANGED <<link, markVars, trimVars, live, owned, then>>

\* Every pop bumps the tag
AllocPop(t) ==
    /\ pc[t] = "pop"
    /\ \/ /\ free = head[t] /\ free.tag < Pops
          /\ free' = [tag |-> free.tag + 1, index |-> nxt[t]]
          /\ id' = [id EXCEPT ![t] = head[t].index - 1]
          /\ Go(t, "count")
       \/ free # head[t] /\ Go(t, "alloc") /\ UNCHANGED <<free, id>>
    /\ Forget(t)
    /\ UNCHANGED <<link, markVars, trimVars, live, owned, then>>

AllocGrow(t) ==
    /\ pc[t] = "grow" /\ next_id < MaxIds
    /\ next_id' = next_id + 1 /\ highest' = Larger(highest, next_id + 1)
    /\ id' = [id EXCEPT ![t] = next_id]
    /\ Go(t, "count")
    /\ UNCHANGED <<listVars, peak, trimVars, live, owned, head, nxt, then>>

\* `block_for` is refused its block: the id it was for is not used
AllocRefused(t) ==
    /\ pc[t] = "grow" /\ Refused /\ next_id < MaxIds
    /\ next_id' = next_id + 1 /\ highest' = Larger(highest, next_id + 1)
    /\ Go(t, "idle")
    /\ UNCHANGED <<listVars, peak, trimVars, live, owned, head, nxt, id, then>>

AllocCount(t) ==
    /\ pc[t] = "count"
    /\ live' = live + 1 /\ owned' = owned \cup {id[t]}
    /\ Go(t, "idle") /\ id' = [id EXCEPT ![t] = 0]
    /\ UNCHANGED <<listVars, markVars, trimVars, head, nxt, then>>

-----------------------------------------------------------------------------
(* `free` and `push_free`.                                                 *)

Free(t, i) ==
    /\ pc[t] = "idle" /\ i \in owned
    /\ owned' = owned \ {i} /\ live' = live - 1
    /\ id' = [id EXCEPT ![t] = i] /\ then' = [then EXCEPT ![t] = "idle"]
    /\ Go(t, "push")
    /\ UNCHANGED <<listVars, markVars, trimVars, head, nxt>>

PushLoad(t) ==
    /\ pc[t] = "push"
    /\ head' = [head EXCEPT ![t] = free]
    /\ link' = [link EXCEPT ![id[t]] = free.index]
    /\ Go(t, "push_head")
    /\ UNCHANGED <<free, markVars, trimVars, live, owned, nxt, id, then>>

PushHead(t) ==
    /\ pc[t] = "push_head"
    /\ \/ /\ free = head[t] /\ free' = [free EXCEPT !.index = id[t] + 1]
          /\ Go(t, then[t])
          /\ id' = [id EXCEPT ![t] = 0] /\ then' = [then EXCEPT ![t] = "idle"]
       \/ free # head[t] /\ Go(t, "push") /\ UNCHANGED <<free, id, then>>
    /\ Forget(t)
    /\ UNCHANGED <<link, markVars, trimVars, live, owned>>

-----------------------------------------------------------------------------
(* `trim`.                                                                 *)

\* A second trim turns straight round
TrimEnter(t) ==
    /\ pc[t] = "idle" /\ ~trimming
    /\ trimming' = TRUE /\ Go(t, "current")
    /\ UNCHANGED <<listVars, markVars, live, owned, head, nxt, id, then,
                   current, floor, keep, limit, cursor, taken>>

TrimCurrent(t) ==
    /\ pc[t] = "current"
    /\ current' = next_id /\ Go(t, "floor")
    /\ UNCHANGED <<listVars, markVars, live, owned, head, nxt, id, then,
                   trimming, floor, keep, limit, cursor, taken>>

TrimFloor(t) ==
    /\ pc[t] = "floor"
    /\ floor' = Larger(live + Threshold, Larger((current \div 100) * 80, Minimum))
    /\ Go(t, IF floor' >= current THEN "leave" ELSE "drain")
    /\ UNCHANGED <<listVars, markVars, live, owned, head, nxt, id, then,
                   trimming, current, keep, limit, cursor, taken>>

\* `drain_free`: the whole list, with the tag bumped
DrainLoad(t) ==
    /\ pc[t] = "drain"
    /\ \/ free.index = 0 /\ Go(t, "leave") /\ UNCHANGED head
       \/ free.index # 0 /\ Go(t, "drain_head") /\ head' = [head EXCEPT ![t] = free]
    /\ UNCHANGED <<listVars, markVars, trimVars, live, owned, nxt, id, then>>

DrainHead(t) ==
    /\ pc[t] = "drain_head"
    /\ \/ /\ free = head[t] /\ free.tag < Pops
          /\ free' = [tag |-> free.tag + 1, index |-> 0]
          /\ cursor' = free.index /\ Go(t, "walk")
       \/ free # head[t] /\ Go(t, "drain") /\ UNCHANGED <<free, cursor>>
    /\ Forget(t)
    /\ UNCHANGED <<link, markVars, live, owned, id, then,
                   trimming, current, floor, keep, limit, taken>>

\* Each id's link is read before it is put back below the floor
DrainWalk(t) ==
    /\ pc[t] = "walk" /\ cursor # 0
    /\ cursor' = link[cursor - 1]
    /\ \/ /\ cursor - 1 < floor
          /\ id' = [id EXCEPT ![t] = cursor - 1] /\ then' = [then EXCEPT ![t] = "walk"]
          /\ Go(t, "push") /\ UNCHANGED taken
       \/ cursor - 1 >= floor /\ taken' = taken \cup {cursor - 1} /\ UNCHANGED <<pc, id, then>>
    /\ UNCHANGED <<listVars, markVars, live, owned, head, nxt,
                   trimming, current, floor, keep, limit>>

DrainDone(t) ==
    /\ pc[t] = "walk" /\ cursor = 0
    /\ Go(t, IF taken = {} THEN "leave" ELSE "keep")
    /\ UNCHANGED <<listVars, markVars, trimVars, live, owned, head, nxt, id, then>>

\* How far down every id was on the list
Lowest == CHOOSE k \in floor .. current :
    /\ \A i \in k .. (current - 1) : i \in taken
    /\ k > floor => (k - 1) \notin taken

\* Mutant: rounded outward
PagesOutward(from, to) ==
    ((from \div PerPage) * PerPage) .. (((to + PerPage - 1) \div PerPage) * PerPage - 1)

\* The whole pages of the ids in from .. to - 1, rounded inward
Pages(from, to) ==
    (((from + PerPage - 1) \div PerPage) * PerPage) .. ((to \div PerPage) * PerPage - 1)

\* The pages go back, zeroed, before the mark comes down
TrimPages(t) ==
    /\ pc[t] = "keep"
    /\ keep' = Lowest
    /\ \/ /\ keep' >= current /\ limit' = current /\ Go(t, "restore") /\ UNCHANGED link
       \/ /\ keep' < current /\ Go(t, "peak") /\ UNCHANGED limit
          /\ link' = [i \in Ids |-> IF i \in Pages(keep', current) THEN 0 ELSE link[i]]
    /\ UNCHANGED <<free, markVars, live, owned, head, nxt, id, then,
                   trimming, current, floor, cursor, taken>>

TrimPeak(t) ==
    /\ pc[t] = "peak"
    /\ peak' = Larger(peak, current) /\ Go(t, "lower")
    /\ UNCHANGED <<listVars, next_id, highest, trimVars, live, owned, head, nxt, id, then>>

\* Fails if the table grew meanwhile, and everything goes back
TrimLower(t) ==
    /\ pc[t] = "lower"
    /\ \/ next_id = current /\ next_id' = keep /\ limit' = keep
       \/ next_id # current /\ limit' = current /\ UNCHANGED next_id
    /\ Go(t, "restore")
    /\ UNCHANGED <<listVars, peak, highest, live, owned, head, nxt, id, then,
                   trimming, current, floor, keep, cursor, taken>>

\* `restore` puts back every id below the limit
Restore(t, i) ==
    /\ pc[t] = "restore" /\ i \in taken /\ i < limit
    /\ taken' = taken \ {i}
    /\ id' = [id EXCEPT ![t] = i] /\ then' = [then EXCEPT ![t] = "restore"]
    /\ Go(t, "push")
    /\ UNCHANGED <<listVars, markVars, live, owned, head, nxt,
                   trimming, current, floor, keep, limit, cursor>>

Restored(t) ==
    /\ pc[t] = "restore" /\ \A i \in taken : i >= limit
    /\ taken' = {} /\ Go(t, "leave")
    /\ UNCHANGED <<listVars, markVars, live, owned, head, nxt, id, then,
                   trimming, current, floor, keep, limit, cursor>>

TrimLeave(t) ==
    /\ pc[t] = "leave"
    /\ trimming' = FALSE /\ Go(t, "idle")
    /\ current' = 0 /\ floor' = 0 /\ keep' = 0 /\ limit' = 0
    /\ UNCHANGED <<listVars, markVars, live, owned, head, nxt, id, then, cursor, taken>>

-----------------------------------------------------------------------------
AllocStep(t) ==
    \/ AllocHead(t) \/ AllocNext(t) \/ AllocPop(t) \/ AllocGrow(t) \/ AllocRefused(t)
    \/ AllocCount(t)
FreeStep(t) == (\E i \in Ids : Free(t, i)) \/ PushLoad(t) \/ PushHead(t)
TrimStep(t) ==
    \/ TrimEnter(t) \/ TrimCurrent(t) \/ TrimFloor(t) \/ DrainLoad(t) \/ DrainHead(t)
    \/ DrainWalk(t) \/ DrainDone(t) \/ TrimPages(t) \/ TrimPeak(t) \/ TrimLower(t)
    \/ (\E i \in Ids : Restore(t, i)) \/ Restored(t) \/ TrimLeave(t)

Next == \E t \in Threads : AllocStep(t) \/ FreeStep(t) \/ TrimStep(t)

Spec == Init /\ [][Next]_vars

-----------------------------------------------------------------------------
(* Properties.                                                             *)

Head == [tag : 0 .. Pops, index : 0 .. MaxIds]
Places == {"idle", "alloc", "next", "pop", "grow", "count", "push", "push_head", "current",
           "floor", "drain", "drain_head", "walk", "keep", "peak", "lower", "restore", "leave"}

\* Types: what the words of `TaskTable` hold, within the bounds on ids and tags
TypeOK ==
    /\ free \in Head /\ link \in [Ids -> 0 .. MaxIds]
    /\ next_id \in 0 .. MaxIds /\ peak \in 0 .. MaxIds /\ highest \in 0 .. MaxIds
    /\ live \in Int /\ owned \in SUBSET Ids /\ trimming \in BOOLEAN
    /\ pc \in [Threads -> Places] /\ then \in [Threads -> {"idle", "walk", "restore"}]
    /\ head \in [Threads -> Head] /\ nxt \in [Threads -> 0 .. MaxIds] /\ id \in [Threads -> Ids]
    /\ current \in 0 .. MaxIds /\ floor \in Nat /\ keep \in Nat /\ limit \in 0 .. MaxIds
    /\ cursor \in 0 .. MaxIds /\ taken \in SUBSET Ids

\* The ids on the list that starts at an index
Chain(index) ==
    LET reach[n \in 0 .. MaxIds] ==
          IF n = 0 THEN {index}
          ELSE reach[n - 1] \cup {link[k - 1] : k \in reach[n - 1] \ {0}}
    IN  {k - 1 : k \in reach[MaxIds] \ {0}}

\* Threads with an id in hand, on its way out of the table or back in
Carrying == {t \in Threads : pc[t] \in {"count", "push", "push_head"}}

\* What the trim has taken and not put back; above the limit it has let go
Owed ==
    {i \in taken : (\E t \in Threads : "restore" \in {pc[t], then[t]}) => i < limit}

\* Where an id can be: held by the program, carried by a thread, on the free
\* list, or with the trim, walked or not
PlacesOf(i) ==
    Cardinality({t \in Carrying : id[t] = i})
      + Cardinality({s \in {owned, Chain(free.index), Chain(cursor), Owed} : i \in s})

\* `alloc`: a thread that stalled "can't swing the head onto a live id".  No id
\* is ever in two places: held twice, or held while on the list
IdsInOnePlace == \A i \in Ids : PlacesOf(i) <= 1

\* `high_water`: "Walking up to here sees every live task, since a trim only
\* lowers it past free ids".  Every id in use, or on the list, is below the mark
WalkSeesAll ==
    \A i \in Ids : i \in owned \cup Chain(free.index) \cup {id[t] : t \in Carrying} => i < next_id

\* `reclaim`: "a live slot's page is never picked".  The pages that go back,
\* zeroed, hold no id in use, being handed out, on its way back or on the list
PagesFree ==
    [][\A t \in Threads : pc[t] = "keep" /\ pc'[t] = "peak" =>
         \A i \in Pages(keep', current) :
            i \notin owned \cup Chain(free.index) \cup {id[u] : u \in Carrying}]_vars

\* `peak`: the larger of the two words is the exact peak, however often the
\* mark came down
PeakExact == highest = Larger(next_id, peak)

\* Whatever pops, pushes and a trim are half way through, the ids are accounted for:
\* each in one place, each in use below the mark, and the peak exact (`alloc`, `free`,
\* `trim`)
TableInv == TypeOK /\ IdsInOnePlace /\ WalkSeesAll /\ PeakExact

\* `reclaim`: "Fails if somebody grew the table meanwhile, and then everything
\* goes back".  With no call under way, every id below the mark is in use or free
NoIdLost ==
    (\A t \in Threads : pc[t] = "idle") /\ ~Refused =>
        \A i \in 0 .. (next_id - 1) : i \in owned \cup Chain(free.index)
=============================================================================
