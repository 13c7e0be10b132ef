----------------------------- MODULE BandedFifo -----------------------------
(***************************************************************************)
(* What the shared queue promises: one line per priority band, joined at   *)
(* the back and left from the front, and a task in one line at a time.     *)
(* Which band is served next is left open.                                 *)
(***************************************************************************)
EXTENDS Sequences, Functions

CONSTANTS Ids, Bands

VARIABLE q      \* the tasks waiting in each band, oldest push first

Init == q = [b \in Bands |-> <<>>]

Join(i, b) ==
    /\ \A c \in Bands : i \notin Range(q[c])
    /\ q' = [q EXCEPT ![b] = Append(@, i)]

Leave(b) ==
    /\ q[b] # <<>>
    /\ q' = [q EXCEPT ![b] = Tail(@)]

Next == \E b \in Bands : Leave(b) \/ \E i \in Ids : Join(i, b)

Spec == Init /\ [][Next]_q
=============================================================================
