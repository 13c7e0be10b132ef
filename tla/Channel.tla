------------------------------ MODULE Channel ------------------------------
(***************************************************************************)
(* A channel: the values in it, the ends and tasks that hold it open, and  *)
(* the two doorbells a waiting task parks on.  Every operation of `Core`   *)
(* runs under its lock, so each is one step.  A parked task is woken by    *)
(* the kernel once its bell has a byte, and not before.                    *)
(***************************************************************************)
EXTENDS Integers, Sequences, FiniteSets

CONSTANTS
    Tx, Rx,         \* sending and receiving ends a user may hold
    Sends, Recvs,   \* `ChannelSendTask`s and `ChannelRecvTask`s
    Values,         \* values that may be sent, each once
    Bounded,        \* whether the channel has a capacity
    Capacity,       \* the capacity, at least 1
    NoValue         \* an emptied cell

ASSUME ChannelAssumption ==
    /\ IsFiniteSet(Tx) /\ IsFiniteSet(Rx) /\ IsFiniteSet(Sends) /\ IsFiniteSet(Recvs)
    /\ Tx \cap Sends = {} /\ Rx \cap Recvs = {}
    /\ (Tx \cup Sends) \cap (Rx \cup Recvs) = {}
    /\ Bounded \in BOOLEAN /\ Capacity \in Nat \ {0}
    /\ NoValue \notin Values

VARIABLES
    queue,      \* the values waiting, oldest first
    senders,    \* sending ends still open
    receivers,  \* receiving ends still open
    items,      \* bytes in the bell a receive parks on
    room,       \* bytes in the bell a bounded send parks on
    at,         \* where each end and each task is
    cell,       \* the value each send task shares with its copies
    holder,     \* which cell each send task uses, by the value it began with
    unused,     \* values nobody has tried to send yet
    sent,       \* values that went in, in order
    received    \* values that came out, in order

chanVars == <<queue, senders, receivers, items, room>>
vars == <<chanVars, at, cell, holder, unused, sent, received>>

SendEnds == Tx \cup Sends
RecvEnds == Rx \cup Recvs
Ends == SendEnds \cup RecvEnds
Places == {"none", "held", "ready", "parked", "done", "gone"}
Opened == Places \ {"none", "gone"}
OpenTx == {e \in SendEnds : at[e] \in Opened}
OpenRx == {e \in RecvEnds : at[e] \in Opened}

Full == Bounded /\ Len(queue) = Capacity

\* `open`: one end of each kind, and room rung from the start if bounded
Init ==
    /\ queue = <<>> /\ senders = 1 /\ receivers = 1
    /\ items = 0 /\ room = (IF Bounded THEN 1 ELSE 0)
    /\ \E s \in Tx, r \in Rx :
         at = [e \in Ends |-> IF e \in {s, r} THEN "held" ELSE "none"]
    /\ cell = [v \in Values |-> NoValue]
    /\ holder = [s \in Sends |-> NoValue]
    /\ unused = Values /\ sent = <<>> /\ received = <<>>

Place(e, p) == at' = [at EXCEPT ![e] = p]

-----------------------------------------------------------------------------
(* The operations of `Core`.                                               *)

\* `push`, once there is a receiver and room
Put(v) ==
    /\ receivers > 0 /\ ~(Bounded /\ Len(queue) >= Capacity)
    /\ queue' = Append(queue, v)
    /\ items' = IF queue = <<>> /\ senders > 0 THEN items + 1 ELSE items
    /\ room' = IF Bounded /\ Len(queue') = Capacity THEN 0 ELSE room
    /\ sent' = Append(sent, v)
    /\ UNCHANGED <<senders, receivers, received>>

\* `pop`, when there is a value
Take ==
    /\ queue # <<>>
    /\ queue' = Tail(queue)
    /\ items' = IF queue' = <<>> /\ senders > 0 THEN 0 ELSE items
    /\ room' = IF Full THEN room + 1 ELSE room
    /\ received' = Append(received, Head(queue))
    /\ UNCHANGED <<senders, receivers, sent>>

add_sender == senders' = senders + 1 /\ UNCHANGED <<queue, receivers, items, room>>
add_receiver == receivers' = receivers + 1 /\ UNCHANGED <<queue, senders, items, room>>

\* Mutant: the last sender goes without ringing
drop_sender_silent == senders' = senders - 1 /\ UNCHANGED <<queue, receivers, items, room>>

drop_sender ==
    /\ senders' = senders - 1
    /\ items' = IF senders' = 0 /\ queue = <<>> THEN items + 1 ELSE items
    /\ UNCHANGED <<queue, receivers, room>>

drop_receiver ==
    /\ receivers' = receivers - 1
    /\ room' = IF receivers' = 0 /\ Full THEN room + 1 ELSE room
    /\ UNCHANGED <<queue, senders, items>>

-----------------------------------------------------------------------------
(* The ends.                                                               *)

CloneSender(e, f) ==
    /\ at[e] = "held" /\ at[f] = "none" /\ Place(f, "held")
    /\ add_sender
    /\ UNCHANGED <<cell, holder, unused, sent, received>>

CloneReceiver(e, f) ==
    /\ at[e] = "held" /\ at[f] = "none" /\ Place(f, "held")
    /\ add_receiver
    /\ UNCHANGED <<cell, holder, unused, sent, received>>

\* A user drops an end; a task's end goes when the task does: once it is done,
\* or when it is cancelled before that
DropSendEnd(e) ==
    /\ at[e] \in Opened /\ Place(e, "gone")
    /\ drop_sender
    /\ UNCHANGED <<cell, holder, unused, sent, received>>

DropRecvEnd(e) ==
    /\ at[e] \in Opened /\ Place(e, "gone")
    /\ drop_receiver
    /\ UNCHANGED <<cell, holder, unused, sent, received>>

\* `Sender::send` and `try_send`: a value that did not fit is handed back, and
\* one nobody can receive is dropped
SendNow(e, v) ==
    /\ at[e] = "held" /\ v \in unused
    /\ \/ Put(v) /\ unused' = unused \ {v}
       \/ receivers = 0 /\ unused' = unused \ {v} /\ UNCHANGED <<chanVars, sent, received>>
    /\ UNCHANGED <<at, cell, holder>>

\* `try_recv`
RecvNow(e) ==
    /\ at[e] = "held"
    /\ Take
    /\ UNCHANGED <<at, cell, holder, unused>>

-----------------------------------------------------------------------------
(* The tasks.                                                              *)

\* `BoundedSender::send`: a task with an end of its own and its value in a cell
NewSend(e, s, v) ==
    /\ Bounded /\ at[e] = "held" /\ at[s] = "none" /\ v \in unused
    /\ Place(s, "ready")
    /\ cell' = [cell EXCEPT ![v] = v] /\ holder' = [holder EXCEPT ![s] = v]
    /\ unused' = unused \ {v}
    /\ add_sender
    /\ UNCHANGED <<sent, received>>

\* Mutant: the copy has no end of its own
CopySendUncounted(s, t) ==
    /\ at[s] \in Opened /\ at[t] = "none"
    /\ Place(t, "ready")
    /\ holder' = [holder EXCEPT ![t] = holder[s]]
    /\ UNCHANGED <<chanVars, cell, unused, sent, received>>

\* A copy of the task shares the cell and has an end of its own
CopySend(s, t) ==
    /\ at[s] \in Opened /\ at[t] = "none"
    /\ Place(t, "ready")
    /\ holder' = [holder EXCEPT ![t] = holder[s]]
    /\ add_sender
    /\ UNCHANGED <<cell, unused, sent, received>>

NewRecv(e, r) ==
    /\ at[e] \in Opened /\ at[r] = "none"
    /\ Place(r, "ready")
    /\ add_receiver
    /\ UNCHANGED <<cell, holder, unused, sent, received>>

\* Mutant: the value stays in the cell once it is in
AdvanceSendKeeps(s) ==
    /\ at[s] = "ready"
    /\ LET v == cell[holder[s]] IN
         \/ /\ v # NoValue /\ receivers > 0 /\ Len(queue) >= Capacity
            /\ Place(s, "parked") /\ UNCHANGED <<chanVars, sent, received>>
         \/ v # NoValue /\ Put(v) /\ Place(s, "done")
    /\ UNCHANGED <<cell, holder, unused>>

\* `ChannelSendTask::advance`
AdvanceSend(s) ==
    /\ at[s] = "ready"
    /\ LET v == cell[holder[s]] IN
         \/ /\ v = NoValue                          \* `Finished`
            /\ Place(s, "done") /\ UNCHANGED <<chanVars, cell, sent, received>>
         \/ /\ v # NoValue /\ receivers = 0         \* `Closed`
            /\ Place(s, "done") /\ cell' = [cell EXCEPT ![holder[s]] = NoValue]
            /\ UNCHANGED <<chanVars, sent, received>>
         \/ /\ v # NoValue /\ receivers > 0 /\ Len(queue) >= Capacity
            /\ Place(s, "parked") /\ UNCHANGED <<chanVars, cell, sent, received>>
         \/ /\ v # NoValue /\ Put(v)
            /\ Place(s, "done") /\ cell' = [cell EXCEPT ![holder[s]] = NoValue]
    /\ UNCHANGED <<holder, unused>>

\* `ChannelRecvTask::advance`
AdvanceRecv(r) ==
    /\ at[r] = "ready"
    /\ \/ Take /\ Place(r, "done")
       \/ /\ queue = <<>>
          /\ Place(r, IF senders = 0 THEN "done" ELSE "parked")
          /\ UNCHANGED <<chanVars, sent, received>>
    /\ UNCHANGED <<cell, holder, unused>>

\* The kernel reports a bell with a byte in it, whenever the task registered
Wake(t) ==
    /\ at[t] = "parked"
    /\ IF t \in Recvs THEN items > 0 ELSE room > 0
    /\ Place(t, "ready")
    /\ UNCHANGED <<chanVars, cell, holder, unused, sent, received>>

\* A repeat is run again
Rerun(t) ==
    /\ at[t] = "done" /\ Place(t, "ready")
    /\ UNCHANGED <<chanVars, cell, holder, unused, sent, received>>

-----------------------------------------------------------------------------
UserStep ==
    \/ \E e, f \in Tx : CloneSender(e, f)
    \/ \E e, f \in Rx : CloneReceiver(e, f)
    \/ \E e \in SendEnds : DropSendEnd(e)
    \/ \E e \in RecvEnds : DropRecvEnd(e)
    \/ \E e \in Tx, v \in Values : SendNow(e, v)
    \/ \E e \in Rx : RecvNow(e)
    \/ \E e \in Tx, s \in Sends, v \in Values : NewSend(e, s, v)
    \/ \E s, t \in Sends : CopySend(s, t)
    \/ \E e \in RecvEnds, r \in Recvs : NewRecv(e, r)

TaskStep(t) == Wake(t) \/ (t \in Sends /\ AdvanceSend(t)) \/ (t \in Recvs /\ AdvanceRecv(t))

Next ==
    \/ UserStep
    \/ \E t \in Sends \cup Recvs : TaskStep(t) \/ Rerun(t)

\* A task the bell wakes is run.  No user has to send, receive or drop anything
Spec == Init /\ [][Next]_vars /\ \A t \in Sends \cup Recvs : WF_vars(TaskStep(t))

-----------------------------------------------------------------------------
(* Properties.                                                             *)

\* Types: what `Core`'s state, the bells and the tasks' cells hold
TypeOK ==
    /\ queue \in Seq(Values) /\ senders \in Nat /\ receivers \in Nat
    /\ items \in Nat /\ room \in Nat
    /\ at \in [Ends -> Places]
    /\ cell \in [Values -> Values \cup {NoValue}]
    /\ holder \in [Sends -> Values \cup {NoValue}]
    /\ unused \in SUBSET Values
    /\ sent \in Seq(Values) /\ received \in Seq(Values)

\* `Core`: "A byte sits in `items` exactly while a receive has something to do,
\* and in `room` exactly while a send has".  Never two bytes, so one drain is
\* enough, and never none, so no parked task misses its turn
BellsExact ==
    /\ items = (IF queue # <<>> \/ senders = 0 THEN 1 ELSE 0)
    /\ room = (IF Bounded /\ (Len(queue) < Capacity \/ receivers = 0) THEN 1 ELSE 0)

\* A value goes in at most once, whichever copy of its task gets there and
\* however often one is run again; every value that came out went in, in order
SentOnce ==
    /\ \A i, j \in DOMAIN sent : sent[i] = sent[j] => i = j
    /\ sent = received \o queue

\* The counts under the lock are the ends that are open, held by a user or by a
\* task (`add_sender`, `drop_sender` and their receiving twins)
EndsCounted ==
    /\ senders = Cardinality(OpenTx)
    /\ receivers = Cardinality(OpenRx)

\* Where a value is before it goes in: with nobody yet, or in its own cell
NotYetIn ==
    /\ \A v \in Values : cell[v] \in {v, NoValue}
    /\ \A v \in unused : cell[v] = NoValue
    /\ \A v \in Values : v \in unused \/ cell[v] = v => \A i \in DOMAIN sent : sent[i] # v
    /\ \A s \in Sends : at[s] # "none" => holder[s] \in Values

\* The inductive invariant of `Core` and its tasks: the ends are counted, a
\* bounded channel is never over its capacity, the bells are exact, and no value
\* that is in can go in again
ChannelInv ==
    /\ EndsCounted /\ BellsExact
    /\ Bounded => Len(queue) <= Capacity
    /\ NotYetIn /\ SentOnce

\* A receive still waiting when the last sender goes is let go (`drop_sender`)
ReceivesLetGo ==
    \A r \in Recvs : (at[r] = "parked" /\ senders = 0) ~> at[r] \in {"done", "gone"}

\* A send still waiting when the last receiver goes is let go (`drop_receiver`)
SendsLetGo ==
    \A s \in Sends : (at[s] = "parked" /\ receivers = 0) ~> at[s] \in {"done", "gone"}

\* The last end of a side to go lets every task parked on the other side go, by the bell
\* it rings (`drop_sender`, `drop_receiver`)
EveryoneLetGo == ReceivesLetGo /\ SendsLetGo
=============================================================================
