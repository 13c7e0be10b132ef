---------------------------- MODULE FutureProofs ----------------------------
(***************************************************************************)
(* Proofs about the two futures with a count of their own. Channel, for    *)
(* any number of ends, tasks and values and any capacity: the bells are    *)
(* exact and a value goes in once. SignalDispatch, for any tasks of either *)
(* policy and any width of the count: the claims on the signal are counted *)
(* exactly, and a task that watches is told every delivery.                *)
(***************************************************************************)
EXTENDS Channel, SignalDispatch, FiniteSetTheorems, TLAPS

\* What the operations of `Core` keep of the values and the bells
DataInv == BellsExact /\ (Bounded => Len(queue) <= Capacity)

-----------------------------------------------------------------------------
(* Counting the open ends.                                                 *)

LEMMA OpenFinite ==
    /\ IsFiniteSet(OpenTx) /\ Cardinality(OpenTx) \in Nat
    /\ IsFiniteSet(OpenRx) /\ Cardinality(OpenRx) \in Nat
<1>1. IsFiniteSet(SendEnds) /\ IsFiniteSet(RecvEnds)
  BY ChannelAssumption, FS_Union DEF SendEnds, RecvEnds
<1>2. OpenTx \in SUBSET SendEnds /\ OpenRx \in SUBSET RecvEnds
  BY DEF OpenTx, OpenRx
<1> QED  BY <1>1, <1>2, FS_Subset, FS_CardinalityType

\* An open end means the count is not zero
LEMMA CountedEnd ==
    ASSUME EndsCounted, NEW e, at[e] \in Opened
    PROVE  /\ e \in SendEnds => senders \in Nat \ {0}
           /\ e \in RecvEnds => receivers \in Nat \ {0}
<1>1. e \in SendEnds => e \in OpenTx
  BY DEF OpenTx
<1>2. e \in RecvEnds => e \in OpenRx
  BY DEF OpenRx
<1>3. OpenTx # {} => Cardinality(OpenTx) # 0
  BY OpenFinite, FS_EmptySet
<1>4. OpenRx # {} => Cardinality(OpenRx) # 0
  BY OpenFinite, FS_EmptySet
<1> QED  BY <1>1, <1>2, <1>3, <1>4, OpenFinite DEF EndsCounted

\* The two kinds of end are different
LEMMA KindsApart == SendEnds \cap RecvEnds = {}
  BY ChannelAssumption DEF SendEnds, RecvEnds

LEMMA SendEndOpens ==
    ASSUME TypeOK, NEW e \in SendEnds, NEW p \in Opened, at[e] \notin Opened, Place(e, p)
    PROVE  Cardinality(OpenTx') = Cardinality(OpenTx) + 1 /\ OpenRx' = OpenRx
<1>1. OpenTx' = OpenTx \cup {e} /\ e \notin OpenTx
  BY DEF OpenTx, Place, TypeOK, Ends
<1>2. OpenRx' = OpenRx
  BY KindsApart DEF OpenRx, Place, TypeOK, Ends
<1> QED  BY <1>1, <1>2, OpenFinite, FS_AddElement

LEMMA RecvEndOpens ==
    ASSUME TypeOK, NEW e \in RecvEnds, NEW p \in Opened, at[e] \notin Opened, Place(e, p)
    PROVE  Cardinality(OpenRx') = Cardinality(OpenRx) + 1 /\ OpenTx' = OpenTx
<1>1. OpenRx' = OpenRx \cup {e} /\ e \notin OpenRx
  BY DEF OpenRx, Place, TypeOK, Ends
<1>2. OpenTx' = OpenTx
  BY KindsApart DEF OpenTx, Place, TypeOK, Ends
<1> QED  BY <1>1, <1>2, OpenFinite, FS_AddElement

LEMMA SendEndCloses ==
    ASSUME TypeOK, NEW e \in SendEnds, at[e] \in Opened, Place(e, "gone")
    PROVE  Cardinality(OpenTx') = Cardinality(OpenTx) - 1 /\ OpenRx' = OpenRx
<1>1. OpenTx' = OpenTx \ {e} /\ e \in OpenTx
  BY DEF OpenTx, Place, TypeOK, Ends, Opened
<1>2. OpenRx' = OpenRx
  BY KindsApart DEF OpenRx, Place, TypeOK, Ends
<1> QED  BY <1>1, <1>2, OpenFinite, FS_RemoveElement

LEMMA RecvEndCloses ==
    ASSUME TypeOK, NEW e \in RecvEnds, at[e] \in Opened, Place(e, "gone")
    PROVE  Cardinality(OpenRx') = Cardinality(OpenRx) - 1 /\ OpenTx' = OpenTx
<1>1. OpenRx' = OpenRx \ {e} /\ e \in OpenRx
  BY DEF OpenRx, Place, TypeOK, Ends, Opened
<1>2. OpenTx' = OpenTx
  BY KindsApart DEF OpenTx, Place, TypeOK, Ends
<1> QED  BY <1>1, <1>2, OpenFinite, FS_RemoveElement

\* A task that moves between its own places stays open
LEMMA StaysOpen ==
    ASSUME TypeOK, NEW e \in Ends, NEW p \in Opened, at[e] \in Opened, Place(e, p)
    PROVE  OpenTx' = OpenTx /\ OpenRx' = OpenRx
  BY DEF OpenTx, OpenRx, Place, TypeOK, Ends

-----------------------------------------------------------------------------
(* The operations of `Core`.                                               *)

LEMMA PutKeeps ==
    ASSUME TypeOK, DataInv, senders > 0, NEW v \in Values, Put(v)
    PROVE  DataInv'
<1>1. Len(queue') = Len(queue) + 1 /\ queue' # <<>> /\ Len(queue) \in Nat
  BY DEF TypeOK, Put
<1>2. (queue = <<>>) <=> (Len(queue) = 0)
  BY DEF TypeOK
<1>3. items' = 1
  BY <1>2 DEF TypeOK, Put, DataInv, BellsExact
<1>4. room' = (IF Bounded /\ (Len(queue') < Capacity \/ receivers' = 0) THEN 1 ELSE 0)
  BY <1>1, ChannelAssumption DEF TypeOK, Put, DataInv, BellsExact
<1>5. Bounded => Len(queue') <= Capacity
  BY <1>1, ChannelAssumption DEF Put
<1> QED  BY <1>1, <1>3, <1>4, <1>5 DEF DataInv, BellsExact

LEMMA TakeKeeps ==
    ASSUME TypeOK, DataInv, receivers > 0, Take
    PROVE  DataInv'
<1>1. Len(queue') = Len(queue) - 1 /\ Len(queue) \in Nat \ {0} /\ queue' \in Seq(Values)
  BY DEF TypeOK, Take
<1>2. items' = (IF queue' # <<>> \/ senders' = 0 THEN 1 ELSE 0)
  BY DEF TypeOK, Take, DataInv, BellsExact
<1>3. room' = (IF Bounded /\ (Len(queue') < Capacity \/ receivers' = 0) THEN 1 ELSE 0)
  <2>1. CASE ~Bounded
    BY <2>1 DEF Take, Full, DataInv, BellsExact
  <2>2. CASE Bounded
    <3>1. Len(queue) <= Capacity /\ Len(queue') < Capacity /\ receivers # 0
      BY <1>1, <2>2, ChannelAssumption DEF DataInv, TypeOK
    <3>2. room = IF Len(queue) < Capacity THEN 1 ELSE 0
      BY <2>2, <3>1 DEF DataInv, BellsExact
    <3>3. Full <=> Len(queue) = Capacity
      BY <2>2 DEF Full
    <3>4. room' = IF Full THEN room + 1 ELSE room
      BY DEF Take
    <3>5. room' = 1
      <4>1. CASE Len(queue) = Capacity
        BY <1>1, <4>1, <3>2, <3>3, <3>4, ChannelAssumption
      <4>2. CASE Len(queue) < Capacity
        BY <1>1, <4>2, <3>2, <3>3, <3>4, ChannelAssumption
      <4> QED  BY <1>1, <3>1, <4>1, <4>2, ChannelAssumption
    <3> QED  BY <2>2, <3>1, <3>5
  <2> QED  BY <2>1, <2>2
<1>4. Bounded => Len(queue') <= Capacity
  BY <1>1, ChannelAssumption DEF DataInv
<1> QED  BY <1>2, <1>3, <1>4 DEF DataInv, BellsExact

LEMMA AddKeeps ==
    ASSUME TypeOK, DataInv
    PROVE  /\ senders > 0 /\ add_sender => DataInv'
           /\ receivers > 0 /\ add_receiver => DataInv'
<1>1. ASSUME senders > 0, add_sender PROVE DataInv'
  <2>1. senders # 0 /\ senders' # 0
    BY <1>1 DEF TypeOK, add_sender
  <2> QED  BY <1>1, <2>1 DEF add_sender, DataInv, BellsExact
<1>2. ASSUME receivers > 0, add_receiver PROVE DataInv'
  <2>1. receivers # 0 /\ receivers' # 0
    BY <1>2 DEF TypeOK, add_receiver
  <2> QED  BY <1>2, <2>1 DEF add_receiver, DataInv, BellsExact
<1> QED  BY <1>1, <1>2

LEMMA DropKeeps ==
    ASSUME TypeOK, DataInv
    PROVE  /\ senders > 0 /\ drop_sender => DataInv'
           /\ receivers > 0 /\ drop_receiver => DataInv'
<1>1. ASSUME senders > 0, drop_sender PROVE DataInv'
  <2>1. items' = (IF queue # <<>> \/ senders' = 0 THEN 1 ELSE 0)
    BY <1>1 DEF TypeOK, drop_sender, DataInv, BellsExact
  <2> QED  BY <1>1, <2>1 DEF drop_sender, DataInv, BellsExact
<1>2. ASSUME receivers > 0, drop_receiver PROVE DataInv'
  <2>1. Len(queue) \in Nat
    BY DEF TypeOK
  <2>2. room' = (IF Bounded /\ (Len(queue) < Capacity \/ receivers' = 0) THEN 1 ELSE 0)
    BY <1>2, <2>1, ChannelAssumption DEF TypeOK, drop_receiver, Full, DataInv, BellsExact
  <2> QED  BY <1>2, <2>2 DEF drop_receiver, DataInv, BellsExact
<1> QED  BY <1>1, <1>2

-----------------------------------------------------------------------------
(* Every step keeps the invariant.                                         *)

IInv == TypeOK /\ ChannelInv

\* Values that went in are in the order they come out, and are never the ones
\* still to go in
LEMMA PutOnce ==
    ASSUME TypeOK, NEW v \in Values, Put(v), NotYetIn, SentOnce,
           v \in unused \/ cell[v] = v
    PROVE  SentOnce' /\ \A i \in DOMAIN sent' : sent'[i] = v \/ \E j \in DOMAIN sent : sent'[i] = sent[j]
<1>1. sent' = Append(sent, v) /\ queue' = Append(queue, v) /\ received' = received
  BY DEF Put
<1>2. sent \in Seq(Values) /\ queue \in Seq(Values) /\ received \in Seq(Values)
  BY DEF TypeOK
<1>3. \A i \in DOMAIN sent : sent[i] # v
  BY DEF NotYetIn
<1>4. \A i, j \in DOMAIN sent' : sent'[i] = sent'[j] => i = j
  <2>1. Len(sent) \in Nat /\ DOMAIN sent = 1..Len(sent) /\ DOMAIN sent' = 1..(Len(sent) + 1)
    BY <1>1, <1>2
  <2>2. sent'[Len(sent) + 1] = v /\ \A i \in 1..Len(sent) : sent'[i] = sent[i]
    BY <1>1, <1>2
  <2>3. \A i \in DOMAIN sent' : i \in DOMAIN sent \/ i = Len(sent) + 1
    BY <2>1
  <2> QED  BY <1>3, <2>1, <2>2, <2>3 DEF SentOnce
<1>5. sent' = received' \o queue'
  BY <1>1, <1>2 DEF SentOnce
<1>6. \A i \in DOMAIN sent' : sent'[i] = v \/ \E j \in DOMAIN sent : sent'[i] = sent[j]
  BY <1>1, <1>2
<1> QED  BY <1>4, <1>5, <1>6 DEF SentOnce

LEMMA TakeOnce ==
    ASSUME TypeOK, Take, SentOnce
    PROVE  SentOnce' /\ received' \in Seq(Values) /\ queue' \in Seq(Values)
<1>1. sent' = sent /\ queue' = Tail(queue) /\ received' = Append(received, Head(queue))
  BY DEF Take
<1>2. queue \in Seq(Values) /\ received \in Seq(Values) /\ queue # <<>>
  BY DEF TypeOK, Take
<1>3. received' \o queue' = received \o queue
  BY <1>1, <1>2
<1> QED  BY <1>1, <1>2, <1>3 DEF SentOnce

\* Put with everything but the place of the task that did it
LEMMA PutTyped ==
    ASSUME TypeOK, NEW v \in Values, Put(v)
    PROVE  /\ queue' \in Seq(Values) /\ sent' \in Seq(Values) /\ received' \in Seq(Values)
           /\ senders' \in Nat /\ receivers' \in Nat /\ items' \in Nat /\ room' \in Nat
  BY DEF TypeOK, Put

LEMMA TakeTyped ==
    ASSUME TypeOK, Take
    PROVE  /\ queue' \in Seq(Values) /\ sent' \in Seq(Values) /\ received' \in Seq(Values)
           /\ senders' \in Nat /\ receivers' \in Nat /\ items' \in Nat /\ room' \in Nat
  BY DEF TypeOK, Take

\* A value that was just put in is no longer to come
LEMMA PutNotYetIn ==
    ASSUME TypeOK, NotYetIn, SentOnce, NEW v \in Values, Put(v),
           v \in unused \/ cell[v] = v,
           unused' = unused \ {v}, cell' = [cell EXCEPT ![v] = NoValue],
           \A s \in Sends : at'[s] # "none" => at[s] # "none",
           holder' = holder
    PROVE  NotYetIn'
<1>1. \A w \in Values : w \in unused' \/ cell'[w] = w => w # v /\ (w \in unused \/ cell[w] = w)
  BY ChannelAssumption DEF TypeOK
<1>2. \A w \in Values : w \in unused' \/ cell'[w] = w => \A i \in DOMAIN sent' : sent'[i] # w
  BY <1>1, PutOnce DEF NotYetIn
<1>3. \A w \in Values : cell'[w] \in {w, NoValue}
  BY DEF NotYetIn, TypeOK
<1>4. \A w \in unused' : cell'[w] = NoValue
  BY DEF NotYetIn, TypeOK
<1>5. \A s \in Sends : at'[s] # "none" => holder'[s] \in Values
  BY DEF NotYetIn
<1> QED  BY <1>2, <1>3, <1>4, <1>5 DEF NotYetIn

\* Steps that leave the values where they are
LEMMA QuietNotYetIn ==
    ASSUME NotYetIn, SentOnce, UNCHANGED <<cell, holder, unused, sent>>,
           \A s \in Sends : at'[s] # "none" => at[s] # "none"
    PROVE  NotYetIn'
  BY DEF NotYetIn

-----------------------------------------------------------------------------
LEMMA SendEndStep ==
    ASSUME IInv, NEW e \in SendEnds,
           \/ \E f \in Tx : e \in Tx /\ CloneSender(e, f)
           \/ DropSendEnd(e)
    PROVE  IInv'
<1> USE DEF IInv, ChannelInv
<1>1. at[e] \in Opened /\ senders \in Nat \ {0} /\ DataInv
  BY CountedEnd DEF CloneSender, DropSendEnd, Opened, Places, DataInv
<1>2. ASSUME NEW f \in Tx, CloneSender(e, f) PROVE IInv'
  <2>1. f \in SendEnds /\ "held" \in Opened /\ at[f] \notin Opened /\ Place(f, "held")
    BY <1>2 DEF CloneSender, SendEnds, Opened, Places
  <2>2. EndsCounted'
    BY <1>2, <2>1, SendEndOpens DEF CloneSender, add_sender, EndsCounted
  <2>3. DataInv'
    BY <1>1, <1>2, AddKeeps DEF CloneSender
  <2>4. TypeOK'
    BY <1>2, <2>1 DEF TypeOK, CloneSender, add_sender, Place, Places, Ends
  <2>5. NotYetIn'
    <3>1. \A s \in Sends : at'[s] = at[s]
      BY <1>2, ChannelAssumption DEF TypeOK, CloneSender, Place, Ends, SendEnds
    <3> QED  BY <1>2, <3>1, QuietNotYetIn DEF CloneSender
  <2>6. SentOnce'
    BY <1>2 DEF CloneSender, add_sender, SentOnce
  <2> QED  BY <2>2, <2>3, <2>4, <2>5, <2>6 DEF DataInv
<1>3. ASSUME DropSendEnd(e) PROVE IInv'
  <2>1. EndsCounted'
    BY <1>1, <1>3, SendEndCloses DEF DropSendEnd, drop_sender, EndsCounted
  <2>2. DataInv'
    BY <1>1, <1>3, DropKeeps DEF DropSendEnd
  <2>3. TypeOK'
    BY <1>1, <1>3 DEF TypeOK, DropSendEnd, drop_sender, Place, Places, Ends
  <2>4. NotYetIn'
    BY <1>1, <1>3, QuietNotYetIn DEF DropSendEnd, TypeOK, Place, Opened, Places
  <2>5. SentOnce'
    BY <1>3 DEF DropSendEnd, drop_sender, SentOnce
  <2> QED  BY <2>1, <2>2, <2>3, <2>4, <2>5 DEF DataInv
<1> QED  BY <1>2, <1>3

LEMMA RecvEndStep ==
    ASSUME IInv, NEW e \in RecvEnds,
           \/ \E f \in Rx : e \in Rx /\ CloneReceiver(e, f)
           \/ \E f \in Recvs : NewRecv(e, f)
           \/ DropRecvEnd(e)
    PROVE  IInv'
<1> USE DEF IInv, ChannelInv
<1>1. at[e] \in Opened /\ receivers \in Nat \ {0} /\ DataInv
  BY CountedEnd DEF CloneReceiver, NewRecv, DropRecvEnd, Opened, Places, DataInv
<1>2. ASSUME NEW f \in RecvEnds, NEW p \in Opened, at[f] = "none", Place(f, p), add_receiver,
             UNCHANGED <<cell, holder, unused, sent, received>>
      PROVE  IInv'
  <2>1. at[f] \notin Opened
    BY <1>2 DEF Opened
  <2>2. EndsCounted'
    BY <1>2, <2>1, RecvEndOpens DEF add_receiver, EndsCounted
  <2>3. DataInv'
    BY <1>1, <1>2, AddKeeps
  <2>4. TypeOK'
    BY <1>2 DEF TypeOK, add_receiver, Place, Opened, Places, Ends
  <2>5. NotYetIn'
    <3>1. \A s \in Sends : at'[s] = at[s]
      BY <1>2, KindsApart DEF TypeOK, Place, Ends, SendEnds
    <3> QED  BY <1>2, <3>1, QuietNotYetIn
  <2>6. SentOnce'
    BY <1>2 DEF add_receiver, SentOnce
  <2> QED  BY <2>2, <2>3, <2>4, <2>5, <2>6 DEF DataInv
<1>3. ASSUME DropRecvEnd(e) PROVE IInv'
  <2>1. EndsCounted'
    BY <1>1, <1>3, RecvEndCloses DEF DropRecvEnd, drop_receiver, EndsCounted
  <2>2. DataInv'
    BY <1>1, <1>3, DropKeeps DEF DropRecvEnd
  <2>3. TypeOK'
    BY <1>1, <1>3 DEF TypeOK, DropRecvEnd, drop_receiver, Place, Places, Ends
  <2>4. NotYetIn'
    <3>1. \A s \in Sends : at'[s] = at[s]
      BY <1>3, KindsApart DEF DropRecvEnd, TypeOK, Place, Ends, SendEnds
    <3> QED  BY <1>3, <3>1, QuietNotYetIn DEF DropRecvEnd
  <2>5. SentOnce'
    BY <1>3 DEF DropRecvEnd, drop_receiver, SentOnce
  <2> QED  BY <2>1, <2>2, <2>3, <2>4, <2>5 DEF DataInv
<1>4. ASSUME NEW f \in Rx, CloneReceiver(e, f) PROVE IInv'
  BY <1>2, <1>4 DEF CloneReceiver, RecvEnds, Opened, Places
<1>5. ASSUME NEW f \in Recvs, NewRecv(e, f) PROVE IInv'
  BY <1>2, <1>5 DEF NewRecv, RecvEnds, Opened, Places
<1> QED  BY <1>3, <1>4, <1>5

LEMMA EndUse ==
    ASSUME IInv,
           \/ \E e \in Tx, v \in Values : SendNow(e, v)
           \/ \E e \in Rx : RecvNow(e)
    PROVE  IInv'
<1> USE DEF IInv, ChannelInv
<1>1. ASSUME NEW e \in Tx, NEW v \in Values, SendNow(e, v), Put(v), unused' = unused \ {v}
      PROVE  IInv'
  <2>1. senders \in Nat \ {0} /\ DataInv
    BY <1>1, CountedEnd DEF SendNow, SendEnds, Opened, Places, DataInv
  <2>2. DataInv'
    BY <1>1, <2>1, PutKeeps
  <2>3. EndsCounted'
    BY <1>1 DEF SendNow, Put, EndsCounted, OpenTx, OpenRx
  <2>4. TypeOK'
    BY <1>1, PutTyped DEF SendNow, TypeOK
  <2>5. v \in unused /\ cell' = [cell EXCEPT ![v] = NoValue]
    BY <1>1 DEF SendNow, NotYetIn, TypeOK
  <2>6. NotYetIn'
    BY <1>1, <2>5, PutNotYetIn DEF SendNow
  <2>7. SentOnce'
    BY <1>1, <2>5, PutOnce
  <2> QED  BY <2>2, <2>3, <2>4, <2>6, <2>7 DEF DataInv
<1>2. ASSUME NEW e \in Tx, NEW v \in Values, SendNow(e, v), unused' = unused \ {v},
             UNCHANGED <<chanVars, sent, received>>
      PROVE  IInv'
  BY <1>2 DEF SendNow, chanVars, TypeOK, EndsCounted, OpenTx, OpenRx, BellsExact, NotYetIn, SentOnce
<1>3. ASSUME NEW e \in Rx, RecvNow(e) PROVE IInv'
  <2>1. receivers \in Nat \ {0} /\ DataInv
    BY <1>3, CountedEnd DEF RecvNow, RecvEnds, Opened, Places, DataInv
  <2>2. DataInv'
    BY <1>3, <2>1, TakeKeeps DEF RecvNow
  <2>3. EndsCounted'
    BY <1>3 DEF RecvNow, Take, EndsCounted, OpenTx, OpenRx
  <2>4. TypeOK'
    BY <1>3, TakeTyped DEF RecvNow, TypeOK
  <2>5. NotYetIn'
    BY <1>3, QuietNotYetIn DEF RecvNow, Take
  <2>6. SentOnce'
    BY <1>3, TakeOnce DEF RecvNow
  <2> QED  BY <2>2, <2>3, <2>4, <2>5, <2>6 DEF DataInv
<1> QED  BY <1>1, <1>2, <1>3 DEF SendNow

LEMMA SendTaskMade ==
    ASSUME IInv,
           \/ \E e \in Tx, s \in Sends, v \in Values : NewSend(e, s, v)
           \/ \E s, t \in Sends : CopySend(s, t)
    PROVE  IInv'
<1> USE DEF IInv, ChannelInv
<1>1. ASSUME NEW e \in SendEnds, at[e] \in Opened, NEW s \in Sends, at[s] = "none",
             Place(s, "ready"), add_sender
      PROVE  EndsCounted' /\ DataInv' /\ at' \in [Ends -> Places] /\ senders' \in Nat
  <2>1. s \in SendEnds /\ "ready" \in Opened /\ at[s] \notin Opened
    BY <1>1 DEF SendEnds, Opened, Places
  <2>2. EndsCounted'
    BY <1>1, <2>1, SendEndOpens DEF add_sender, EndsCounted
  <2>3. senders \in Nat \ {0} /\ DataInv
    BY <1>1, CountedEnd DEF DataInv
  <2>4. DataInv'
    BY <1>1, <2>3, AddKeeps
  <2>5. at' \in [Ends -> Places]
    BY <1>1 DEF TypeOK, Place, Places
  <2>6. senders' \in Nat
    BY <1>1, <2>3 DEF add_sender
  <2> QED  BY <2>2, <2>4, <2>5, <2>6
<1>2. ASSUME NEW e \in Tx, NEW s \in Sends, NEW v \in Values, NewSend(e, s, v) PROVE IInv'
  <2>1. EndsCounted' /\ DataInv' /\ at' \in [Ends -> Places] /\ senders' \in Nat
    BY <1>1, <1>2 DEF NewSend, SendEnds, Opened, Places
  <2>2. TypeOK'
    BY <1>2, <2>1 DEF NewSend, TypeOK, add_sender
  <2>3. NotYetIn'
    BY <1>2 DEF NewSend, NotYetIn, TypeOK, Place, Ends, SendEnds
  <2>4. SentOnce'
    BY <1>2 DEF NewSend, add_sender, SentOnce
  <2> QED  BY <2>1, <2>2, <2>3, <2>4 DEF DataInv
<1>3. ASSUME NEW s \in Sends, NEW t \in Sends, CopySend(s, t) PROVE IInv'
  <2>1. EndsCounted' /\ DataInv' /\ at' \in [Ends -> Places] /\ senders' \in Nat
    BY <1>1, <1>3 DEF CopySend, SendEnds
  <2>2. TypeOK'
    BY <1>3, <2>1 DEF CopySend, TypeOK, add_sender
  <2>3. holder[s] \in Values
    BY <1>3 DEF CopySend, NotYetIn, Opened
  <2>4. NotYetIn'
    BY <1>3, <2>3 DEF CopySend, NotYetIn, TypeOK, Place, Ends, SendEnds
  <2>5. SentOnce'
    BY <1>3 DEF CopySend, add_sender, SentOnce
  <2> QED  BY <2>1, <2>2, <2>4, <2>5 DEF DataInv
<1> QED  BY <1>2, <1>3

\* A task that only changes place
LEMMA PlaceOnly ==
    ASSUME IInv, NEW t \in Sends \cup Recvs, NEW p \in Opened, at[t] \in Opened, Place(t, p),
           UNCHANGED <<chanVars, cell, holder, unused, sent, received>>
    PROVE  IInv'
<1> USE DEF IInv, ChannelInv
<1>1. OpenTx' = OpenTx /\ OpenRx' = OpenRx
  BY StaysOpen DEF Ends, SendEnds, RecvEnds
<1>2. \A s \in Sends : at'[s] # "none" => at[s] # "none"
  BY DEF Place, TypeOK, Opened
<1>3. TypeOK'
  BY DEF TypeOK, chanVars, Place, Opened
<1>4. NotYetIn'
  BY <1>2, QuietNotYetIn
<1> QED  BY <1>1, <1>3, <1>4 DEF chanVars, EndsCounted, BellsExact, SentOnce

LEMMA TaskStepKeeps ==
    ASSUME IInv, NEW t \in Sends \cup Recvs, TaskStep(t) \/ Rerun(t)
    PROVE  IInv'
<1> USE DEF IInv, ChannelInv
<1>1. "ready" \in Opened /\ "parked" \in Opened /\ "done" \in Opened
  BY DEF Opened, Places
<1>2. CASE Wake(t) \/ Rerun(t)
  BY <1>1, <1>2, PlaceOnly DEF Wake, Rerun
<1>3. ASSUME t \in Sends, AdvanceSend(t) PROVE IInv'
  <2> DEFINE v == cell[holder[t]]
  <2>1. holder[t] \in Values /\ at[t] \in Opened /\ t \in SendEnds
    BY <1>1, <1>3 DEF AdvanceSend, NotYetIn, SendEnds
  <2>2. CASE Place(t, "done") /\ UNCHANGED <<chanVars, cell, sent, received>>
    BY <1>1, <1>3, <2>1, <2>2, PlaceOnly DEF AdvanceSend
  <2>3. CASE Place(t, "parked") /\ UNCHANGED <<chanVars, cell, sent, received>>
    BY <1>1, <1>3, <2>1, <2>3, PlaceOnly DEF AdvanceSend
  <2>4. ASSUME Place(t, "done"), cell' = [cell EXCEPT ![holder[t]] = NoValue]
        PROVE  /\ OpenTx' = OpenTx /\ OpenRx' = OpenRx
               /\ \A s \in Sends : at'[s] # "none" => at[s] # "none"
               /\ at' \in [Ends -> Places] /\ cell' \in [Values -> Values \cup {NoValue}]
    <3>1. OpenTx' = OpenTx /\ OpenRx' = OpenRx
      BY <1>1, <2>1, <2>4, StaysOpen DEF Ends
    <3>2. at' \in [Ends -> Places]
      BY <2>4 DEF Place, TypeOK, Places
    <3>3. cell' \in [Values -> Values \cup {NoValue}]
      BY <2>1, <2>4 DEF TypeOK
    <3>4. \A s \in Sends : at'[s] # "none" => at[s] # "none"
      BY <2>1, <2>4 DEF Place, TypeOK, Opened
    <3> QED  BY <3>1, <3>2, <3>3, <3>4
  <2>5. ASSUME Place(t, "done"), cell' = [cell EXCEPT ![holder[t]] = NoValue],
               UNCHANGED <<chanVars, sent, received>>
        PROVE  IInv'
    <3>1. EndsCounted' /\ DataInv' /\ TypeOK' /\ SentOnce'
      BY <1>3, <2>4, <2>5 DEF AdvanceSend, chanVars, EndsCounted, DataInv, BellsExact, TypeOK, SentOnce
    <3>2. NotYetIn'
      BY <1>3, <2>1, <2>4, <2>5, ChannelAssumption DEF AdvanceSend, NotYetIn, TypeOK
    <3> QED  BY <3>1, <3>2 DEF DataInv
  <2>6. ASSUME v # NoValue, Put(v), Place(t, "done"),
               cell' = [cell EXCEPT ![holder[t]] = NoValue]
        PROVE  IInv'
    <3>1. v = holder[t] /\ v \in Values /\ cell[v] = v
      BY <2>1, <2>6 DEF NotYetIn
    <3>2. v \notin unused
      BY <3>1, <2>6 DEF NotYetIn
    <3>3. senders \in Nat \ {0} /\ DataInv
      BY <2>1, CountedEnd DEF DataInv
    <3>4. DataInv'
      BY <2>6, <3>1, <3>3, PutKeeps
    <3>5. EndsCounted'
      BY <2>4, <2>6 DEF Put, EndsCounted
    <3>6. TypeOK'
      BY <1>3, <2>4, <2>6, <3>1, PutTyped DEF AdvanceSend, TypeOK
    <3>7. unused' = unused \ {v} /\ holder' = holder
      BY <1>3, <3>2 DEF AdvanceSend
    <3>8. NotYetIn'
      BY <2>4, <2>6, <3>1, <3>7, PutNotYetIn
    <3>9. SentOnce'
      BY <2>6, <3>1, PutOnce
    <3> QED  BY <3>4, <3>5, <3>6, <3>8, <3>9 DEF DataInv
  <2> QED  BY <1>3, <2>2, <2>3, <2>5, <2>6 DEF AdvanceSend
<1>4. ASSUME t \in Recvs, AdvanceRecv(t) PROVE IInv'
  <2>1. at[t] \in Opened /\ t \in RecvEnds
    BY <1>1, <1>4 DEF AdvanceRecv, RecvEnds
  <2>2. CASE UNCHANGED <<chanVars, sent, received>> /\ Place(t, IF senders = 0 THEN "done" ELSE "parked")
    BY <1>1, <1>4, <2>1, <2>2, PlaceOnly DEF AdvanceRecv
  <2>3. CASE Take /\ Place(t, "done")
    <3>1. OpenTx' = OpenTx /\ OpenRx' = OpenRx
      BY <1>1, <2>1, <2>3, StaysOpen DEF Ends
    <3>2. receivers \in Nat \ {0} /\ DataInv
      BY <2>1, CountedEnd DEF DataInv
    <3>3. DataInv'
      BY <2>3, <3>2, TakeKeeps
    <3>4. EndsCounted'
      BY <2>3, <3>1 DEF Take, EndsCounted
    <3>5. at' \in [Ends -> Places]
      BY <2>3 DEF Place, TypeOK, Places
    <3>6. TypeOK'
      BY <1>4, <2>3, <3>5, TakeTyped DEF AdvanceRecv, TypeOK
    <3>7. \A s \in Sends : at'[s] # "none" => at[s] # "none"
      BY <2>1, <2>3 DEF Place, TypeOK, Opened
    <3>8. NotYetIn'
      BY <1>4, <2>3, <3>7, QuietNotYetIn DEF AdvanceRecv, Take
    <3>9. SentOnce'
      BY <2>3, TakeOnce
    <3> QED  BY <3>3, <3>4, <3>6, <3>8, <3>9 DEF DataInv
  <2> QED  BY <1>4, <2>2, <2>3 DEF AdvanceRecv
<1> QED  BY <1>2, <1>3, <1>4 DEF TaskStep

LEMMA InitKeeps == Init => IInv
<1> SUFFICES ASSUME Init PROVE IInv
  OBVIOUS
<1>1. TypeOK
  BY DEF Init, TypeOK, Places
<1>2. PICK s \in Tx, r \in Rx : at = [e \in Ends |-> IF e \in {s, r} THEN "held" ELSE "none"]
  BY DEF Init
<1>3. OpenTx = {s} /\ OpenRx = {r}
  BY <1>2, KindsApart DEF OpenTx, OpenRx, Ends, SendEnds, RecvEnds, Opened, Places
<1>4. EndsCounted
  BY <1>3, FS_Singleton DEF Init, EndsCounted
<1>5. BellsExact /\ (Bounded => Len(queue) <= Capacity)
  BY ChannelAssumption DEF Init, BellsExact
<1>6. NotYetIn /\ SentOnce
  <2>1. \A e \in Sends : at[e] = "none"
    BY <1>2, ChannelAssumption DEF Ends, SendEnds, RecvEnds
  <2> QED  BY <2>1 DEF Init, NotYetIn, SentOnce
<1> QED  BY <1>1, <1>4, <1>5, <1>6 DEF IInv, ChannelInv

LEMMA NextKeeps == IInv /\ [Next]_vars => IInv'
<1> SUFFICES ASSUME IInv, [Next]_vars PROVE IInv'
  OBVIOUS
<1>1. CASE UserStep
  BY <1>1, SendEndStep, RecvEndStep, EndUse, SendTaskMade DEF UserStep, SendEnds, RecvEnds
<1>2. CASE \E t \in Sends \cup Recvs : TaskStep(t) \/ Rerun(t)
  BY <1>2, TaskStepKeeps
<1>3. CASE UNCHANGED vars
  BY <1>3 DEF vars, chanVars, IInv, TypeOK, ChannelInv, EndsCounted, OpenTx, OpenRx, BellsExact,
              NotYetIn, SentOnce
<1> QED  BY <1>1, <1>2, <1>3 DEF Next

\* The counts, the capacity, the bells and the values of `Core` stay right
\* whatever ends and tasks come and go
THEOREM ChannelCorrect == Spec => [](TypeOK /\ ChannelInv)
<1>1. Spec => []IInv
  BY InitKeeps, NextKeeps, PTL DEF Spec
<1> QED  BY <1>1, PTL DEF IInv

\* `Core`: a byte sits in each bell exactly while its tasks have something to do
THEOREM BellsAlwaysExact == Spec => []BellsExact
<1>1. IInv => BellsExact
  BY DEF IInv, ChannelInv
<1> QED  BY InitKeeps, NextKeeps, <1>1, PTL DEF Spec

\* No value goes in twice, and what comes out is what went in, in order
THEOREM ValuesGoInOnce == Spec => []SentOnce
<1>1. IInv => SentOnce
  BY DEF IInv, ChannelInv
<1> QED  BY InitKeeps, NextKeeps, <1>1, PTL DEF Spec

-----------------------------------------------------------------------------
(* Signals.                                                                *)

\* Where a task has not begun to count
Before == {"new", "install", "sigaction", "begin"}

\* The two claims, with what a task that has not begun was told, and that only a
\* task with a claim gives one up
SignalInv ==
    /\ WatchersCounted /\ NothingLost
    /\ \A t \in Tasks : pc[t] \in Before => told[t] = 0
    /\ \A t \in Keepers : pc[t] # "drop"

\* What one task more or less changes a count by
One(p) == IF p THEN 1 ELSE 0

-----------------------------------------------------------------------------
(* The wrapping count.                                                     *)

\* A remainder by the width, for the numbers the two counts can differ by
LEMMA Wraps ==
    ASSUME NEW x \in Int
    PROVE  /\ x % Width \in 0..(Width - 1)
           /\ x \in 0..(Width - 1) => x % Width = x
           /\ x \in (-Width)..(-1) => x % Width = x + Width
           /\ x = Width => x % Width = 0
<1>1. Width \in Nat \ {0}
  BY SignalAssumption
<1> QED  BY <1>1, SMT

\* How far apart two counts are
LEMMA Apart ==
    ASSUME NEW c \in 0..(Width - 1), NEW s \in 0..Width
    PROVE  (c - s) % Width = IF c < s THEN c - s + Width ELSE c - s
<1>1. Width \in Nat \ {0}
  BY SignalAssumption
<1> DEFINE x == c - s
<1>2. x \in Int /\ (c < s => x \in (-Width)..(-1)) /\ (~(c < s) => x \in 0..(Width - 1))
  BY <1>1
<1> HIDE DEF x
<1>3. (c < s => x % Width = x + Width) /\ (~(c < s) => x % Width = x)
  BY <1>2, Wraps
<1> QED  BY <1>3 DEF x

\* One more delivery is one more to tell, while fewer than Width - 1 are untold
LEMMA OneMore ==
    ASSUME NEW c \in 0..(Width - 1), NEW s \in 0..(Width - 1), (c - s) % Width < Width - 1
    PROVE  (((c + 1) % Width) - s) % Width = ((c - s) % Width) + 1
<1>1. Width \in Nat \ {0}
  BY SignalAssumption
<1>2. (c - s) % Width = IF c < s THEN c - s + Width ELSE c - s
  BY Apart, <1>1
<1>3. CASE c = Width - 1
  <2>1. (c + 1) % Width = 0
    BY <1>1, <1>3, Wraps
  <2>2. (0 - s) % Width = IF 0 < s THEN 0 - s + Width ELSE 0 - s
    BY <1>1, Apart
  <2> QED  BY <1>1, <1>2, <1>3, <2>1, <2>2
<1>4. CASE c # Width - 1
  <2>1. (c + 1) % Width = c + 1 /\ c + 1 \in 0..(Width - 1)
    BY <1>1, <1>4, Wraps
  <2>2. (c + 1 - s) % Width = IF c + 1 < s THEN c + 1 - s + Width ELSE c + 1 - s
    BY <1>1, <2>1, Apart
  <2> QED  BY <1>1, <1>2, <1>4, <2>1, <2>2
<1> QED  BY <1>3, <1>4

-----------------------------------------------------------------------------
(* The claims.                                                             *)

LEMMA ClaimsFinite == IsFiniteSet(Claims) /\ Cardinality(Claims) \in Nat
<1>1. Claims \in SUBSET Droppers
  BY DEF Claims
<1> QED  BY <1>1, SignalAssumption, FS_Subset, FS_CardinalityType

\* A step that moves one task changes the number of claims by that task's own
LEMMA ClaimsStep ==
    ASSUME SignalTypeOK, NEW a \in Actors, \A b \in Actors \ {a} : pc'[b] = pc[b]
    PROVE  Cardinality(Claims') = Cardinality(Claims) + One(a \in Claims') - One(a \in Claims)
<1>1. Claims' \ {a} = Claims \ {a}
  BY DEF Claims, Actors, Tasks
<1>2. /\ IsFiniteSet(Claims \ {a}) /\ Cardinality(Claims \ {a}) \in Nat
      /\ Cardinality(Claims \ {a}) = Cardinality(Claims) - One(a \in Claims)
  BY ClaimsFinite, FS_RemoveElement, FS_CardinalityType DEF One
<1>3. CASE a \in Claims'
  <2>1. Claims' = (Claims \ {a}) \cup {a} /\ a \notin Claims \ {a}
    BY <1>1, <1>3
  <2>2. Cardinality(Claims') = Cardinality(Claims \ {a}) + 1
    BY <1>2, <2>1, FS_AddElement
  <2> QED  BY <1>2, <1>3, <2>2, ClaimsFinite DEF One
<1>4. CASE a \notin Claims'
  <2>1. Claims' = Claims \ {a}
    BY <1>1, <1>4
  <2> QED  BY <1>2, <1>4, <2>1, ClaimsFinite DEF One
<1> QED  BY <1>3, <1>4

\* Whoever holds a claim is counted
LEMMA ClaimCounted ==
    ASSUME WatchersCounted, NEW t \in Claims
    PROVE  WATCHERS \in Nat \ {0}
<1>1. Cardinality(Claims) # 0
  BY ClaimsFinite, FS_EmptySet
<1> QED  BY <1>1, ClaimsFinite DEF WatchersCounted

\* A step that moves task a and accounts for its claim keeps the count exact
LEMMA CountStep ==
    ASSUME WatchersCounted, SignalTypeOK', NEW a \in Actors, NEW p, Go(a, p),
           WATCHERS' = WATCHERS + One(a \in Claims') - One(a \in Claims)
    PROVE  WatchersCounted'
<1>1. \A b \in Actors \ {a} : pc'[b] = pc[b]
  BY DEF Go, WatchersCounted, SignalTypeOK
<1>2. SignalTypeOK /\ WATCHERS = Cardinality(Claims)
  BY DEF WatchersCounted
<1>3. Cardinality(Claims') = Cardinality(Claims) + One(a \in Claims') - One(a \in Claims)
  BY <1>1, <1>2, ClaimsStep
<1> QED  BY <1>2, <1>3 DEF WatchersCounted

-----------------------------------------------------------------------------
LEMMA InitSignal == SignalInit => SignalInv
<1> SUFFICES ASSUME SignalInit PROVE SignalInv
  OBVIOUS
<1>1. SignalTypeOK
  <2>1. 0 \in 0..(Width - 1)
    BY SignalAssumption
  <2> QED  BY <2>1 DEF SignalInit, SignalTypeOK
<1>2. Claims = {}
  BY DEF SignalInit, Claims, Actors, Tasks
<1>3. WatchersCounted
  BY <1>1, <1>2, FS_EmptySet DEF WatchersCounted, SignalInit
<1> QED  BY <1>3 DEF SignalInv, NothingLost, SignalInit, Actors, Tasks, Before

\* Steps that only take the task, or the releasing caller, to where it was not
\* counting and told nothing
LEMMA QuietStep ==
    ASSUME SignalInv, SignalTypeOK', NEW a \in Actors, NEW p, Go(a, p),
           UNCHANGED <<COUNTS, seen, start, told, counted>>,
           p # "watching", p \in Before => pc[a] \in Before, p = "drop" => a \in Droppers,
           WATCHERS' = WATCHERS + One(a \in Claims') - One(a \in Claims)
    PROVE  SignalInv'
<1>1. WatchersCounted /\ SignalTypeOK
  BY DEF SignalInv, WatchersCounted
<1>2. WatchersCounted'
  BY <1>1, CountStep
<1>3. \A t \in Tasks : pc'[t] = (IF t = a THEN p ELSE pc[t])
  BY <1>1 DEF Go, SignalTypeOK, Actors
<1>4. NothingLost'
  BY <1>3 DEF SignalInv, NothingLost
<1>5. \A t \in Tasks : pc'[t] \in Before => told'[t] = 0
  BY <1>3 DEF SignalInv
<1>6. \A t \in Keepers : pc'[t] # "drop"
  BY <1>3, SignalAssumption DEF SignalInv, Tasks
<1> QED  BY <1>2, <1>4, <1>5, <1>6 DEF SignalInv

LEMMA NextSignal == SignalInv /\ [SignalNext]_signalVars => SignalInv'
<1> SUFFICES ASSUME SignalInv, [SignalNext]_signalVars
             PROVE  SignalInv'
  OBVIOUS
<1>1. SignalTypeOK /\ WatchersCounted /\ NothingLost
  BY DEF SignalInv, WatchersCounted
<1>2. \A t \in Tasks : t \in Actors /\ t # Caller /\ (t \in Droppers <=> t \notin Keepers)
  BY SignalAssumption DEF Actors, Tasks
<1>3. Caller \in Actors /\ Caller \notin Droppers /\ Width \in Nat \ {0}
  BY SignalAssumption DEF Actors, Tasks
<1>4. ASSUME NEW t \in Tasks, Catch(t)
      PROVE  SignalInv'
  <2>1. SignalTypeOK'
    BY <1>1, <1>2, <1>4 DEF SignalTypeOK, Catch, Go
  <2>2. WATCHERS' = WATCHERS + One(t \in Claims') - One(t \in Claims)
    BY <1>1, <1>2, <1>4 DEF SignalTypeOK, Catch, Go, Claims, One
  <2> QED  BY <1>2, <1>4, <2>1, <2>2, QuietStep DEF Catch, Before
<1>5. ASSUME NEW t \in Tasks,
             \/ InstallSwap(t) \/ InstallHandler(t) \/ InstallFails(t)
             \/ DropTask(t) \/ DropWatcher(t) \/ CheckHeld(t)
      PROVE  SignalInv'
  <2> DEFINE p == pc'[t]
  <2>1. pc[t] = "drop" => t \in Droppers /\ WATCHERS \in Nat \ {0}
    BY <1>1, <1>2, ClaimCounted DEF Claims, SignalInv
  <2>2. /\ Go(t, p) /\ p # "watching" /\ (p \in Before => pc[t] \in Before)
        /\ p = "drop" => t \in Droppers
    BY <1>1, <1>2, <1>5
    DEF SignalTypeOK, InstallSwap, InstallHandler, InstallFails, DropTask, DropWatcher, CheckHeld, Go, Before
  <2>3. UNCHANGED <<COUNTS, seen, start, told, counted>>
    BY <1>5 DEF InstallSwap, InstallHandler, InstallFails, DropTask, DropWatcher, CheckHeld
  <2>4. SignalTypeOK'
    <3>1. CASE DropWatcher(t)
      BY <1>1, <1>2, <2>1, <3>1 DEF SignalTypeOK, DropWatcher, Go
    <3>2. CASE InstallSwap(t) \/ InstallHandler(t) \/ InstallFails(t)
      BY <1>1, <1>2, <3>2 DEF SignalTypeOK, InstallSwap, InstallHandler, InstallFails, Go
    <3>3. CASE DropTask(t) \/ CheckHeld(t)
      BY <1>1, <1>2, <3>3 DEF SignalTypeOK, DropTask, CheckHeld, Go, words
    <3> QED  BY <1>5, <3>1, <3>2, <3>3
  <2>5. WATCHERS' = WATCHERS + One(t \in Claims') - One(t \in Claims)
    <3>1. CASE DropWatcher(t)
      BY <1>1, <1>2, <2>1, <3>1 DEF SignalTypeOK, DropWatcher, Go, Claims, One
    <3> QED  BY <1>1, <1>2, <1>5, <2>1, <3>1
    DEF SignalTypeOK, InstallSwap, InstallHandler, InstallFails, DropTask, CheckHeld, Go, Claims, One, words
  <2> HIDE DEF p
  <2> QED  BY <1>2, <2>2, <2>3, <2>4, <2>5, QuietStep
<1>6. ASSUME NEW a \in Actors, RestoreSwap(a) \/ RestoreDefault(a) \/ (a = Caller /\ Release)
      PROVE  SignalInv'
  <2> DEFINE p == pc'[a]
  <2>1. /\ Go(a, p) /\ p # "watching" /\ p \notin Before /\ p # "drop"
        /\ a \notin Claims /\ a \notin Claims'
    BY <1>1, <1>3, <1>6 DEF SignalTypeOK, RestoreSwap, RestoreDefault, Release, Go, Before, Claims
  <2>2. SignalTypeOK' /\ WATCHERS' = WATCHERS
    BY <1>1, <1>6 DEF SignalTypeOK, RestoreSwap, RestoreDefault, Release, Go
  <2>3. UNCHANGED <<COUNTS, seen, start, told, counted>>
    BY <1>6 DEF RestoreSwap, RestoreDefault, Release
  <2>4. WATCHERS' = WATCHERS + One(a \in Claims') - One(a \in Claims)
    BY <1>1, <2>1, <2>2 DEF One, SignalTypeOK
  <2> HIDE DEF p
  <2> QED  BY <2>1, <2>2, <2>3, <2>4, QuietStep
<1>7. ASSUME NEW t \in Tasks, BeginCount(t)
      PROVE  SignalInv'
  <2>1. SignalTypeOK'
    BY <1>1, <1>2, <1>7 DEF SignalTypeOK, BeginCount, Go, words
  <2>2. WATCHERS' = WATCHERS + One(t \in Claims') - One(t \in Claims)
    BY <1>1, <1>2, <1>7 DEF SignalTypeOK, BeginCount, Go, Claims, One, words
  <2>3. WatchersCounted'
    BY <1>1, <1>2, <1>7, <2>1, <2>2, CountStep DEF BeginCount
  <2>4. (COUNTS - COUNTS) % Width = 0
    BY <1>1, <1>3, Apart DEF SignalTypeOK
  <2>5. NothingLost'
    BY <1>1, <1>2, <1>7, <2>4 DEF NothingLost, BeginCount, Go, SignalTypeOK, SignalInv, Before, words
  <2> QED  BY <1>1, <1>2, <1>7, <2>3, <2>5 DEF SignalInv, BeginCount, Go, Before, SignalTypeOK, Tasks
<1>8. ASSUME NEW t \in Tasks, Advance(t)
      PROVE  SignalInv'
  <2>1. (COUNTS - seen[t]) % Width \in Nat /\ (COUNTS - COUNTS) % Width = 0
    BY <1>1, <1>3, Wraps, Apart DEF SignalTypeOK
  <2>2. SignalTypeOK'
    BY <1>1, <1>8, <2>1 DEF SignalTypeOK, Advance, words
  <2>3. WatchersCounted'
    BY <1>1, <1>8, <2>2 DEF WatchersCounted, Claims, Advance, words
  <2>4. NothingLost'
    BY <1>1, <1>8, <2>1 DEF NothingLost, Advance, SignalTypeOK, words
  <2> QED  BY <1>1, <1>8, <2>3, <2>4 DEF SignalInv, Advance, Before, SignalTypeOK
<1>9. ASSUME NEW t \in Tasks, NEW u \in Tasks, CloneTask(t, u)
      PROVE  SignalInv'
  <2>1. SignalTypeOK'
    BY <1>1, <1>2, <1>9 DEF SignalTypeOK, CloneTask, Go
  <2>2. WATCHERS' = WATCHERS + One(u \in Claims') - One(u \in Claims)
    BY <1>1, <1>2, <1>9 DEF SignalTypeOK, CloneTask, Go, Claims, One
  <2>3. WatchersCounted'
    BY <1>1, <1>2, <1>9, <2>1, <2>2, CountStep DEF CloneTask
  <2>4. NothingLost'
    BY <1>1, <1>2, <1>9 DEF NothingLost, CloneTask, Go, SignalTypeOK
  <2> QED  BY <1>1, <1>2, <1>9, <2>3, <2>4 DEF SignalInv, CloneTask, Go, Before, SignalTypeOK, Tasks
<1>10. CASE Deliver
  <2>1. SignalTypeOK'
    BY <1>1, <1>3, <1>10, Wraps DEF SignalTypeOK, Deliver, words
  <2>2. WatchersCounted'
    BY <1>1, <1>10, <2>1 DEF WatchersCounted, Claims, Deliver, words
  <2>3. ASSUME NEW t \in Tasks, pc[t] = "watching"
        PROVE  told[t] + ((COUNTS' - seen[t]) % Width) = counted' - start[t]
    <3> DEFINE d == (COUNTS - seen[t]) % Width
    <3>1. d \in Nat /\ told[t] + d = counted - start[t] /\ counted - start[t] - told[t] < Width - 1
      <4>1. COUNTS - seen[t] \in Int
        BY <1>1, <1>3 DEF SignalTypeOK
      <4>2. d \in Nat
        BY <1>3, <4>1, Wraps
      <4> QED  BY <1>1, <1>10, <2>3, <4>2 DEF NothingLost, Deliver
    <3>2. d < Width - 1
      BY <1>1, <1>3, <3>1 DEF SignalTypeOK
    <3>3. (COUNTS' - seen[t]) % Width = d + 1
      <4>1. COUNTS \in 0..(Width - 1) /\ seen[t] \in 0..(Width - 1) /\ COUNTS' = (COUNTS + 1) % Width
        BY <1>1, <1>10 DEF SignalTypeOK, Deliver
      <4> QED  BY <3>2, <4>1, OneMore
    <3> HIDE DEF d
    <3> QED  BY <1>1, <1>10, <3>1, <3>3 DEF SignalTypeOK, Deliver
  <2>4. NothingLost'
    BY <1>10, <2>3 DEF NothingLost, Deliver
  <2> QED  BY <1>10, <2>2, <2>4 DEF SignalInv, Deliver
<1>11. CASE UNCHANGED signalVars
  BY <1>11 DEF signalVars, words, SignalInv, WatchersCounted, NothingLost, Claims, SignalTypeOK
<1> QED  BY <1>3, <1>4, <1>5, <1>6, <1>7, <1>8, <1>9, <1>10, <1>11 DEF SignalNext, WatchStep

\* The types hold, and WATCHERS is the number of live claims: every copy of a task
\* with `SignalReleasePolicy::OnDrop` has one, and gives it up once (`Watcher`)
THEOREM SignalCounted == SignalSpec => []WatchersCounted
<1>1. SignalInv => WatchersCounted
  BY DEF SignalInv
<1> QED  BY <1>1, InitSignal, NextSignal, PTL DEF SignalSpec

\* `SignalTask::advance` reports every delivery counted since the task began, however
\* often the count wraps
THEOREM SignalsTold == SignalSpec => []NothingLost
<1>1. SignalInv => NothingLost
  BY DEF SignalInv
<1> QED  BY <1>1, InitSignal, NextSignal, PTL DEF SignalSpec

=============================================================================
