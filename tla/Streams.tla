------------------------------ MODULE Streams ------------------------------
(***************************************************************************)
(* An open byte stream and the tasks that use it: net/stream.rs over a     *)
(* TCP or Unix socket, a child's pipe, or a TLS session                    *)
(* (tls/connection.rs).                                                    *)
(*                                                                         *)
(* A byte the other side sends is its place in what that side says, and a  *)
(* byte sent to it is <<send, place>>, so both directions can be compared  *)
(* with what was meant to cross. Each call to Source::read, write or flush *)
(* is one step: the kernel call, or the session's mutex, makes it one. The *)
(* other side, the other direction and a cancel go between any two.        *)
(*                                                                         *)
(* A receive or a send that parks is woken by the socket (Parks has the    *)
(* park itself). Receives run one after the other, as the connection's     *)
(* documentation asks, and so do sends. Sockets opens the connection and   *)
(* puts the steps here together with its own.                              *)
(***************************************************************************)
EXTENDS Integers, Sequences, FiniteSets

CONSTANTS
    Chunk,         \* FILE_CHUNK: the most one read or write asks for
    Budget,        \* STEP_BUDGET: what one turn moves before it parks
    Room,          \* what the socket's send buffer holds
    Held,          \* what a TLS session holds unsent before it takes no more
    Drains,        \* DRAIN_READS: the most reads of a TLS socket that is let go of
    Scenes         \* what the connection carries and what goes wrong

ASSUME StreamAssumption ==
    /\ Chunk \in Nat \ {0} /\ Budget \in Nat \ {0}
    /\ Room \in Nat \ {0} /\ Held \in Nat \ {0} /\ Drains \in Nat

VARIABLES
    scene,      \* the scenario this behaviour follows
    conn,       \* the connection: not there yet, open, or closed
    wire,       \* bytes that have arrived and nobody has read
    told,       \* how many bytes the other side has sent that still count
    fate,       \* how the other side's stream stands
    clear,      \* TLS: decrypted bytes the session is holding
    leftover,   \* Pipe::leftover
    rd,         \* the receives
    wr,         \* the sends
    pend,       \* TLS: encrypted bytes the session has not sent
    sock,       \* bytes in the socket the other side has not taken
    shut,       \* SHUT_WR has been called
    heard,      \* every byte the other side has taken
    spilt       \* bytes of an output a stop threw away

inVars == <<wire, told, fate, clear, leftover, rd, spilt>>
outVars == <<wr, pend, sock, shut>>
vars == <<scene, conn, wire, told, fate, clear, leftover, rd, wr, pend, sock, shut, heard, spilt>>

Least(a, b) == IF a < b THEN a ELSE b
Takes(s, n) == SubSeq(s, 1, n)
Drops(s, n) == SubSeq(s, n + 1, Len(s))

\* The close_notify a TLS session ends with
Bye == <<0, 0>>

\* The delimiter every recv_until here looks for
Delimiter == <<"c", "n">>

Receive == [at |-> "new", on |-> "none", got |-> <<>>, searched |-> 0, moved |-> 0,
            stopped |-> FALSE, ends |-> "none", out |-> <<>>]

Send == [at |-> "new", sent |-> 0, moved |-> 0, said |-> FALSE, stopped |-> FALSE, ends |-> "none"]

Reads == 1..Len(scene.reads)
Writes == 1..Len(scene.writes)

StreamInit ==
    /\ wire = <<>> /\ told = 0 /\ fate = "open" /\ clear = <<>> /\ leftover = <<>>
    /\ rd = [i \in 1..Len(scene.reads) |-> Receive]
    /\ wr = [j \in 1..Len(scene.writes) |-> Send]
    /\ pend = <<>> /\ sock = <<>> /\ shut = FALSE /\ heard = <<>> /\ spilt = <<>>

----------------------------------------------------------------------------
(* Receiving. *)

Want(i) == scene.reads[i]

\* Mutant: a receive asks for less than a record holds, so a turn can end with
\* bytes in the session and none in the socket
RoomForOne(i) ==
    LET left == Want(i).n - Len(rd[i].got)
    IN  IF Want(i).op \in {"some", "exact"} THEN Least(left, 1) ELSE 1

\* What a receive may ask for in one read, which is never less than the session has
\* decrypted unless that is all it wants
RoomFor(i) ==
    LET left == Want(i).n - Len(rd[i].got)
    IN  IF Want(i).op \in {"some", "exact"} THEN Least(left, Chunk) ELSE Chunk

\* The step is done: the output is published, unless a stop has settled the task
\* first, when the slot drops it
Done(i, bytes) ==
    /\ rd' = [rd EXCEPT ![i].at = "over", ![i].got = <<>>,
                        ![i].out = IF rd[i].stopped THEN <<>> ELSE bytes,
                        ![i].ends = IF rd[i].stopped THEN @ ELSE "ok"]
    /\ spilt' = IF rd[i].stopped THEN spilt \o bytes ELSE spilt

\* put_front, and what settle_recv and Drop do with it
PutBack(i, bytes) == leftover' = bytes \o leftover

Failed(i, why) ==
    /\ PutBack(i, rd[i].got)
    /\ rd' = [rd EXCEPT ![i].at = "over", ![i].got = <<>>,
                        ![i].ends = IF rd[i].stopped THEN @ ELSE why]
    /\ UNCHANGED spilt

ParkOn(i, filter) ==
    /\ rd' = [rd EXCEPT ![i].at = "parked", ![i].on = filter, ![i].moved = 0]
    /\ UNCHANGED spilt

\* The receive before it is out of the way: over, or for a caller that does not
\* wait for that, only known to have ended
Clear(i) == \A k \in 1..(i - 1) : rd[k].at = "over" \/ (scene.eager /\ rd[k].ends # "none")

\* A request stopped while it runs goes on until its next park
Halted == scene.request /\ wr[1].stopped

\* prepare and the first look: everything left over that the receive may have
StartRead(i) ==
    /\ conn = "open" /\ rd[i].at = "new" /\ Clear(i)
    /\ scene.request => wr[1].ends = "ok"
    /\ LET want == Want(i)
           n == IF want.op \in {"some", "exact"} THEN Least(want.n, Len(leftover)) ELSE Len(leftover)
       IN  \/ /\ want.op \in {"some", "exact"} /\ want.n = 0
              /\ Done(i, <<>>)
              /\ UNCHANGED leftover
           \/ /\ ~(want.op \in {"some", "exact"} /\ want.n = 0)
              /\ leftover # <<>> /\ want.op = "some"
              /\ Done(i, Takes(leftover, n))
              /\ leftover' = Drops(leftover, n)
           \/ /\ ~(want.op \in {"some", "exact"} /\ want.n = 0)
              /\ leftover = <<>> \/ want.op # "some"
              /\ rd' = [rd EXCEPT ![i].at = "look", ![i].got = Takes(leftover, n), ![i].stopped = Halted,
                                  ![i].ends = IF Halted THEN "stopped" ELSE @]
              /\ leftover' = Drops(leftover, n)
              /\ UNCHANGED spilt
    /\ UNCHANGED <<scene, conn, wire, told, fate, clear, heard>> /\ UNCHANGED outVars

\* Where the delimiter starts in what has been read, looking from `from`
Founds(got, from) ==
    {p \in (from + 1)..(Len(got) - 1) :
        scene.script[got[p]] = Delimiter[1] /\ scene.script[got[p + 1]] = Delimiter[2]}

\* Mutant: the search is not backed up over the end of the last read
FromAhead(i) == rd[i].searched

\* Where to look from: one short of what has been searched, for a delimiter that
\* came in two reads
From(i) == IF rd[i].searched = 0 THEN 0 ELSE rd[i].searched - 1

\* Whether what has been read is enough, and whether this turn has done enough
Look(i) ==
    /\ rd[i].at = "look"
    /\ LET want == Want(i)
           got == rd[i].got
           found == Founds(got, From(i))
           at == CHOOSE p \in found : \A q \in found : p <= q
           enough == CASE want.op \in {"some", "exact"} -> Len(got) >= want.n
                       [] want.op = "until" -> found # {} \/ Len(got) >= want.n
                       [] want.op = "toend" -> FALSE
       IN  \/ /\ enough /\ want.op # "until"
              /\ Done(i, got) /\ UNCHANGED leftover
           \/ /\ enough /\ want.op = "until" /\ found # {} /\ at + 1 <= want.n
              /\ Done(i, Takes(got, at + 1)) /\ PutBack(i, Drops(got, at + 1))
           \/ /\ enough /\ want.op = "until" /\ ~(found # {} /\ at + 1 <= want.n)
              /\ Failed(i, "toolong")
           \/ /\ ~enough /\ rd[i].moved >= Budget /\ want.op = "some"
              /\ Done(i, got) /\ UNCHANGED leftover
           \/ /\ ~enough /\ rd[i].moved >= Budget /\ want.op # "some"
              /\ rd' = [rd EXCEPT ![i].at = "parked", ![i].on = "read", ![i].moved = 0, ![i].searched = Len(got)]
              /\ UNCHANGED <<leftover, spilt>>
           \/ /\ ~enough /\ rd[i].moved < Budget
              /\ rd' = [rd EXCEPT ![i].at = "read", ![i].searched = Len(got)]
              /\ UNCHANGED <<leftover, spilt>>
    /\ UNCHANGED <<scene, conn, wire, told, fate, clear, heard>> /\ UNCHANGED outVars

\* What a receive does with the answer of one read
Moved(i, bytes) ==
    /\ rd' = [rd EXCEPT ![i].at = "look", ![i].got = @ \o bytes, ![i].moved = @ + Len(bytes)]
    /\ UNCHANGED <<leftover, spilt>>

\* The stream ended cleanly
Closed(i) ==
    IF Want(i).op \in {"some", "toend"}
    THEN Done(i, rd[i].got) /\ UNCHANGED leftover
    ELSE Failed(i, "closed")

\* Nothing to read yet: a recv hands back what it has, and anything else waits
Wait(i, filter) ==
    /\ IF Want(i).op = "some" /\ rd[i].got # <<>> THEN Done(i, rd[i].got) ELSE ParkOn(i, filter)
    /\ UNCHANGED leftover

\* read_raw and read_pipe
ReadRaw(i) ==
    /\ rd[i].at = "read" /\ ~scene.tls
    /\ LET n == Least(RoomFor(i), Len(wire))
       IN  \/ fate # "reset" /\ wire # <<>> /\ Moved(i, Takes(wire, n)) /\ wire' = Drops(wire, n)
           \/ fate # "reset" /\ wire = <<>> /\ fate # "open" /\ Closed(i) /\ UNCHANGED wire
           \/ fate = "open" /\ wire = <<>> /\ Wait(i, "read") /\ UNCHANGED wire
           \/ fate = "reset" /\ Failed(i, "failed") /\ UNCHANGED wire
    /\ UNCHANGED <<scene, conn, told, fate, clear, heard>> /\ UNCHANGED outVars

\* send_pending: as much of what the session owes as the socket takes
Pushed == Least(Len(pend), Room - Len(sock))

\* TlsConnection::read, all of it under the session's mutex. What is already
\* decrypted goes first, then what the session owes, then the socket
ReadTls(i) ==
    /\ rd[i].at = "read" /\ scene.tls
    /\ \/ \* Already decrypted
          /\ clear # <<>>
          /\ LET n == Least(RoomFor(i), Len(clear))
             IN  Moved(i, Takes(clear, n)) /\ clear' = Drops(clear, n)
          /\ UNCHANGED <<wire, pend, sock, fate>>
       \/ \* The close_notify has been read
          /\ clear = <<>> /\ fate = "closed"
          /\ Closed(i)
          /\ UNCHANGED <<wire, clear, pend, sock, fate>>
       \/ \* The socket fails under either half
          /\ clear = <<>> /\ fate = "reset"
          /\ Failed(i, "failed")
          /\ UNCHANGED <<wire, clear, pend, sock, fate>>
       \/ \* The session owes more than the socket takes
          /\ clear = <<>> /\ fate \notin {"reset", "closed"} /\ Pushed < Len(pend)
          /\ sock' = sock \o Takes(pend, Pushed) /\ pend' = Drops(pend, Pushed)
          /\ Wait(i, "write")
          /\ UNCHANGED <<wire, clear, fate>>
       \/ \* One read of the socket, decrypted and handed on
          /\ clear = <<>> /\ fate # "reset" /\ Pushed = Len(pend) /\ wire # <<>>
          /\ \E k \in 1..Least(Chunk, Len(wire)) :
                /\ LET n == Least(RoomFor(i), k)
                   IN  Moved(i, Takes(wire, n)) /\ clear' = SubSeq(wire, n + 1, k)
                /\ wire' = Drops(wire, k)
          /\ sock' = sock \o pend /\ pend' = <<>>
          /\ UNCHANGED fate
       \/ \* Nothing there yet
          /\ clear = <<>> /\ fate = "open" /\ Pushed = Len(pend) /\ wire = <<>>
          /\ sock' = sock \o pend /\ pend' = <<>>
          /\ Wait(i, "read")
          /\ UNCHANGED <<wire, clear, fate>>
       \/ \* The close_notify, which the session takes note of
          /\ clear = <<>> /\ fate = "close" /\ Pushed = Len(pend) /\ wire = <<>>
          /\ sock' = sock \o pend /\ pend' = <<>>
          /\ fate' = "closed"
          /\ Closed(i)
          /\ UNCHANGED <<wire, clear>>
       \/ \* Ended without a close_notify, which can only be a cut
          /\ clear = <<>> /\ fate = "cut" /\ Pushed = Len(pend) /\ wire = <<>>
          /\ sock' = sock \o pend /\ pend' = <<>>
          /\ Failed(i, "closed")
          /\ UNCHANGED <<wire, clear, fate>>
    /\ UNCHANGED <<scene, conn, told, heard, wr, shut>>

Writable == Len(sock) < Room \/ fate = "reset" \/ shut
Readable == wire # <<>> \/ fate # "open"

\* The socket is ready and the receive carries on, unless it was stopped
WakeRead(i) ==
    /\ rd[i].at = "parked" /\ ~rd[i].stopped
    /\ IF rd[i].on = "read" THEN Readable ELSE Writable
    /\ rd' = [rd EXCEPT ![i].at = "look", ![i].on = "none"]
    /\ UNCHANGED <<scene, conn, wire, told, fate, clear, leftover, spilt, heard>> /\ UNCHANGED outVars

\* A cancel settles the task before its park is found and taken down. A timeout
\* takes the park down first, so whatever it gives back is there for the next
StopRead(i) ==
    /\ i \in DOMAIN scene.stops /\ rd[i].ends = "none" /\ rd[i].at \notin {"new", "over"}
    /\ IF scene.stops[i] = "timeout" /\ rd[i].at = "parked"
       THEN Failed(i, "stopped")
       ELSE /\ rd' = [rd EXCEPT ![i].stopped = TRUE, ![i].ends = "stopped"]
            /\ UNCHANGED <<leftover, spilt>>
    /\ UNCHANGED <<scene, conn, wire, told, fate, clear, heard>> /\ UNCHANGED outVars

\* Mutant: a receive that is dropped keeps what it read
DropReadKeeping(i) ==
    /\ rd[i].at = "parked" /\ rd[i].stopped
    /\ rd' = [rd EXCEPT ![i].at = "over", ![i].got = <<>>]
    /\ UNCHANGED <<scene, conn, wire, told, fate, clear, leftover, spilt, heard>> /\ UNCHANGED outVars

\* A stopped task is dropped where it is parked
DropRead(i) ==
    /\ rd[i].at = "parked" /\ rd[i].stopped
    /\ Failed(i, "stopped")
    /\ UNCHANGED <<scene, conn, wire, told, fate, clear, heard>> /\ UNCHANGED outVars

ReadStep(i) == StartRead(i) \/ Look(i) \/ ReadRaw(i) \/ ReadTls(i) \/ WakeRead(i) \/ DropRead(i)

----------------------------------------------------------------------------
(* Sending. *)

Size(j) == scene.writes[j].n
Bytes(j) == [k \in 1..Size(j) |-> <<j, k>>]

\* What a send came to is read by nobody once it is stopped, but by the request it is
\* a part of
SendOver(j, why) ==
    wr' = [wr EXCEPT ![j].at = "over",
                     ![j].ends = IF wr[j].stopped /\ (scene.request => why # "ok") THEN @ ELSE why]

SendParks(j) == wr' = [wr EXCEPT ![j].at = "parked", ![j].moved = 0]

\* prepare, and the first turn of a SendTask or a FinishTask
StartWrite(j) ==
    /\ conn = "open" /\ wr[j].at = "new" /\ (\A k \in 1..(j - 1) : wr[k].at = "over")
    /\ wr' = [wr EXCEPT ![j].at = IF scene.writes[j].op = "finish" THEN "goodbye" ELSE "write"]
    /\ UNCHANGED <<scene, conn, pend, sock, shut, heard>> /\ UNCHANGED inVars

\* One turn of SendTask's loop: write_raw, write_pipe or TlsConnection::write,
\* which hands the session what it can take and the socket what it can
Write(j) ==
    /\ wr[j].at = "write"
    /\ LET want == Least(Size(j) - wr[j].sent, Chunk)
           pend1 == Drops(pend, Pushed)
           put == IF scene.tls THEN Least(want, Held - Len(pend1)) ELSE Least(want, Room - Len(sock))
           all == pend1 \o SubSeq(Bytes(j), wr[j].sent + 1, wr[j].sent + put)
           sock1 == sock \o Takes(pend, Pushed)
           fits == Least(Len(all), Room - Len(sock1))
       IN  \/ \* Handed over, which is not sent until nothing is held back
              /\ wr[j].sent = Size(j)
              /\ wr' = [wr EXCEPT ![j].at = "flush"]
              /\ UNCHANGED <<pend, sock>>
           \/ \* Enough for one turn
              /\ wr[j].sent < Size(j) /\ wr[j].moved >= Budget
              /\ SendParks(j)
              /\ UNCHANGED <<pend, sock>>
           \/ /\ wr[j].sent < Size(j) /\ wr[j].moved < Budget
              /\ fate = "reset" \/ shut
              /\ SendOver(j, "failed")
              /\ UNCHANGED <<pend, sock>>
           \/ /\ wr[j].sent < Size(j) /\ wr[j].moved < Budget
              /\ fate # "reset" /\ ~shut
              /\ sock' = sock1 \o Takes(all, fits) /\ pend' = Drops(all, fits)
              /\ IF put = 0 THEN SendParks(j)
                 ELSE wr' = [wr EXCEPT ![j].sent = @ + put, ![j].moved = @ + put]
    /\ UNCHANGED <<scene, conn, shut, heard>> /\ UNCHANGED inVars

\* Source::flush, at the end of a send and before a shutdown
Flush(j) ==
    /\ wr[j].at = "flush"
    /\ LET next == IF scene.writes[j].op = "finish" THEN [wr EXCEPT ![j].at = "shut"] ELSE wr
       IN  \/ /\ pend # <<>> /\ (fate = "reset" \/ shut)
              /\ SendOver(j, "failed") /\ UNCHANGED <<pend, sock>>
           \/ /\ ~(pend # <<>> /\ (fate = "reset" \/ shut))
              /\ sock' = sock \o Takes(pend, Pushed) /\ pend' = Drops(pend, Pushed)
              /\ IF Pushed < Len(pend) THEN SendParks(j)
                 ELSE IF scene.writes[j].op = "finish" THEN wr' = next
                 ELSE SendOver(j, "ok")
    /\ UNCHANGED <<scene, conn, shut, heard>> /\ UNCHANGED inVars

\* FinishTask: a TLS session says goodbye once
Goodbye(j) ==
    /\ wr[j].at = "goodbye"
    /\ pend' = IF scene.tls /\ ~wr[j].said THEN Append(pend, Bye) ELSE pend
    /\ wr' = [wr EXCEPT ![j].at = "flush", ![j].said = TRUE]
    /\ UNCHANGED <<scene, conn, sock, shut, heard>> /\ UNCHANGED inVars

\* shutdown(SHUT_WR)
Shut(j) ==
    /\ wr[j].at = "shut"
    /\ IF fate = "reset" THEN SendOver(j, "closed") /\ UNCHANGED shut
       ELSE SendOver(j, "ok") /\ shut' = TRUE
    /\ UNCHANGED <<scene, conn, pend, sock, heard>> /\ UNCHANGED inVars

WakeWrite(j) ==
    /\ wr[j].at = "parked" /\ ~wr[j].stopped /\ Writable
    /\ wr' = [wr EXCEPT ![j].at = IF scene.writes[j].op = "finish" THEN "goodbye" ELSE "write"]
    /\ UNCHANGED <<scene, conn, pend, sock, shut, heard>> /\ UNCHANGED inVars

\* A send that is stopped leaves whatever it has handed over
StopWrite(j) ==
    /\ j \in scene.unsends /\ wr[j].ends = "none" /\ wr[j].at \notin {"new", "over"}
    /\ wr' = [wr EXCEPT ![j].stopped = TRUE, ![j].ends = "stopped"]
    /\ UNCHANGED <<scene, conn, pend, sock, shut, heard>> /\ UNCHANGED inVars

DropWrite(j) ==
    /\ wr[j].at = "parked" /\ wr[j].stopped
    /\ SendOver(j, "stopped")
    /\ UNCHANGED <<scene, conn, pend, sock, shut, heard>> /\ UNCHANGED inVars

WriteStep(j) == StartWrite(j) \/ Write(j) \/ Flush(j) \/ Goodbye(j) \/ Shut(j) \/ WakeWrite(j) \/ DropWrite(j)

----------------------------------------------------------------------------
(* The other side, and the end of the connection. *)

PeerSends ==
    /\ conn = "open" /\ fate = "open" /\ told < Len(scene.script)
    /\ told' = told + 1 /\ wire' = Append(wire, told + 1)
    /\ UNCHANGED <<scene, conn, fate, clear, leftover, rd, spilt, heard>> /\ UNCHANGED outVars

\* The other side ends its stream: once it has said everything, or at any moment
\* without a close_notify, or with a reset that takes what was unread with it
PeerEnds ==
    /\ conn = "open" /\ fate = "open" /\ scene.ending # "stay"
    /\ scene.ending = "close" => told = Len(scene.script)
    /\ fate' = scene.ending
    /\ IF scene.ending = "reset"
       THEN wire' = <<>> /\ told' = told - Len(wire) /\ sock' = <<>>
       ELSE UNCHANGED <<wire, told, sock>>
    /\ UNCHANGED <<scene, conn, clear, leftover, rd, spilt, wr, pend, shut, heard>>

PeerTakes ==
    /\ sock # <<>> /\ heard' = heard \o sock /\ sock' = <<>>
    /\ UNCHANGED <<scene, conn, wr, pend, shut>> /\ UNCHANGED inVars

ReadsOver == \A i \in Reads : rd[i].at = "over"
WritesOver == \A j \in Writes : wr[j].at = "over"

\* A request that could not send reads nothing
Over == WritesOver /\ (ReadsOver \/ (scene.request /\ wr[1].ends # "ok"))

Spoken == \E k \in 1..Len(heard \o sock \o pend) : (heard \o sock \o pend)[k] = Bye

\* The last reference goes. A TLS session takes what has arrived off the socket
\* and says goodbye as far as the socket takes it. A socket closed with something
\* unread resets, and what the other side had not taken goes with it
CloseConn ==
    /\ conn = "open" /\ Over
    /\ conn' = "closed"
    /\ LET left == IF scene.tls THEN Drops(wire, Least(Len(wire), Drains * Chunk)) ELSE wire
           owed == IF scene.tls /\ ~Spoken THEN Append(pend, Bye) ELSE pend
           fits == IF fate = "reset" \/ shut THEN 0 ELSE Least(Len(owed), Room - Len(sock))
       IN  /\ wire' = left
           /\ sock' = IF left # <<>> THEN <<>> ELSE sock \o Takes(owed, fits)
           /\ fate' = IF left # <<>> THEN "reset" ELSE fate
    /\ pend' = <<>>
    /\ UNCHANGED <<scene, told, clear, leftover, rd, spilt, wr, shut, heard>>

StreamStep ==
    \/ \E i \in Reads : ReadStep(i) \/ StopRead(i)
    \/ \E j \in Writes : WriteStep(j) \/ StopWrite(j)
    \/ PeerSends \/ PeerEnds \/ PeerTakes

=============================================================================
