------------------------------ MODULE Sockets ------------------------------
(***************************************************************************)
(* Opening connections: the connect, listen, bind and accept tasks of      *)
(* tcp_task.rs, unix_task.rs and udp_task.rs, the TLS handshake on top of  *)
(* them (tls_task.rs, handshake.rs), requests (net/exchange.rs), which     *)
(* connect, send and read to the end as one task over the stream of        *)
(* Streams, and datagrams (net/datagram.rs).                               *)
(*                                                                         *)
(* An address is what comes of trying it. A socket is named after the      *)
(* attempt that opened it, and is closed when the last thing holding it is *)
(* dropped.                                                                *)
(***************************************************************************)
EXTENDS Streams

CONSTANTS Flow        \* how many datagrams a socket's send buffer holds

\* What a scene asks for: connections to open, with what comes of each address and
\* how the other side of a handshake behaves, and datagrams. A request opens its own
Asks == [op : {"connect", "listen", "accept"},
         addrs : Seq({"none", "refused", "ok", "nameless", "slow", "late"}),
         tls : BOOLEAN, peer : {"good", "cut", "bad", "badname"}, full : BOOLEAN]
GramAsks == [op : {"recv", "peek", "udp", "unix"}, addrs : Seq(STRING), family : STRING]

ASSUME SocketAssumption ==
    /\ Flow \in Nat \ {0}
    /\ \A s \in Scenes :
          s.dials \in Seq(Asks) /\ s.grams \in Seq(GramAsks) /\ (s.request => s.dials # <<>>)

VARIABLES
    dl,         \* the tasks that open a connection
    open,       \* the sockets that are open
    backlog,    \* connections waiting to be accepted
    knocks,     \* how many have come
    dg,         \* the datagram tasks
    inbox,      \* datagrams that have arrived
    outbox      \* datagrams in the send buffer

dialVars == <<dl, open, backlog, knocks>>
gramVars == <<dg, inbox, outbox>>
sockVars == <<scene, conn, wire, told, fate, clear, leftover, rd, wr, pend, sock, shut, heard, spilt,
              dl, open, backlog, knocks, dg, inbox, outbox>>

None == <<0, 0>>

Dial == [at |-> "new", on |-> "none", next |-> 1, fd |-> None, failure |-> 0, turn |-> 1, flights |-> 0,
         stopped |-> FALSE, ends |-> "none", out |-> None]

Gram == [at |-> "new", dest |-> 0, stopped |-> FALSE, ends |-> "none", out |-> 0]

Dials == 1..Len(scene.dials)
Grams == 1..Len(scene.grams)

SocketInit ==
    /\ scene \in Scenes
    /\ conn = IF scene.dials = <<>> /\ scene.grams = <<>> THEN "open" ELSE "none"
    /\ StreamInit
    /\ dl = [i \in 1..Len(scene.dials) |-> Dial] /\ open = {}
    /\ backlog = <<>> /\ knocks = 0
    /\ dg = [i \in 1..Len(scene.grams) |-> Gram] /\ inbox = <<>> /\ outbox = <<>>

Ask(i) == scene.dials[i]

----------------------------------------------------------------------------
(* Connecting, listening and binding: each address in turn. *)

\* Dropping a socket closes it
Closing(fd) == open' = open \ {fd}

DialFails(i, why) ==
    /\ Closing(dl[i].fd)
    /\ dl' = [dl EXCEPT ![i].at = "over", ![i].fd = None,
                        ![i].ends = IF dl[i].stopped THEN @ ELSE why]

DialParks(i, filter, back) == dl' = [dl EXCEPT ![i].at = back, ![i].on = filter]

\* resolve, or the first look at the listener
StartDial(i) ==
    /\ dl[i].at = "new"
    /\ dl' = [dl EXCEPT ![i].at = IF Ask(i).op = "accept" THEN "accept" ELSE "next"]
    /\ UNCHANGED <<open, backlog>>

\* The next address, or the failure of the last: open, the options, and connect,
\* or bind and listen
TryNext(i) ==
    /\ dl[i].at = "next"
    /\ LET k == dl[i].next
           fd == <<i, k>>
           what == Ask(i).addrs[k]
       IN  \/ \* No more addresses
              /\ k > Len(Ask(i).addrs)
              /\ DialFails(i, IF dl[i].failure = 0 THEN "badaddress" ELSE "failed")
           \/ \* No socket, refused at once, or not to be bound
              /\ k <= Len(Ask(i).addrs) /\ what \in {"none", "refused"}
              /\ dl' = [dl EXCEPT ![i].next = k + 1, ![i].failure = k]
              /\ UNCHANGED open
           \/ \* Connected, bound or listening at once
              /\ k <= Len(Ask(i).addrs) /\ what \in {"ok", "nameless"}
              /\ open' = open \cup {fd}
              /\ dl' = [dl EXCEPT ![i].at = "named", ![i].fd = fd, ![i].next = k + 1]
           \/ \* Under way
              /\ k <= Len(Ask(i).addrs) /\ what \in {"slow", "late"}
              /\ open' = open \cup {fd}
              /\ dl' = [dl EXCEPT ![i].at = "check", ![i].fd = fd, ![i].next = k + 1]
    /\ UNCHANGED backlog

\* Mutant: the socket of an address that failed is not let go of
FinishedLeaking(i) ==
    /\ dl[i].at = "check"
    /\ LET k == dl[i].next - 1
       IN  \/ /\ dl[i].flights = 0 /\ DialParks(i, "write", "connecting") /\ UNCHANGED open
           \/ /\ dl[i].flights = 1 /\ Ask(i).addrs[k] = "slow"
              /\ dl' = [dl EXCEPT ![i].at = "named", ![i].flights = 0] /\ UNCHANGED open
           \/ /\ dl[i].flights = 1 /\ Ask(i).addrs[k] = "late"
              /\ dl' = [dl EXCEPT ![i].at = "next", ![i].fd = None, ![i].failure = k, ![i].flights = 0]
              /\ UNCHANGED open
    /\ UNCHANGED backlog

\* finished_connecting: no answer yet parks, an error moves to the next address
Finished(i) ==
    /\ dl[i].at = "check"
    /\ LET k == dl[i].next - 1
       IN  \/ \* A wake can come before the socket is ready
              /\ dl[i].flights = 0
              /\ DialParks(i, "write", "connecting")
              /\ UNCHANGED open
           \/ /\ dl[i].flights = 1 /\ Ask(i).addrs[k] = "slow"
              /\ dl' = [dl EXCEPT ![i].at = "named", ![i].flights = 0]
              /\ UNCHANGED open
           \/ /\ dl[i].flights = 1 /\ Ask(i).addrs[k] = "late"
              /\ Closing(dl[i].fd)
              /\ dl' = [dl EXCEPT ![i].at = "next", ![i].fd = None, ![i].failure = k, ![i].flights = 0]
    /\ UNCHANGED backlog

\* connected, bind_listen: the socket's own address. A connection that has lost it
\* is the end of a connect, where a listener goes on to the next address
Named(i) ==
    /\ dl[i].at = "named"
    /\ LET k == dl[i].next - 1
           nameless == Ask(i).op # "accept" /\ Ask(i).addrs[k] = "nameless"
       IN  \/ nameless /\ Ask(i).op = "connect" /\ DialFails(i, "failed")
           \/ /\ nameless /\ Ask(i).op = "listen"
              /\ Closing(dl[i].fd)
              /\ dl' = [dl EXCEPT ![i].at = "next", ![i].fd = None, ![i].failure = k]
           \/ ~nameless /\ dl' = [dl EXCEPT ![i].at = "opened", ![i].on = "none"] /\ UNCHANGED open
    /\ UNCHANGED backlog

----------------------------------------------------------------------------
(* Accepting. *)

\* Somebody connects
Knock ==
    /\ knocks < Len(scene.arrivals)
    /\ knocks' = knocks + 1 /\ backlog' = Append(backlog, <<0, knocks + 1>>)
    /\ UNCHANGED <<dl, open>>

\* One turn of the accept loop and adopt: a connection gone again is skipped, one
\* that cannot be set up is dropped, and with none waiting the task parks
Accept(i) ==
    /\ dl[i].at = "accept"
    /\ \/ /\ backlog = <<>>
          /\ DialParks(i, "read", "accepting")
          /\ UNCHANGED <<open, backlog>>
       \/ /\ backlog # <<>>
          /\ backlog' = Tail(backlog)
          /\ LET what == scene.arrivals[Head(backlog)[2]]
             IN  \/ what = "aborted" /\ UNCHANGED <<dl, open>>
                 \/ what = "bad" /\ DialFails(i, "failed")
                 \/ /\ what = "ok" /\ open' = open \cup {Head(backlog)}
                    /\ dl' = [dl EXCEPT ![i].at = "named", ![i].fd = Head(backlog)]

----------------------------------------------------------------------------
(* The handshake. *)

\* The flights a side sends and waits for, in turn
Turns(i) == IF Ask(i).op = "accept" THEN <<"recv", "send", "recv", "send">> ELSE <<"send", "recv", "send">>

\* The connection is there: it is the output, or its session starts, which fails on
\* a bad name or certificate
Opened(i) ==
    /\ dl[i].at = "opened"
    /\ IF ~Ask(i).tls THEN dl' = [dl EXCEPT ![i].at = "done"] /\ UNCHANGED open
       ELSE IF Ask(i).peer = "badname" THEN DialFails(i, "failed")
       ELSE dl' = [dl EXCEPT ![i].at = "shake", ![i].turn = 1, ![i].flights = 0] /\ UNCHANGED open
    /\ UNCHANGED backlog

\* handshake: what the session owes goes first, and it is done once the last of that
\* has gone. A flight that does not check out sends an alert and fails
Shake(i) ==
    /\ dl[i].at = "shake"
    /\ LET turn == dl[i].turn
           over == turn > Len(Turns(i))
       IN  \/ over /\ dl' = [dl EXCEPT ![i].at = "done"] /\ UNCHANGED open
           \/ \* The socket is full
              /\ ~over /\ Turns(i)[turn] = "send" /\ Ask(i).full /\ dl[i].on # "write"
              /\ DialParks(i, "write", "shaking") /\ UNCHANGED open
           \/ /\ ~over /\ Turns(i)[turn] = "send" /\ (Ask(i).full => dl[i].on = "write")
              /\ dl' = [dl EXCEPT ![i].turn = @ + 1, ![i].on = "none"] /\ UNCHANGED open
           \/ /\ ~over /\ Turns(i)[turn] = "recv" /\ dl[i].flights > 0 /\ Ask(i).peer # "bad"
              /\ dl' = [dl EXCEPT ![i].turn = @ + 1, ![i].flights = @ - 1] /\ UNCHANGED open
           \/ /\ ~over /\ Turns(i)[turn] = "recv" /\ dl[i].flights > 0 /\ Ask(i).peer = "bad"
              /\ DialFails(i, "failed")
           \/ /\ ~over /\ Turns(i)[turn] = "recv" /\ dl[i].flights = 0 /\ Ask(i).peer = "cut"
              /\ DialFails(i, "closed")
           \/ /\ ~over /\ Turns(i)[turn] = "recv" /\ dl[i].flights = 0 /\ Ask(i).peer # "cut"
              /\ DialParks(i, "read", "shaking") /\ UNCHANGED open
    /\ UNCHANGED backlog

\* The other side's answer: the connection taken or refused, or its next flight
Answer(i) ==
    /\ dl[i].at \in {"check", "connecting", "shake", "shaking"} /\ dl[i].flights = 0
    /\ dl[i].at \in {"shake", "shaking"} =>
          /\ Ask(i).peer # "cut" /\ dl[i].turn <= Len(Turns(i)) /\ Turns(i)[dl[i].turn] = "recv"
    /\ dl' = [dl EXCEPT ![i].flights = 1]
    /\ UNCHANGED <<open, backlog>>

\* Where a parked task carries on
Resume == [connecting |-> "check", accepting |-> "accept", shaking |-> "shake"]

Awaited(i) ==
    CASE dl[i].at = "accepting" -> backlog # <<>>
      [] dl[i].at = "connecting" -> dl[i].flights > 0
      [] dl[i].at = "shaking" -> dl[i].on = "write" \/ dl[i].flights > 0 \/ Ask(i).peer = "cut"

WakeDial(i) ==
    /\ dl[i].at \in DOMAIN Resume /\ ~dl[i].stopped /\ Awaited(i)
    /\ dl' = [dl EXCEPT ![i].at = Resume[@]]
    /\ UNCHANGED <<open, backlog>>

\* A restarted manager queues every parked task again, to look for itself
Requeue(i) ==
    /\ i \in scene.requeues /\ dl[i].at \in DOMAIN Resume /\ ~dl[i].stopped
    /\ dl' = [dl EXCEPT ![i].at = Resume[@]]
    /\ UNCHANGED <<open, backlog>>

----------------------------------------------------------------------------
(* The end of it: an output, or the next stage of a request. *)

\* The connection is the output, unless a stop settled the task first and the slot
\* drops it. A request goes on to its send, stopped or not
Hand(i) ==
    /\ dl[i].at = "done"
    /\ IF scene.request
       THEN /\ conn' = "open"
            /\ dl' = [dl EXCEPT ![i].at = "over", ![i].ends = IF dl[i].stopped THEN @ ELSE "ok",
                                ![i].fd = None, ![i].out = dl[i].fd]
            /\ wr' = [wr EXCEPT ![1].stopped = dl[i].stopped, ![1].ends = IF dl[i].stopped THEN "stopped" ELSE @]
            /\ UNCHANGED open
       ELSE /\ UNCHANGED <<conn, wr>>
            /\ IF dl[i].stopped
               THEN DialFails(i, "stopped")
               ELSE /\ dl' = [dl EXCEPT ![i].at = "over", ![i].ends = "ok", ![i].fd = None, ![i].out = dl[i].fd]
                    /\ UNCHANGED open
    /\ UNCHANGED <<backlog, knocks, scene, wire, told, fate, clear, leftover, rd, pend, sock, shut, heard, spilt>>

\* A stop finds the task running, which the end of its turn notices, or parked
StopDial(i) ==
    /\ i \in scene.hangups /\ dl[i].ends = "none" /\ dl[i].at \notin {"new", "over"}
    /\ dl' = [dl EXCEPT ![i].stopped = TRUE, ![i].ends = "stopped"]
    /\ UNCHANGED <<open, backlog>>

\* Dropping a parked task closes the socket it was trying or shaking hands on
DropDial(i) ==
    /\ dl[i].at \in DOMAIN Resume /\ dl[i].stopped
    /\ DialFails(i, "stopped")
    /\ UNCHANGED backlog

DialStep(i) ==
    StartDial(i) \/ TryNext(i) \/ Finished(i) \/ Named(i) \/ Accept(i) \/ Opened(i) \/ Shake(i)
        \/ WakeDial(i) \/ DropDial(i)

----------------------------------------------------------------------------
(* Datagrams. *)

\* What a task stopped meanwhile took or sent stays in its slot, for nobody to read
GramOver(i, why, out) ==
    dg' = [dg EXCEPT ![i].at = "over", ![i].ends = IF dg[i].stopped THEN @ ELSE why, ![i].out = out]

\* recv_datagram: the whole of the next datagram, left there by a peek
RecvFrom(i) ==
    /\ dg[i].at \in {"new", "try"} /\ scene.grams[i].op \in {"recv", "peek"}
    /\ IF inbox = <<>> THEN dg' = [dg EXCEPT ![i].at = "parked"] /\ UNCHANGED inbox
       ELSE /\ GramOver(i, "ok", Head(inbox))
            /\ inbox' = IF scene.grams[i].op = "peek" THEN inbox ELSE Tail(inbox)
    /\ UNCHANGED outbox

\* pick: the first address of the socket's own family, chosen once
Matching(i) == {k \in 1..Len(scene.grams[i].addrs) : scene.grams[i].addrs[k] = scene.grams[i].family}

Dest(i) ==
    IF dg[i].dest # 0 THEN dg[i].dest
    ELSE IF Matching(i) = {} THEN 0
    ELSE CHOOSE k \in Matching(i) : \A m \in Matching(i) : k <= m

\* send_datagram: all of it or none. A full buffer parks a UDP send, and is an
\* answer to a Unix one
SendTo(i) ==
    /\ dg[i].at \in {"new", "try"} /\ scene.grams[i].op \in {"udp", "unix"}
    /\ \/ /\ Dest(i) = 0
          /\ GramOver(i, "badaddress", 0) /\ UNCHANGED outbox
       \/ /\ Dest(i) # 0 /\ Len(outbox) < Flow
          /\ outbox' = Append(outbox, <<i, Dest(i)>>)
          /\ GramOver(i, "ok", Dest(i))
       \/ /\ Dest(i) # 0 /\ Len(outbox) >= Flow /\ scene.grams[i].op = "udp"
          /\ dg' = [dg EXCEPT ![i].at = "parked", ![i].dest = Dest(i)] /\ UNCHANGED outbox
       \/ /\ Dest(i) # 0 /\ Len(outbox) >= Flow /\ scene.grams[i].op = "unix"
          /\ GramOver(i, "full", 0) /\ UNCHANGED outbox
    /\ UNCHANGED inbox

WakeGram(i) ==
    /\ dg[i].at = "parked" /\ ~dg[i].stopped
    /\ IF scene.grams[i].op = "udp" THEN Len(outbox) < Flow ELSE inbox # <<>>
    /\ dg' = [dg EXCEPT ![i].at = "try"]
    /\ UNCHANGED <<inbox, outbox>>

\* A stop finds the task queued, running or parked
StopGram(i) ==
    /\ i \in scene.hangups /\ dg[i].ends = "none"
    /\ dg' = [dg EXCEPT ![i].stopped = TRUE, ![i].ends = "stopped"]
    /\ UNCHANGED <<inbox, outbox>>

\* One that has not begun does not, and one that is parked comes down
DropGram(i) ==
    /\ dg[i].at \in {"new", "parked"} /\ dg[i].stopped
    /\ GramOver(i, "stopped", 0)
    /\ UNCHANGED <<inbox, outbox>>

GramStep(i) == RecvFrom(i) \/ SendTo(i) \/ WakeGram(i) \/ DropGram(i)

\* The network brings the next datagram, and takes one away
Arrive ==
    /\ LET came == Cardinality({i \in Grams : scene.grams[i].op = "recv" /\ dg[i].out # 0}) + Len(inbox)
       IN  came < scene.datagrams /\ inbox' = Append(inbox, came + 1)
    /\ UNCHANGED <<dg, outbox>>

Depart == outbox # <<>> /\ outbox' = Tail(outbox) /\ UNCHANGED <<dg, inbox>>

----------------------------------------------------------------------------
(* Everything together. *)

SocketNext ==
    \/ StreamStep /\ UNCHANGED dialVars /\ UNCHANGED gramVars
    \/ /\ CloseConn
       /\ open' = IF scene.request THEN open \ {dl[1].out} ELSE open
       /\ dl' = IF scene.request THEN [dl EXCEPT ![1].out = None] ELSE dl
       /\ UNCHANGED <<backlog, knocks>> /\ UNCHANGED gramVars
    \/ /\ \E i \in Dials : DialStep(i) \/ StopDial(i) \/ Requeue(i) \/ Answer(i)
       /\ UNCHANGED knocks /\ UNCHANGED vars /\ UNCHANGED gramVars
    \/ Knock /\ UNCHANGED vars /\ UNCHANGED gramVars
    \/ \E i \in Dials : Hand(i) /\ UNCHANGED gramVars
    \/ /\ \/ \E i \in Grams : GramStep(i) \/ StopGram(i)
          \/ Arrive \/ Depart
       /\ UNCHANGED vars /\ UNCHANGED dialVars

\* The most tasks of a kind a scene has
MaxTasks == 3

SocketFair ==
    /\ \A i \in 1..MaxTasks :
         /\ WF_sockVars(i \in Reads /\ ReadStep(i) /\ UNCHANGED dialVars /\ UNCHANGED gramVars)
         /\ WF_sockVars(i \in Writes /\ WriteStep(i) /\ UNCHANGED dialVars /\ UNCHANGED gramVars)
         /\ WF_sockVars(i \in Dials /\ DialStep(i) /\ UNCHANGED knocks /\ UNCHANGED vars /\ UNCHANGED gramVars)
         /\ WF_sockVars(i \in Dials /\ Hand(i) /\ UNCHANGED gramVars)
         /\ WF_sockVars(i \in Dials /\ Answer(i) /\ UNCHANGED knocks /\ UNCHANGED vars /\ UNCHANGED gramVars)
         /\ WF_sockVars(i \in Grams /\ GramStep(i) /\ UNCHANGED vars /\ UNCHANGED dialVars)
    /\ WF_sockVars((PeerSends \/ PeerEnds) /\ UNCHANGED dialVars /\ UNCHANGED gramVars)
    /\ WF_sockVars(PeerTakes /\ UNCHANGED dialVars /\ UNCHANGED gramVars)
    /\ WF_sockVars((Arrive \/ Depart) /\ UNCHANGED vars /\ UNCHANGED dialVars)

SocketSpec == SocketInit /\ [][SocketNext]_sockVars /\ SocketFair

----------------------------------------------------------------------------
(* Properties. *)

\* Every open socket is held by one task that is trying it or shaking hands on it,
\* or is the output of one that succeeded: no failure, stop or park leaks one or
\* closes one that was handed out (ConnectTask::advance, TlsConnectTask::advance,
\* adopt, Drop for Fd)
SocketsHeld ==
    /\ open = ({dl[i].fd : i \in Dials} \cup {dl[i].out : i \in Dials}) \ {None}
    /\ \A i, j \in Dials : i # j /\ dl[i].out # None => dl[i].out \notin {dl[j].fd, dl[j].out}
    /\ \A i \in Dials : dl[i].at = "over" => dl[i].fd = None

Works == {"ok", "slow", "nameless"}

\* Addresses are tried in order and the first that connects is the one: a connect
\* that fails has been through all of them and reports the last, and nothing is handed
\* out before its handshake is over (the loops of ConnectTask and ListenTask,
\* handshake)
DialledInTurn ==
    \A i \in Dials :
        LET addrs == Ask(i).addrs
            before == 1..(dl[i].next - 2)
        IN  /\ Ask(i).op = "connect" => \A k \in before : addrs[k] \notin Works
            /\ Ask(i).op = "connect" /\ dl[i].out # None =>
                   dl[i].out = <<i, dl[i].next - 1>> /\ addrs[dl[i].next - 1] \in {"ok", "slow"}
            /\ dl[i].ends = "badaddress" => addrs = <<>>
            /\ dl[i].ends = "failed" /\ Ask(i).op = "connect" /\ ~Ask(i).tls =>
                   \/ dl[i].next > Len(addrs) /\ dl[i].failure = Len(addrs)
                   \/ addrs[dl[i].next - 1] = "nameless"
            /\ dl[i].out # None /\ Ask(i).tls => dl[i].turn > Len(Turns(i)) /\ Ask(i).peer = "good"

\* A datagram is taken by one receive, in the order they came, and a peek leaves it
\* there for that one (recv_datagram)
DatagramsWhole ==
    /\ \A i, j \in Grams :
          i # j /\ scene.grams[i].op = "recv" /\ scene.grams[j].op = "recv" /\ dg[i].out # 0 => dg[i].out # dg[j].out
    /\ \A i \in Grams : dg[i].out # 0 /\ scene.grams[i].op = "recv" => \A k \in 1..Len(inbox) : inbox[k] > dg[i].out

\* Sockets and datagrams each have one owner, and it is the task the order of the
\* attempts gives them to (ConnectTask, TlsConnectTask, AcceptTask, recv_datagram)
SocketsInv == SocketsHeld /\ DialledInTurn /\ DatagramsWhole

\* Every task ends once what it waits for can happen: the other side answers, sends
\* what is asked of it or ends its stream, and goes on reading, and every park is woken by it (wait_on, the
\* STEP_BUDGET parks, the order of TlsConnection::read and of handshake)
EveryoneEnds ==
    /\ (conn = "open") ~> Over
    /\ <>[](\A i \in Dials : dl[i].at = "over" \/ (dl[i].at \in {"accept", "accepting"} /\ backlog = <<>>))
    /\ <>[](\A i \in Grams : dg[i].at = "over" \/ (dg[i].at = "parked" /\ inbox = <<>>))

=============================================================================
