--------------------------- MODULE SocketsProofs ---------------------------
(***************************************************************************)
(* Proofs about Sockets, for any number of tasks, addresses, connections   *)
(* and datagrams.  A task's record says by itself which socket it holds    *)
(* and what the addresses it tried came to (DialSound); between tasks, a   *)
(* socket is named after the attempt that opened it, or after its place    *)
(* among the connections that came, so no two tasks hold the same one.     *)
(***************************************************************************)
EXTENDS Sockets, FiniteSetTheorems, TLAPS

\* As in ParksProofs: tlapm goes on without inferring types
LEMMA Untyped == CASE TRUE -> TRUE
BY Zenon
USE Untyped

\* Where a task is that holds a socket, and where one can be
Trying == {"check", "connecting", "named", "opened", "shake", "shaking", "done"}
DialAt == Trying \cup {"new", "next", "accept", "accepting", "over"}
Fds == Nat \X Nat
DialRecs ==
    [at : DialAt, on : {"none", "read", "write"}, next : Nat \ {0}, fd : Fds, failure : Nat, turn : Nat,
     flights : {0, 1}, stopped : BOOLEAN, ends : {"none", "ok", "failed", "badaddress", "closed", "stopped"},
     out : Fds]

\* A task has a socket while it tries one, has one to show for it once it is over, and
\* a stop alone can come before its end
Standing(ask, d) ==
    /\ d.at \in {"accept", "accepting"} => ask.op = "accept"
    /\ d.at \in {"next", "check", "connecting"} => ask.op # "accept"
    /\ d.at \in {"shake", "shaking"} => ask.tls
    /\ d.at \in Trying <=> d.fd # None
    /\ d.out # None => d.at = "over"
    /\ d.at # "over" => d.ends \in {"none", "stopped"}
    /\ d.stopped => d.ends = "stopped"

\* Whose attempt the socket is of
Labelled(i, ask, d) ==
    /\ ask.op # "accept" =>
         /\ d.fd \in {None, <<i, d.next - 1>>} /\ d.out \in {None, <<i, d.next - 1>>}
         /\ d.next <= Len(ask.addrs) + 1
    /\ ask.op = "accept" => d.fd[1] = 0 /\ d.out[1] = 0 /\ d.next = 1

\* What the addresses tried so far came to
Tried(ask, d) ==
    ask.op # "accept" =>
        /\ d.at = "new" => d.next = 1
        /\ d.at \in {"new", "next"} => d.failure = d.next - 1
        /\ ask.op = "connect" =>
             \A k \in 1..(d.next - 1) : k < d.next - 1 \/ d.at \in {"new", "next"} => ask.addrs[k] \notin Works
        /\ d.at \in {"check", "connecting"} => ask.addrs[d.next - 1] \in {"slow", "late"}
        /\ d.at = "named" => ask.addrs[d.next - 1] \in Works
        /\ d.at \in {"opened", "shake", "shaking", "done"} \/ d.out # None =>
             ask.addrs[d.next - 1] \in {"ok", "slow"}

\* A handshake that has had an answer has a good peer
Shaken(ask, d, turns) ==
    /\ d.at \in {"shake", "shaking"} =>
         /\ ask.peer # "badname" /\ d.turn \in 1..(Len(turns) + 1) /\ (d.flights > 0 => ask.peer # "cut")
         /\ d.turn > (IF ask.op = "accept" THEN 1 ELSE 2) => ask.peer = "good"
    /\ (d.at = "done" \/ d.out # None) /\ ask.tls => d.turn > Len(turns) /\ ask.peer = "good"

\* Why a connect failed
Reported(ask, d) ==
    /\ d.ends = "badaddress" => ask.addrs = <<>>
    /\ d.ends = "failed" /\ ask.op = "connect" /\ ~ask.tls =>
         \/ d.next > Len(ask.addrs) /\ d.failure = Len(ask.addrs)
         \/ ask.addrs[d.next - 1] = "nameless"

DialSound(i, d) ==
    /\ d \in DialRecs /\ Standing(Ask(i), d) /\ Labelled(i, Ask(i), d) /\ Tried(Ask(i), d)
    /\ Shaken(Ask(i), d, Turns(i)) /\ Reported(Ask(i), d)

\* Connections are taken in the order they came
Waiting ==
    /\ knocks \in Nat /\ backlog \in Seq(Fds) /\ Len(backlog) <= knocks
    /\ \A k \in 1..Len(backlog) : backlog[k] = <<0, knocks - Len(backlog) + k>>
    /\ \A i \in Dials : Ask(i).op = "accept" =>
          /\ dl[i].fd[2] <= knocks - Len(backlog) /\ dl[i].out[2] <= knocks - Len(backlog)

\* And every socket is one task's
Owned ==
    /\ open = ({dl[i].fd : i \in Dials} \cup {dl[i].out : i \in Dials}) \ {None}
    /\ \A i, j \in Dials : i # j => {dl[i].fd, dl[i].out} \cap {dl[j].fd, dl[j].out} \subseteq {None}

DialInv ==
    /\ scene \in Scenes /\ DOMAIN dl = Dials /\ (\A i \in Dials : DialSound(i, dl[i]))
    /\ Waiting /\ Owned

\* The receives that have a datagram
Taken == {i \in Grams : scene.grams[i].op = "recv" /\ dg[i].out # 0}

\* A datagram task has nothing before its end
GramSound(g) ==
    /\ g \in [at : {g.at}, dest : {g.dest}, stopped : BOOLEAN, ends : {g.ends}, out : {g.out}]
    /\ g.at # "over" => g.out = 0

\* Datagrams are numbered as they come, so the next is the number taken and one more
GramInv ==
    /\ scene \in Scenes /\ DOMAIN dg = Grams /\ (\A i \in Grams : GramSound(dg[i]))
    /\ \A i \in Grams : scene.grams[i].op = "recv" => dg[i].out \in 0..Cardinality(Taken)
    /\ \A i, j \in Taken : i # j => dg[i].out # dg[j].out
    /\ inbox \in Seq(Nat) /\ \A k \in 1..Len(inbox) : inbox[k] = Cardinality(Taken) + k


-----------------------------------------------------------------------------
(* One task moves.                                                         *)

\* What is asked of a task
LEMMA Asked ==
    ASSUME scene \in Scenes, NEW i \in Dials
    PROVE  /\ i \in Nat \ {0} /\ Ask(i) \in Asks
           /\ Ask(i).addrs \in Seq({"none", "refused", "ok", "nameless", "slow", "late"}) /\ Len(Ask(i).addrs) \in Nat
           /\ Turns(i) = (IF Ask(i).op = "accept" THEN <<"recv", "send", "recv", "send">> ELSE <<"send", "recv", "send">>)
           /\ Len(Turns(i)) = (IF Ask(i).op = "accept" THEN 4 ELSE 3)
<1>1. scene.dials \in Seq(Asks)
  BY SocketAssumption
<1>2. i \in Nat \ {0} /\ Ask(i) \in Asks
  BY <1>1 DEF Dials, Ask
<1>3. Ask(i).addrs \in Seq({"none", "refused", "ok", "nameless", "slow", "late"})
  BY <1>2 DEF Asks
<1>4. Turns(i) = (IF Ask(i).op = "accept" THEN <<"recv", "send", "recv", "send">> ELSE <<"send", "recv", "send">>)
  BY DEF Turns
<1>5. Len(Turns(i)) = (IF Ask(i).op = "accept" THEN 4 ELSE 3)
  BY <1>4
<1> QED  BY <1>2, <1>3, <1>4, <1>5

\* The sockets a task holds
Hold(d) == {d.fd, d.out} \ {None}

\* No two tasks hold the same
LEMMA Apart ==
    ASSUME DialInv, NEW i \in Dials, NEW j \in Dials, i # j
    PROVE  Hold(dl[i]) \cap Hold(dl[j]) = {}
BY ZenonT(30) DEF DialInv, Owned, Hold

\* What one task opens and closes is what changes
LEMMA OwnerKept ==
    ASSUME DialInv, NEW i \in Dials, NEW d, scene' = scene,
           DOMAIN dl' = Dials, dl'[i] = d, \A j \in Dials : j # i => dl'[j] = dl[j],
           \A j \in Dials : j # i => Hold(d) \cap Hold(dl[j]) = {},
           open' = (open \ Hold(dl[i])) \cup Hold(d)
    PROVE  Owned'
<1>1. Dials' = Dials
  BY DEF Dials
<1>2. open = UNION {Hold(dl[j]) : j \in Dials}
  BY DEF DialInv, Owned, Hold
<1>3. \A x : x \in open' <=> \E j \in Dials : x \in Hold(dl'[j])
  <2> TAKE x
  <2>1. CASE x \in Hold(d)
    BY <2>1
  <2>2. CASE x \notin Hold(d)
    <3>1. x \in open' <=> x \in open /\ x \notin Hold(dl[i])
      BY <2>2
    <3>2. x \in open <=> \E j \in Dials : x \in Hold(dl[j])
      BY <1>2
    <3>3. \A j \in Dials : j # i /\ x \in Hold(dl[j]) => x \notin Hold(dl[i])
      BY Apart
    <3> QED  BY <2>2, <3>1, <3>2, <3>3
  <2> QED  BY <2>1, <2>2
<1>4. open' = ({dl'[j].fd : j \in Dials} \cup {dl'[j].out : j \in Dials}) \ {None}
  BY <1>3 DEF Hold
<1>5. \A j, k \in Dials : j # k => {dl'[j].fd, dl'[j].out} \cap {dl'[k].fd, dl'[k].out} \subseteq {None}
  <2> TAKE j, k \in Dials
  <2>1. j # k => Hold(dl'[j]) \cap Hold(dl'[k]) = {}
    BY Apart
  <2> QED  BY <2>1 DEF Hold
<1> QED  BY <1>1, <1>4, <1>5 DEF Owned

\* Nobody is accepted but the first in the queue, if anybody is
Shifts == knocks' = knocks /\ (backlog' = backlog \/ (backlog # <<>> /\ backlog' = Tail(backlog)))

\* And the queue is still in order
LEMMA Shifted ==
    ASSUME Waiting, Shifts
    PROVE  /\ knocks' \in Nat /\ backlog' \in Seq(Fds) /\ Len(backlog') <= knocks'
           /\ \A k \in 1..Len(backlog') : backlog'[k] = <<0, knocks' - Len(backlog') + k>>
           /\ knocks - Len(backlog) \in Nat /\ knocks' - Len(backlog') \in Nat
           /\ knocks - Len(backlog) <= knocks' - Len(backlog')
           /\ backlog # <<>> /\ backlog' = Tail(backlog) =>
                Head(backlog) = <<0, knocks' - Len(backlog')>> /\ knocks' - Len(backlog') = knocks - Len(backlog) + 1
<1>1. /\ knocks \in Nat /\ backlog \in Seq(Fds) /\ Len(backlog) <= knocks /\ Len(backlog) \in Nat
      /\ \A k \in 1..Len(backlog) : backlog[k] = <<0, knocks - Len(backlog) + k>>
  BY DEF Waiting
<1>2. CASE UNCHANGED <<backlog, knocks>>
  <2>1. backlog # <<>> => backlog # Tail(backlog)
    BY <1>1
  <2> QED  BY <1>1, <1>2, <2>1
<1>3. CASE knocks' = knocks /\ backlog # <<>> /\ backlog' = Tail(backlog)
  <2>1. /\ Tail(backlog) \in Seq(Fds) /\ Len(Tail(backlog)) = Len(backlog) - 1 /\ Len(backlog) > 0
        /\ Head(backlog) = backlog[1] /\ (\A k \in 1..Len(Tail(backlog)) : Tail(backlog)[k] = backlog[k + 1])
    BY <1>1, <1>3
  <2>2. /\ Len(backlog') = Len(backlog) - 1 /\ knocks' - Len(backlog') = knocks - Len(backlog) + 1
        /\ Len(backlog') <= knocks' /\ knocks' - Len(backlog') \in Nat
    BY <1>1, <1>3, <2>1
  <2>3. \A k \in 1..Len(backlog') : backlog'[k] = <<0, knocks' - Len(backlog') + k>>
    <3> TAKE k \in 1..Len(backlog')
    <3>1. k + 1 \in 1..Len(backlog) /\ k \in 1..Len(Tail(backlog))
      BY <1>1, <1>3, <2>1, <2>2
    <3>2. backlog'[k] = backlog[k + 1] /\ backlog[k + 1] = <<0, knocks - Len(backlog) + (k + 1)>>
      BY <1>1, <1>3, <2>1, <3>1
    <3>3. knocks - Len(backlog) + (k + 1) = knocks' - Len(backlog') + k
      BY <1>1, <1>3, <2>2, <3>1
    <3> QED  BY <3>2, <3>3
  <2>4. Head(backlog) = <<0, knocks' - Len(backlog')>>
    BY <1>1, <2>1, <2>2
  <2> QED  BY <1>1, <1>3, <2>1, <2>2, <2>3, <2>4
<1> QED  BY <1>2, <1>3 DEF Shifts

\* A task that opens nothing, an address of its own, or who is first in the queue
LEMMA DialShifts ==
    ASSUME DialInv, NEW i \in Dials, NEW d, scene' = scene, Shifts,
           DOMAIN dl' = Dials, dl'[i] = d, \A j \in Dials : j # i => dl'[j] = dl[j],
           DialSound(i, d),
           Ask(i).op = "accept" =>
               \/ Hold(d) \subseteq Hold(dl[i])
               \/ backlog # <<>> /\ backlog' = Tail(backlog) /\ Hold(d) \subseteq {Head(backlog)},
           open' = (open \ Hold(dl[i])) \cup Hold(d)
    PROVE  DialInv'
<1>1. Dials' = Dials /\ (\A j \in Dials : Ask(j)' = Ask(j) /\ Turns(j)' = Turns(j))
  BY DEF Dials, Ask, Turns
<1>2. scene \in Scenes /\ (\A j \in Dials : DialSound(j, dl[j])) /\ Waiting
  BY DEF DialInv
<1>3. \A j \in Dials : DialSound(j, dl'[j])
  BY <1>2
<1>4. \A j \in Dials' : DialSound(j, dl[j])'
  BY <1>1, <1>3 DEF DialSound
<1> DEFINE n == knocks - Len(backlog)
           m == knocks' - Len(backlog')
<1>8. /\ n \in Nat /\ m \in Nat /\ n <= m
      /\ backlog # <<>> /\ backlog' = Tail(backlog) => Head(backlog) = <<0, m>> /\ m = n + 1
  BY <1>2, Shifted
<1>9. \A j \in Dials : Ask(j).op = "accept" => \A x \in {None, dl[j].fd, dl[j].out} : x[2] <= n
  <2>1. None[2] = 0
    BY DEF None
  <2> QED  BY <1>2, <1>8, <2>1 DEF Waiting
<1> HIDE DEF n, m
<1>5. ASSUME NEW j \in Dials, j # i
      PROVE  Hold(d) \cap Hold(dl[j]) = {}
  <2>1. CASE Ask(i).op = "accept" /\ Hold(d) \subseteq Hold(dl[i])
    BY <1>5, <2>1, Apart
  <2>2. CASE Ask(i).op # "accept"
    <3>1. Hold(d) \subseteq {<<i, d.next - 1>>}
      BY <2>2 DEF DialSound, Labelled, Hold
    <3>2. \A x \in Hold(dl[j]) : x[1] \in {0, j}
      BY <1>2 DEF DialSound, Labelled, Hold
    <3>3. i \notin {0, j}
      BY <1>2, <1>5, Asked
    <3> QED  BY <3>1, <3>2, <3>3
  <2>3. CASE backlog # <<>> /\ backlog' = Tail(backlog) /\ Hold(d) \subseteq {Head(backlog)}
    <3>1. Hold(d) \subseteq {<<0, n + 1>>}
      BY <1>8, <2>3, ZenonT(30)
    <3>2. Ask(j).op # "accept" => \A x \in Hold(dl[j]) : x = <<j, dl[j].next - 1>>
      BY <1>2 DEF DialSound, Labelled, Hold
    <3>3. Ask(j).op = "accept" => \A x \in Hold(dl[j]) : x[2] <= n
      BY <1>9 DEF Hold
    <3>4. j # 0
      BY <1>2, Asked
    <3>5. Ask(j).op # "accept" => <<0, n + 1>> \notin Hold(dl[j])
      BY <3>2, <3>4
    <3>6. Ask(j).op = "accept" => <<0, n + 1>> \notin Hold(dl[j])
      BY <1>8, <3>3
    <3> QED  BY <3>1, <3>5, <3>6
  <2> QED  BY <2>1, <2>2, <2>3
<1>6. Owned'
  BY <1>5, OwnerKept
<1>7. Waiting'
  <2>1. Ask(i).op = "accept" => \A x \in {d.fd, d.out} : x[2] <= m
    <3>1. Ask(i).op = "accept" /\ Hold(d) \subseteq Hold(dl[i]) => {d.fd, d.out} \subseteq {None, dl[i].fd, dl[i].out}
      BY ZenonT(30) DEF Hold
    <3>2. /\ backlog # <<>> /\ backlog' = Tail(backlog) /\ Hold(d) \subseteq {Head(backlog)}
          => {d.fd, d.out} \subseteq {None, <<0, m>>}
      BY <1>8, ZenonT(30) DEF Hold
    <3>3. \A x \in {None, <<0, m>>} : x[2] <= m
      BY <1>8 DEF None
    <3>4. Ask(i).op = "accept" => \A x \in {None, dl[i].fd, dl[i].out} : x[2] <= n /\ x[2] \in Nat
      <4>1. dl[i].fd \in Fds /\ dl[i].out \in Fds /\ None \in Fds
        BY <1>2, ZenonT(30) DEF DialSound, DialRecs, None, Fds
      <4> QED  BY <1>9, <4>1 DEF Fds
    <3>5. Ask(i).op = "accept" => \A x \in {None, dl[i].fd, dl[i].out} : x[2] <= m
      BY <1>8, <3>4
    <3> QED  BY <3>1, <3>2, <3>3, <3>5
  <2>2. \A j \in Dials : Ask(j).op = "accept" => dl'[j].fd[2] <= m /\ dl'[j].out[2] <= m
    <3> TAKE j \in Dials
    <3>1. CASE j = i
      BY <2>1, <3>1
    <3>2. CASE j # i
      <4>1. dl[j].fd \in Fds /\ dl[j].out \in Fds
        BY <1>2 DEF DialSound, DialRecs
      <4> QED  BY <1>8, <1>9, <3>2, <4>1 DEF Fds
    <3> QED  BY <3>1, <3>2
  <2>3. /\ knocks' \in Nat /\ backlog' \in Seq(Fds) /\ Len(backlog') <= knocks'
        /\ \A k \in 1..Len(backlog') : backlog'[k] = <<0, knocks' - Len(backlog') + k>>
    BY <1>2, Shifted
  <2> QED  BY <1>1, <2>2, <2>3 DEF Waiting, m
<1> QED  BY <1>1, <1>2, <1>4, <1>6, <1>7 DEF DialInv

\* The queue waits
LEMMA DialMoves ==
    ASSUME DialInv, NEW i \in Dials, NEW d, scene' = scene, UNCHANGED <<backlog, knocks>>,
           DOMAIN dl' = Dials, dl'[i] = d, \A j \in Dials : j # i => dl'[j] = dl[j],
           DialSound(i, d),
           Ask(i).op = "accept" => Hold(d) \subseteq Hold(dl[i]),
           open' = (open \ Hold(dl[i])) \cup Hold(d)
    PROVE  DialInv'
BY DialShifts DEF Shifts

\* The others stay as they are
Changes(i, d) == DOMAIN dl' = Dials /\ dl'[i] = d /\ \A j \in Dials : j # i => dl'[j] = dl[j]

\* A task that keeps its socket
LEMMA StayKept ==
    ASSUME DialInv, NEW i \in Dials, NEW d, Changes(i, d), UNCHANGED <<scene, open, backlog, knocks>>,
           DialSound(i, d), d.fd = dl[i].fd, d.out = dl[i].out
    PROVE  DialInv'
<1>1. Hold(d) = Hold(dl[i])
  BY DEF Hold
<1>2. Hold(dl[i]) \subseteq open
  BY DEF DialInv, Owned, Hold
<1>3. open' = (open \ Hold(dl[i])) \cup Hold(d)
  BY <1>1, <1>2
<1> QED  BY <1>1, <1>3, DialMoves DEF Changes

\* One that lets go of it
LEMMA DropKept ==
    ASSUME DialInv, NEW i \in Dials, NEW d, Changes(i, d), scene' = scene, Shifts,
           Closing(dl[i].fd), DialSound(i, d), d.fd = None, d.out = None, dl[i].at # "over"
    PROVE  DialInv'
<1>1. Hold(d) = {}
  BY DEF Hold
<1>2. dl[i].out = None
  BY DEF DialInv, DialSound, Standing
<1>3. None \notin open
  BY DEF DialInv, Owned
<1>4. open' = (open \ Hold(dl[i])) \cup Hold(d)
  BY <1>1, <1>2, <1>3 DEF Closing, Hold
<1> QED  BY <1>1, <1>4, DialShifts DEF Changes

\* One that fails, or is stopped
LEMMA FailShifts ==
    ASSUME DialInv, NEW i \in Dials, NEW why \in {"failed", "badaddress", "closed", "stopped"}, DialFails(i, why),
           scene' = scene, Shifts, dl[i].at # "over",
           why = "badaddress" => Ask(i).addrs = <<>>,
           why = "failed" /\ Ask(i).op = "connect" /\ ~Ask(i).tls =>
               \/ dl[i].next > Len(Ask(i).addrs) /\ dl[i].failure = Len(Ask(i).addrs)
               \/ Ask(i).addrs[dl[i].next - 1] = "nameless"
    PROVE  DialInv'
<1> DEFINE d == [dl[i] EXCEPT !.at = "over", !.fd = None, !.ends = IF dl[i].stopped THEN dl[i].ends ELSE why]
<1>1. DOMAIN dl = Dials /\ DialSound(i, dl[i])
  BY DEF DialInv
<1>2. dl[i] \in DialRecs
  BY <1>1 DEF DialSound
<1>3. Changes(i, d)
  BY <1>1, <1>2 DEF DialFails, Changes, DialRecs
<1>4. /\ d \in DialRecs /\ d.at = "over" /\ d.fd = None /\ d.out = dl[i].out
      /\ d.next = dl[i].next /\ d.failure = dl[i].failure /\ d.turn = dl[i].turn /\ d.flights = dl[i].flights
      /\ d.stopped = dl[i].stopped /\ (dl[i].stopped => d.ends = dl[i].ends) /\ (~dl[i].stopped => d.ends = why)
  <2>1. None \in Fds /\ why \in {"none", "ok", "failed", "badaddress", "closed", "stopped"}
    BY DEF None, Fds
  <2> QED  BY <1>2, <2>1, ZenonT(30) DEF DialRecs, DialAt
<1> HIDE DEF d
<1>5. dl[i].out = None
  BY <1>1 DEF DialSound, Standing
<1>6. Standing(Ask(i), d) /\ Labelled(i, Ask(i), d)
  BY <1>1, <1>4, <1>5 DEF DialSound, Standing, Labelled, Trying
<1>7. Tried(Ask(i), d)
  BY <1>1, <1>4, <1>5 DEF DialSound, Tried
<1>8. Shaken(Ask(i), d, Turns(i))
  BY <1>1, <1>4, <1>5 DEF DialSound, Shaken
<1>9. Reported(Ask(i), d)
  BY <1>1, <1>4 DEF DialSound, Reported, Standing
<1>10. DialSound(i, d)
  BY <1>4, <1>6, <1>7, <1>8, <1>9 DEF DialSound
<1> QED  BY <1>3, <1>4, <1>5, <1>10, DropKept DEF DialFails

\* Without taking anybody from the queue
LEMMA FailKept ==
    ASSUME DialInv, NEW i \in Dials, NEW why \in {"failed", "badaddress", "closed", "stopped"}, DialFails(i, why),
           UNCHANGED <<scene, backlog, knocks>>, dl[i].at # "over",
           why = "badaddress" => Ask(i).addrs = <<>>,
           why = "failed" /\ Ask(i).op = "connect" /\ ~Ask(i).tls =>
               \/ dl[i].next > Len(Ask(i).addrs) /\ dl[i].failure = Len(Ask(i).addrs)
               \/ Ask(i).addrs[dl[i].next - 1] = "nameless"
    PROVE  DialInv'
BY FailShifts DEF Shifts

\* A task that goes on with the address it is at
LEMMA GoesOn ==
    ASSUME DialInv, NEW i \in Dials, NEW d \in DialRecs, Changes(i, d), UNCHANGED <<scene, open, backlog, knocks>>,
           d.fd = dl[i].fd, d.out = dl[i].out, d.next = dl[i].next, d.failure = dl[i].failure,
           d.ends = dl[i].ends, d.stopped = dl[i].stopped, d.at # "over", dl[i].at # "over",
           d.at \in Trying <=> dl[i].at \in Trying,
           d.at \in {"accept", "accepting"} => Ask(i).op = "accept",
           d.at \in {"next", "check", "connecting"} => Ask(i).op # "accept",
           d.at \in {"shake", "shaking"} => Ask(i).tls,
           Tried(Ask(i), d), Shaken(Ask(i), d, Turns(i))
    PROVE  DialInv'
<1>1. DialSound(i, dl[i])
  BY DEF DialInv
<1>2. Standing(Ask(i), d)
  BY <1>1 DEF DialSound, Standing
<1>3. Labelled(i, Ask(i), d) /\ Reported(Ask(i), d)
  BY <1>1 DEF DialSound, Labelled, Reported
<1> QED  BY <1>2, <1>3, StayKept DEF DialSound

\* The first look
LEMMA StartKept ==
    ASSUME DialInv, NEW i \in Dials, StartDial(i), UNCHANGED <<scene, knocks>>
    PROVE  DialInv'
<1>1. DOMAIN dl = Dials /\ DialSound(i, dl[i]) /\ dl[i] \in DialRecs /\ dl[i].at = "new"
  BY DEF DialInv, DialSound, StartDial
<1>2. PICK p \in {"accept", "next"} : /\ dl' = [dl EXCEPT ![i].at = p] /\ UNCHANGED <<open, backlog>>
                                      /\ p = "accept" <=> Ask(i).op = "accept"
  BY ZenonT(30) DEF StartDial
<1> DEFINE d == [dl[i] EXCEPT !.at = p]
<1>3. Changes(i, d)
  BY <1>1, <1>2 DEF Changes, DialRecs
<1>4. /\ d \in DialRecs /\ d.at = p /\ d.fd = dl[i].fd /\ d.out = dl[i].out /\ d.next = dl[i].next
      /\ d.failure = dl[i].failure /\ d.ends = dl[i].ends /\ d.stopped = dl[i].stopped
  BY <1>1, ZenonT(30) DEF DialRecs, DialAt
<1> HIDE DEF d
<1>5. dl[i].out = None /\ Tried(Ask(i), d) /\ Shaken(Ask(i), d, Turns(i))
  BY <1>1, <1>2, <1>4 DEF DialSound, Standing, Tried, Shaken
<1> QED  BY <1>1, <1>2, <1>3, <1>4, <1>5, GoesOn DEF Trying

\* A task that parks, or carries on where it parked: nothing it has found out changes
LEMMA ParkKept ==
    ASSUME DialInv, NEW i \in Dials, UNCHANGED <<scene, open, backlog, knocks>>, NEW p \in DialAt, NEW o \in {"none", "read", "write"},
           dl' = [dl EXCEPT ![i].at = p, ![i].on = o],
           \/ {dl[i].at, p} \subseteq {"connecting", "check"}
           \/ {dl[i].at, p} \subseteq {"accepting", "accept"}
           \/ {dl[i].at, p} \subseteq {"shaking", "shake"}
    PROVE  DialInv'
<1>1. DOMAIN dl = Dials /\ DialSound(i, dl[i]) /\ dl[i] \in DialRecs
  BY DEF DialInv, DialSound
<1> DEFINE d == [dl[i] EXCEPT !.at = p, !.on = o]
<1>3. Changes(i, d)
  BY <1>1 DEF Changes, DialRecs
<1>4. /\ d \in DialRecs /\ d.at = p /\ d.fd = dl[i].fd /\ d.out = dl[i].out /\ d.next = dl[i].next
      /\ d.failure = dl[i].failure /\ d.ends = dl[i].ends /\ d.stopped = dl[i].stopped
      /\ d.turn = dl[i].turn /\ d.flights = dl[i].flights
  BY <1>1, ZenonT(30) DEF DialRecs
<1> HIDE DEF d
<1>5. Tried(Ask(i), d) /\ Shaken(Ask(i), d, Turns(i))
  BY <1>1, <1>4 DEF DialSound, Tried, Shaken
<1> QED  BY <1>1, <1>3, <1>4, <1>5, GoesOn DEF Trying, DialSound, Standing

\* wait_on, and what comes after it
LEMMA WakeKept ==
    ASSUME DialInv, NEW i \in Dials, WakeDial(i) \/ Requeue(i), UNCHANGED <<scene, knocks>>
    PROVE  DialInv'
<1>1. DOMAIN dl = Dials /\ dl[i] \in DialRecs
  BY DEF DialInv, DialSound
<1>2. PICK p \in {"check", "accept", "shake"} :
        /\ dl' = [dl EXCEPT ![i].at = p] /\ UNCHANGED <<open, backlog>>
        /\ \/ p = "check" /\ dl[i].at = "connecting"
           \/ p = "accept" /\ dl[i].at = "accepting"
           \/ p = "shake" /\ dl[i].at = "shaking"
  <2>1. /\ dl[i].at \in DOMAIN Resume /\ UNCHANGED <<open, backlog>>
        /\ dl' = [dl EXCEPT ![i].at = Resume[@]]
    BY DEF WakeDial, Requeue
  <2>2. DOMAIN Resume = {"connecting", "accepting", "shaking"} /\ Resume["connecting"] = "check"
        /\ Resume["accepting"] = "accept" /\ Resume["shaking"] = "shake"
    BY DEF Resume
  <2>3. dl' = [dl EXCEPT ![i].at = Resume[dl[i].at]]
    BY <1>1, <2>1
  <2> QED  BY <2>1, <2>2, <2>3, ZenonT(30)
<1>3. dl[i].on \in {"none", "read", "write"}
  BY <1>1 DEF DialRecs
<1>4. dl' = [dl EXCEPT ![i].at = p, ![i].on = dl[i].on]
  BY <1>1, <1>2, <1>3, ZenonT(30) DEF DialRecs
<1> QED  BY <1>2, <1>3, <1>4, ParkKept, ZenonT(30) DEF DialAt, Trying

\* A task that opens a socket of its own
LEMMA OpenKept ==
    ASSUME DialInv, NEW i \in Dials, NEW d, Changes(i, d), UNCHANGED <<scene, backlog, knocks>>,
           Ask(i).op # "accept", DialSound(i, d), dl[i].fd = None, dl[i].out = None, d.out = None, d.fd # None,
           open' = open \cup {d.fd}
    PROVE  DialInv'
<1>1. Hold(dl[i]) = {} /\ Hold(d) = {d.fd}
  BY DEF Hold
<1> QED  BY <1>1, DialMoves DEF Changes

\* The next address
LEMMA TryKept ==
    ASSUME DialInv, NEW i \in Dials, TryNext(i), UNCHANGED <<scene, knocks>>
    PROVE  DialInv'
<1>1. DOMAIN dl = Dials /\ DialSound(i, dl[i]) /\ dl[i] \in DialRecs /\ dl[i].at = "next" /\ scene \in Scenes
  BY DEF DialInv, DialSound, TryNext
<1> DEFINE k == dl[i].next
           addrs == Ask(i).addrs
<1>2. /\ dl[i].fd = None /\ dl[i].out = None /\ Ask(i).op # "accept" /\ dl[i].failure = k - 1
      /\ k \in Nat \ {0} /\ k <= Len(addrs) + 1 /\ Len(addrs) \in Nat
      /\ Ask(i).op = "connect" => \A n \in 1..(k - 1) : addrs[n] \notin Works
      /\ dl[i].ends \in {"none", "stopped"} /\ (dl[i].stopped => dl[i].ends = "stopped")
      /\ i \in Nat \ {0}
  <2>1. dl[i].fd = None /\ dl[i].out = None /\ Ask(i).op # "accept"
    BY <1>1 DEF DialSound, Standing, Trying
  <2>2. k \in Nat \ {0} /\ k <= Len(addrs) + 1 /\ Len(addrs) \in Nat /\ i \in Nat \ {0}
    BY <1>1, <2>1, Asked DEF DialSound, Labelled, DialRecs
  <2>3. dl[i].failure = k - 1 /\ (Ask(i).op = "connect" => \A n \in 1..(k - 1) : addrs[n] \notin Works)
    BY <1>1, <2>1 DEF DialSound, Tried
  <2>4. dl[i].ends \in {"none", "stopped"} /\ (dl[i].stopped => dl[i].ends = "stopped")
    BY <1>1 DEF DialSound, Standing
  <2> QED  BY <2>1, <2>2, <2>3, <2>4
<1>8. /\ UNCHANGED backlog
      /\ \/ k > Len(addrs) /\ DialFails(i, IF dl[i].failure = 0 THEN "badaddress" ELSE "failed")
         \/ /\ k <= Len(addrs) /\ addrs[k] \in {"none", "refused"}
            /\ dl' = [dl EXCEPT ![i].next = k + 1, ![i].failure = k] /\ UNCHANGED open
         \/ /\ k <= Len(addrs) /\ addrs[k] \in {"ok", "nameless"} /\ open' = open \cup {<<i, k>>}
            /\ dl' = [dl EXCEPT ![i].at = "named", ![i].fd = <<i, k>>, ![i].next = k + 1]
         \/ /\ k <= Len(addrs) /\ addrs[k] \in {"slow", "late"} /\ open' = open \cup {<<i, k>>}
            /\ dl' = [dl EXCEPT ![i].at = "check", ![i].fd = <<i, k>>, ![i].next = k + 1]
  BY ZenonT(30) DEF TryNext
<1>3. CASE k > Len(addrs) /\ DialFails(i, IF dl[i].failure = 0 THEN "badaddress" ELSE "failed")
  <2>1. UNCHANGED backlog /\ DialFails(i, IF dl[i].failure = 0 THEN "badaddress" ELSE "failed")
    BY <1>3, <1>8
  <2>2. CASE dl[i].failure = 0
    <3>1. Len(addrs) = 0 /\ addrs \in Seq({"none", "refused", "ok", "nameless", "slow", "late"})
      BY <1>1, <1>2, <1>3, <2>2, Asked
    <3>2. addrs = <<>>
      BY <3>1
    <3> QED  BY <1>1, <2>1, <2>2, <3>2, FailKept
  <2>3. CASE dl[i].failure # 0
    <3>1. dl[i].next > Len(addrs) /\ dl[i].failure = Len(addrs)
      BY <1>2, <1>3
    <3> QED  BY <1>1, <2>1, <2>3, <3>1, FailKept
  <2> QED  BY <2>2, <2>3
<1>4. CASE /\ k <= Len(addrs) /\ addrs[k] \in {"none", "refused"}
             /\ dl' = [dl EXCEPT ![i].next = k + 1, ![i].failure = k] /\ UNCHANGED open
  <2> DEFINE d == [dl[i] EXCEPT !.next = k + 1, !.failure = k]
  <2>1. dl' = [dl EXCEPT ![i].next = k + 1, ![i].failure = k] /\ UNCHANGED <<open, backlog>>
    BY <1>4, <1>8
  <2>2. Changes(i, d)
    BY <1>1, <2>1 DEF Changes, DialRecs
  <2>3. /\ d \in DialRecs /\ d.at = "next" /\ d.fd = None /\ d.out = None /\ d.next = k + 1 /\ d.failure = k
        /\ d.ends = dl[i].ends /\ d.stopped = dl[i].stopped
    <3>1. k + 1 \in Nat \ {0} /\ k \in Nat
      BY <1>2
    <3> QED  BY <1>1, <1>2, <3>1, ZenonT(30) DEF DialRecs
  <2> HIDE DEF d
  <2>4. Standing(Ask(i), d) /\ Labelled(i, Ask(i), d)
    BY <1>2, <1>4, <2>3 DEF Standing, Labelled, Trying
  <2>5. Tried(Ask(i), d)
    BY <1>2, <1>4, <2>3 DEF Tried, Works
  <2>6. Shaken(Ask(i), d, Turns(i)) /\ Reported(Ask(i), d)
    BY <1>2, <2>3 DEF Shaken, Reported
  <2> QED  BY <1>2, <2>1, <2>2, <2>3, <2>4, <2>5, <2>6, StayKept DEF DialSound
<1>5. ASSUME k <= Len(addrs), NEW p \in {"named", "check"}, open' = open \cup {<<i, k>>}, UNCHANGED backlog,
             p = "named" => addrs[k] \in Works, p = "check" => addrs[k] \in {"slow", "late"},
             dl' = [dl EXCEPT ![i].at = p, ![i].fd = <<i, k>>, ![i].next = k + 1]
      PROVE  DialInv'
  <2> DEFINE d == [dl[i] EXCEPT !.at = p, !.fd = <<i, k>>, !.next = k + 1]
  <2>2. Changes(i, d)
    BY <1>1, <1>5 DEF Changes, DialRecs
  <2>3. /\ d \in DialRecs /\ d.at = p /\ d.fd = <<i, k>> /\ d.out = None /\ d.next = k + 1 /\ d.failure = dl[i].failure
        /\ d.ends = dl[i].ends /\ d.stopped = dl[i].stopped
    <3>1. k + 1 \in Nat \ {0} /\ <<i, k>> \in Fds /\ p \in DialAt
      BY <1>2 DEF Fds, DialAt, Trying
    <3> QED  BY <1>1, <1>2, <3>1, ZenonT(30) DEF DialRecs
  <2> HIDE DEF d
  <2>4. d.fd # None /\ d.fd = <<i, d.next - 1>> /\ d.next - 1 = k
    BY <1>2, <2>3 DEF None
  <2>5. Standing(Ask(i), d) /\ Labelled(i, Ask(i), d)
    BY <1>2, <1>5, <2>3, <2>4 DEF Standing, Labelled, Trying
  <2>6. Tried(Ask(i), d)
    BY <1>2, <1>5, <2>3, <2>4 DEF Tried
  <2>7. Shaken(Ask(i), d, Turns(i)) /\ Reported(Ask(i), d)
    BY <1>2, <2>3 DEF Shaken, Reported
  <2>8. DialSound(i, d)
    BY <1>2, <2>3, <2>5, <2>6, <2>7 DEF DialSound
  <2> QED  BY <1>2, <1>5, <2>2, <2>3, <2>4, <2>8, OpenKept, ZenonT(30)
<1>6. CASE /\ k <= Len(addrs) /\ addrs[k] \in {"ok", "nameless"} /\ open' = open \cup {<<i, k>>}
             /\ dl' = [dl EXCEPT ![i].at = "named", ![i].fd = <<i, k>>, ![i].next = k + 1]
  BY <1>5, <1>6, <1>8, ZenonT(30) DEF Works
<1>7. CASE /\ k <= Len(addrs) /\ addrs[k] \in {"slow", "late"} /\ open' = open \cup {<<i, k>>}
             /\ dl' = [dl EXCEPT ![i].at = "check", ![i].fd = <<i, k>>, ![i].next = k + 1]
  BY <1>5, <1>7, <1>8, ZenonT(30)
<1> QED  BY <1>3, <1>4, <1>6, <1>7, <1>8, ZenonT(30)

\* An address that came to nothing: its socket is let go of, and the next is up
LEMMA MovesOn ==
    ASSUME DialInv, NEW i \in Dials, NEW d \in DialRecs, Changes(i, d), UNCHANGED <<scene, backlog, knocks>>,
           Closing(dl[i].fd), dl[i].at \in {"check", "named"}, Ask(i).op # "accept",
           Ask(i).op = "connect" => Ask(i).addrs[dl[i].next - 1] \notin Works,
           d.at = "next", d.fd = None, d.out = dl[i].out, d.next = dl[i].next, d.failure = d.next - 1,
           d.ends = dl[i].ends, d.stopped = dl[i].stopped
    PROVE  DialInv'
<1>1. DialSound(i, dl[i]) /\ dl[i] \in DialRecs /\ scene \in Scenes
  BY DEF DialInv, DialSound
<1>2. d.out = None /\ Standing(Ask(i), d)
  BY <1>1 DEF DialSound, Standing, Trying
<1>3. Labelled(i, Ask(i), d)
  BY <1>1, <1>2 DEF DialSound, Labelled
<1>4. Tried(Ask(i), d)
  <2>1. dl[i].next \in Nat \ {0}
    BY <1>1 DEF DialRecs
  <2>2. Ask(i).op = "connect" => \A k \in 1..(dl[i].next - 1) : k < dl[i].next - 1 => Ask(i).addrs[k] \notin Works
    BY <1>1 DEF DialSound, Tried
  <2>3. Ask(i).op = "connect" => \A k \in 1..(dl[i].next - 1) : Ask(i).addrs[k] \notin Works
    BY <2>1, <2>2
  <2> QED  BY <1>2, <2>1, <2>3 DEF Tried
<1>5. Shaken(Ask(i), d, Turns(i)) /\ Reported(Ask(i), d)
  BY <1>1, <1>2 DEF DialSound, Shaken, Reported, Standing
<1> QED  BY <1>2, <1>3, <1>4, <1>5, DropKept DEF DialSound, Shifts

\* finished_connecting
LEMMA FinishedKept ==
    ASSUME DialInv, NEW i \in Dials, Finished(i), UNCHANGED <<scene, knocks>>
    PROVE  DialInv'
<1> DEFINE k == dl[i].next - 1
<1>1. DOMAIN dl = Dials /\ DialSound(i, dl[i]) /\ dl[i] \in DialRecs /\ dl[i].at = "check"
  BY DEF DialInv, DialSound, Finished
<1>2. Ask(i).op # "accept" /\ k \in Nat /\ dl[i].next = k + 1
  BY <1>1 DEF DialSound, Standing, DialRecs
<1>3. CASE DialParks(i, "write", "connecting") /\ UNCHANGED <<open, backlog>>
  BY <1>1, <1>3, ParkKept, ZenonT(30) DEF DialParks, DialAt, Trying
<1>4. CASE /\ Ask(i).addrs[k] = "slow" /\ UNCHANGED <<open, backlog>>
           /\ dl' = [dl EXCEPT ![i].at = "named", ![i].flights = 0]
  <2> DEFINE d == [dl[i] EXCEPT !.at = "named", !.flights = 0]
  <2>1. Changes(i, d)
    BY <1>1, <1>4 DEF Changes, DialRecs
  <2>2. /\ d \in DialRecs /\ d.at = "named" /\ d.fd = dl[i].fd /\ d.out = dl[i].out /\ d.next = dl[i].next
        /\ d.failure = dl[i].failure /\ d.ends = dl[i].ends /\ d.stopped = dl[i].stopped
    BY <1>1, ZenonT(30) DEF DialRecs, DialAt, Trying
  <2> HIDE DEF d
  <2>3. dl[i].out = None
    BY <1>1 DEF DialSound, Standing
  <2>4. Tried(Ask(i), d) /\ Shaken(Ask(i), d, Turns(i))
    BY <1>1, <1>4, <2>2, <2>3 DEF DialSound, Tried, Shaken, Works
  <2> QED  BY <1>1, <1>2, <1>4, <2>1, <2>2, <2>4, GoesOn DEF Trying
<1>5. CASE /\ Ask(i).addrs[k] = "late" /\ Closing(dl[i].fd) /\ UNCHANGED backlog
           /\ dl' = [dl EXCEPT ![i].at = "next", ![i].fd = None, ![i].failure = k, ![i].flights = 0]
  <2> DEFINE d == [dl[i] EXCEPT !.at = "next", !.fd = None, !.failure = k, !.flights = 0]
  <2>1. Changes(i, d)
    BY <1>1, <1>5 DEF Changes, DialRecs
  <2>2. /\ d \in DialRecs /\ d.at = "next" /\ d.fd = None /\ d.out = dl[i].out /\ d.next = dl[i].next
        /\ d.failure = k /\ d.ends = dl[i].ends /\ d.stopped = dl[i].stopped
    <3>1. None \in Fds
      BY DEF None, Fds
    <3> QED  BY <1>1, <1>2, <3>1, ZenonT(30) DEF DialRecs, DialAt
  <2>3. Ask(i).addrs[k] \notin Works
    BY <1>5 DEF Works
  <2> HIDE DEF d
  <2> QED  BY <1>1, <1>2, <1>5, <2>1, <2>2, <2>3, MovesOn
<1> QED  BY <1>3, <1>4, <1>5, ZenonT(30) DEF Finished

\* The socket's own address
LEMMA NamedKept ==
    ASSUME DialInv, NEW i \in Dials, Named(i), UNCHANGED <<scene, knocks>>
    PROVE  DialInv'
<1> DEFINE k == dl[i].next - 1
<1>1. DOMAIN dl = Dials /\ DialSound(i, dl[i]) /\ dl[i] \in DialRecs /\ dl[i].at = "named" /\ UNCHANGED backlog
  BY DEF DialInv, DialSound, Named
<1>2. k \in Nat /\ dl[i].next = k + 1 /\ dl[i].out = None
  BY <1>1 DEF DialSound, Standing, DialRecs
<1>3. CASE Ask(i).op = "connect" /\ Ask(i).addrs[k] = "nameless" /\ DialFails(i, "failed")
  BY <1>1, <1>3, FailKept
<1>4. CASE /\ Ask(i).op = "listen" /\ Closing(dl[i].fd)
           /\ dl' = [dl EXCEPT ![i].at = "next", ![i].fd = None, ![i].failure = k]
  <2> DEFINE d == [dl[i] EXCEPT !.at = "next", !.fd = None, !.failure = k]
  <2>1. Changes(i, d)
    BY <1>1, <1>4 DEF Changes, DialRecs
  <2>2. /\ d \in DialRecs /\ d.at = "next" /\ d.fd = None /\ d.out = dl[i].out /\ d.next = dl[i].next
        /\ d.failure = k /\ d.ends = dl[i].ends /\ d.stopped = dl[i].stopped
    <3>1. None \in Fds
      BY DEF None, Fds
    <3> QED  BY <1>1, <1>2, <3>1, ZenonT(30) DEF DialRecs, DialAt
  <2> HIDE DEF d
  <2> QED  BY <1>1, <1>2, <1>4, <2>1, <2>2, MovesOn
<1>5. CASE /\ ~(Ask(i).op # "accept" /\ Ask(i).addrs[k] = "nameless") /\ UNCHANGED open
           /\ dl' = [dl EXCEPT ![i].at = "opened", ![i].on = "none"]
  <2> DEFINE d == [dl[i] EXCEPT !.at = "opened", !.on = "none"]
  <2>1. Changes(i, d)
    BY <1>1, <1>5 DEF Changes, DialRecs
  <2>2. /\ d \in DialRecs /\ d.at = "opened" /\ d.fd = dl[i].fd /\ d.out = dl[i].out /\ d.next = dl[i].next
        /\ d.failure = dl[i].failure /\ d.ends = dl[i].ends /\ d.stopped = dl[i].stopped
    BY <1>1, ZenonT(30) DEF DialRecs, DialAt, Trying
  <2> HIDE DEF d
  <2>3. Tried(Ask(i), d) /\ Shaken(Ask(i), d, Turns(i))
    BY <1>1, <1>2, <1>5, <2>2 DEF DialSound, Tried, Shaken, Works
  <2> QED  BY <1>1, <1>2, <1>5, <2>1, <2>2, <2>3, GoesOn DEF Trying
<1> QED  BY <1>3, <1>4, <1>5, ZenonT(30) DEF Named

\* The session starts, or there is none
LEMMA OpenedKept ==
    ASSUME DialInv, NEW i \in Dials, Opened(i), UNCHANGED <<scene, knocks>>
    PROVE  DialInv'
<1>1. /\ DOMAIN dl = Dials /\ DialSound(i, dl[i]) /\ dl[i] \in DialRecs /\ dl[i].at = "opened"
      /\ UNCHANGED backlog /\ scene \in Scenes
  BY DEF DialInv, DialSound, Opened
<1>2. dl[i].out = None
  BY <1>1 DEF DialSound, Standing
<1>3. CASE ~Ask(i).tls /\ dl' = [dl EXCEPT ![i].at = "done"] /\ UNCHANGED open
  <2> DEFINE d == [dl[i] EXCEPT !.at = "done"]
  <2>1. Changes(i, d)
    BY <1>1, <1>3 DEF Changes, DialRecs
  <2>2. /\ d \in DialRecs /\ d.at = "done" /\ d.fd = dl[i].fd /\ d.out = dl[i].out /\ d.next = dl[i].next
        /\ d.failure = dl[i].failure /\ d.ends = dl[i].ends /\ d.stopped = dl[i].stopped
    BY <1>1, ZenonT(30) DEF DialRecs, DialAt, Trying
  <2> HIDE DEF d
  <2>3. Tried(Ask(i), d) /\ Shaken(Ask(i), d, Turns(i))
    BY <1>1, <1>2, <1>3, <2>2 DEF DialSound, Tried, Shaken
  <2> QED  BY <1>1, <1>2, <1>3, <2>1, <2>2, <2>3, GoesOn DEF Trying
<1>4. CASE Ask(i).tls /\ DialFails(i, "failed")
  BY <1>1, <1>4, FailKept
<1>5. CASE /\ Ask(i).tls /\ Ask(i).peer # "badname" /\ UNCHANGED open
           /\ dl' = [dl EXCEPT ![i].at = "shake", ![i].turn = 1, ![i].flights = 0]
  <2> DEFINE d == [dl[i] EXCEPT !.at = "shake", !.turn = 1, !.flights = 0]
  <2>1. Changes(i, d)
    BY <1>1, <1>5 DEF Changes, DialRecs
  <2>2. /\ d \in DialRecs /\ d.at = "shake" /\ d.fd = dl[i].fd /\ d.out = dl[i].out /\ d.next = dl[i].next
        /\ d.failure = dl[i].failure /\ d.ends = dl[i].ends /\ d.stopped = dl[i].stopped /\ d.turn = 1 /\ d.flights = 0
    <3>1. 1 \in Nat
      OBVIOUS
    <3> QED  BY <1>1, <3>1, ZenonT(30) DEF DialRecs, DialAt, Trying
  <2> HIDE DEF d
  <2>3. Tried(Ask(i), d)
    BY <1>1, <1>2, <2>2 DEF DialSound, Tried
  <2>4. Shaken(Ask(i), d, Turns(i))
    BY <1>1, <1>2, <1>5, <2>2, Asked DEF Shaken
  <2> QED  BY <1>1, <1>2, <1>5, <2>1, <2>2, <2>3, <2>4, GoesOn DEF Trying
<1> QED  BY <1>3, <1>4, <1>5, ZenonT(30) DEF Opened

\* A flight sent or taken, or the last of them gone
Turned(i, p, o, t, f) == dl' = [dl EXCEPT ![i] = [@ EXCEPT !.at = p, !.on = o, !.turn = t, !.flights = f]]

LEMMA TurnKept ==
    ASSUME DialInv, NEW i \in Dials, UNCHANGED <<scene, open, backlog, knocks>>, dl[i].at \in {"shake", "shaking"},
           NEW p \in {"shake", "shaking", "done"}, NEW o \in {"none", "read", "write"}, NEW t \in Nat, NEW f \in {0, 1},
           Turned(i, p, o, t, f),
           p = "done" => t > Len(Turns(i)) /\ Ask(i).peer = "good",
           t \in 1..(Len(Turns(i)) + 1), f > 0 => Ask(i).peer # "cut",
           t > (IF Ask(i).op = "accept" THEN 1 ELSE 2) => Ask(i).peer = "good"
    PROVE  DialInv'
<1>1. DOMAIN dl = Dials /\ DialSound(i, dl[i]) /\ dl[i] \in DialRecs
  BY DEF DialInv, DialSound
<1>2. dl[i].out = None /\ Ask(i).tls /\ Ask(i).peer # "badname"
  BY <1>1 DEF DialSound, Standing, Shaken
<1> DEFINE d == [dl[i] EXCEPT !.at = p, !.on = o, !.turn = t, !.flights = f]
<1>3. Changes(i, d)
  BY <1>1, ZenonT(30) DEF Changes, Turned
<1>4. /\ d \in DialRecs /\ d.at = p /\ d.fd = dl[i].fd /\ d.out = dl[i].out /\ d.next = dl[i].next
      /\ d.failure = dl[i].failure /\ d.ends = dl[i].ends /\ d.stopped = dl[i].stopped /\ d.turn = t /\ d.flights = f
  BY <1>1, ZenonT(30) DEF DialRecs, DialAt, Trying
<1> HIDE DEF d
<1>5. Tried(Ask(i), d)
  BY <1>1, <1>2, <1>4 DEF DialSound, Tried
<1>6. Shaken(Ask(i), d, Turns(i))
  BY <1>2, <1>4 DEF Shaken
<1> QED  BY <1>1, <1>2, <1>3, <1>4, <1>5, <1>6, GoesOn DEF Trying

\* handshake
LEMMA ShakeKept ==
    ASSUME DialInv, NEW i \in Dials, Shake(i), UNCHANGED <<scene, knocks>>
    PROVE  DialInv'
<1> DEFINE t == dl[i].turn
           f == dl[i].flights
<1>1. /\ DOMAIN dl = Dials /\ DialSound(i, dl[i]) /\ dl[i] \in DialRecs /\ dl[i].at = "shake"
      /\ UNCHANGED backlog /\ scene \in Scenes
  BY DEF DialInv, DialSound, Shake
<1>2. /\ t \in 1..(Len(Turns(i)) + 1) /\ f \in {0, 1} /\ (f > 0 => Ask(i).peer # "cut") /\ Ask(i).peer # "badname"
      /\ t > (IF Ask(i).op = "accept" THEN 1 ELSE 2) => Ask(i).peer = "good"
      /\ Ask(i).tls /\ dl[i].on \in {"none", "read", "write"} /\ Ask(i).peer \in {"good", "cut", "bad", "badname"}
  <2>1. Ask(i) \in Asks
    BY <1>1, Asked
  <2>2. Ask(i).peer \in {"good", "cut", "bad", "badname"}
    BY <2>1 DEF Asks
  <2> QED  BY <1>1, <2>2 DEF DialSound, Shaken, Standing, DialRecs
<1>3. /\ Len(Turns(i)) = (IF Ask(i).op = "accept" THEN 4 ELSE 3)
      /\ t <= Len(Turns(i)) /\ Turns(i)[t] = "send" => (IF Ask(i).op = "accept" THEN t \in {2, 4} ELSE t \in {1, 3})
  BY <1>1, <1>2, Asked
<1>4. CASE t > Len(Turns(i)) /\ dl' = [dl EXCEPT ![i].at = "done"] /\ UNCHANGED open
  <2>1. Turned(i, "done", dl[i].on, t, f)
    BY <1>1, <1>4, ZenonT(30) DEF DialRecs, Turned
  <2>2. t \in Nat /\ Ask(i).peer = "good"
    BY <1>2, <1>3, <1>4
  <2> QED  BY <1>1, <1>2, <1>4, <2>1, <2>2, TurnKept
<1>5. ASSUME NEW o \in {"read", "write"}, DialParks(i, o, "shaking"), UNCHANGED open
      PROVE  DialInv'
  BY <1>1, <1>5, ParkKept, ZenonT(30) DEF DialParks, DialAt, Trying
<1>6. CASE /\ ~(t > Len(Turns(i))) /\ Turns(i)[t] = "send" /\ UNCHANGED open
           /\ dl' = [dl EXCEPT ![i].turn = @ + 1, ![i].on = "none"]
  <2>1. Turned(i, "shake", "none", t + 1, f)
    BY <1>1, <1>6, ZenonT(30) DEF DialRecs, Turned
  <2>2. /\ t + 1 \in Nat /\ t + 1 \in 1..(Len(Turns(i)) + 1)
        /\ t + 1 > (IF Ask(i).op = "accept" THEN 1 ELSE 2) => Ask(i).peer = "good"
    BY <1>2, <1>3, <1>6
  <2> QED  BY <1>1, <1>2, <1>6, <2>1, <2>2, TurnKept
<1>7. CASE /\ ~(t > Len(Turns(i))) /\ f > 0 /\ Ask(i).peer # "bad" /\ UNCHANGED open
           /\ dl' = [dl EXCEPT ![i].turn = @ + 1, ![i].flights = @ - 1]
  <2>1. Turned(i, "shake", dl[i].on, t + 1, f - 1)
    BY <1>1, <1>7, ZenonT(30) DEF DialRecs, Turned
  <2>2. t + 1 \in Nat /\ t + 1 \in 1..(Len(Turns(i)) + 1) /\ f - 1 \in {0, 1} /\ Ask(i).peer = "good"
    BY <1>2, <1>3, <1>7
  <2> QED  BY <1>1, <1>2, <1>7, <2>1, <2>2, TurnKept
<1>8. ASSUME NEW why \in {"failed", "closed"}, DialFails(i, why)
      PROVE  DialInv'
  BY <1>1, <1>2, <1>8, FailKept
<1> QED  BY <1>4, <1>5, <1>6, <1>7, <1>8, ZenonT(30) DEF Shake

\* An answer comes
LEMMA AnswerKept ==
    ASSUME DialInv, NEW i \in Dials, Answer(i), UNCHANGED <<scene, knocks>>
    PROVE  DialInv'
<1>1. /\ DOMAIN dl = Dials /\ DialSound(i, dl[i]) /\ dl[i] \in DialRecs /\ dl' = [dl EXCEPT ![i].flights = 1]
      /\ dl[i].at \in {"check", "connecting", "shake", "shaking"} /\ UNCHANGED <<open, backlog>>
      /\ dl[i].at \in {"shake", "shaking"} => Ask(i).peer # "cut"
  BY ZenonT(30) DEF DialInv, DialSound, Answer
<1>2. CASE dl[i].at \in {"shake", "shaking"}
  <2>1. Turned(i, dl[i].at, dl[i].on, dl[i].turn, 1)
    BY <1>1, ZenonT(30) DEF Turned, DialRecs
  <2>2. /\ dl[i].turn \in 1..(Len(Turns(i)) + 1) /\ dl[i].turn \in Nat /\ dl[i].on \in {"none", "read", "write"}
        /\ dl[i].turn > (IF Ask(i).op = "accept" THEN 1 ELSE 2) => Ask(i).peer = "good"
    BY <1>1, <1>2 DEF DialSound, Shaken, DialRecs
  <2> QED  BY <1>1, <1>2, <2>1, <2>2, TurnKept
<1>3. CASE dl[i].at \in {"check", "connecting"}
  <2> DEFINE d == [dl[i] EXCEPT !.flights = 1]
  <2>1. Changes(i, d)
    BY <1>1 DEF Changes, DialRecs
  <2>2. /\ d \in DialRecs /\ d.at = dl[i].at /\ d.fd = dl[i].fd /\ d.out = dl[i].out /\ d.next = dl[i].next
        /\ d.failure = dl[i].failure /\ d.ends = dl[i].ends /\ d.stopped = dl[i].stopped
    BY <1>1, ZenonT(30) DEF DialRecs
  <2> HIDE DEF d
  <2>3. dl[i].out = None /\ Ask(i).op # "accept"
    BY <1>1, <1>3 DEF DialSound, Standing
  <2>4. Tried(Ask(i), d) /\ Shaken(Ask(i), d, Turns(i))
    BY <1>1, <1>3, <2>2, <2>3 DEF DialSound, Tried, Shaken
  <2> QED  BY <1>1, <1>3, <2>1, <2>2, <2>3, <2>4, GoesOn DEF Trying
<1> QED  BY <1>1, <1>2, <1>3

\* A stop, which closes nothing yet
LEMMA StopKept ==
    ASSUME DialInv, NEW i \in Dials, StopDial(i), UNCHANGED <<scene, knocks>>
    PROVE  DialInv'
<1>1. /\ DOMAIN dl = Dials /\ DialSound(i, dl[i]) /\ dl[i] \in DialRecs /\ UNCHANGED <<open, backlog>>
      /\ dl' = [dl EXCEPT ![i].stopped = TRUE, ![i].ends = "stopped"] /\ dl[i].at # "over"
  BY ZenonT(30) DEF DialInv, DialSound, StopDial
<1> DEFINE d == [dl[i] EXCEPT !.stopped = TRUE, !.ends = "stopped"]
<1>2. Changes(i, d)
  BY <1>1, ZenonT(30) DEF Changes, DialRecs
<1>3. /\ d \in DialRecs /\ d.at = dl[i].at /\ d.fd = dl[i].fd /\ d.out = dl[i].out /\ d.next = dl[i].next
      /\ d.failure = dl[i].failure /\ d.ends = "stopped" /\ d.turn = dl[i].turn /\ d.flights = dl[i].flights
  BY <1>1, ZenonT(30) DEF DialRecs
<1> HIDE DEF d
<1>5. Standing(Ask(i), d) /\ Labelled(i, Ask(i), d)
  BY <1>1, <1>3 DEF DialSound, Standing, Labelled
<1>6. Tried(Ask(i), d)
  BY <1>1, <1>3 DEF DialSound, Tried
<1>7. Shaken(Ask(i), d, Turns(i)) /\ Reported(Ask(i), d)
  BY <1>1, <1>3 DEF DialSound, Shaken, Reported
<1> QED  BY <1>1, <1>2, <1>3, <1>5, <1>6, <1>7, StayKept DEF DialSound

\* A parked task dropped
LEMMA DropDialKept ==
    ASSUME DialInv, NEW i \in Dials, DropDial(i), UNCHANGED <<scene, knocks>>
    PROVE  DialInv'
<1>1. dl[i].at # "over" /\ DialFails(i, "stopped") /\ UNCHANGED backlog
  BY DEF DropDial, Resume
<1> QED  BY <1>1, FailKept

\* The connection is handed out, or dropped by the slot
LEMMA HandKept ==
    ASSUME DialInv, NEW i \in Dials, Hand(i)
    PROVE  DialInv'
<1>1. /\ DOMAIN dl = Dials /\ DialSound(i, dl[i]) /\ dl[i] \in DialRecs /\ UNCHANGED <<scene, backlog, knocks>>
      /\ dl[i].at = "done"
  BY DEF DialInv, DialSound, Hand
<1>2. dl[i].out = None /\ (dl[i].stopped => dl[i].ends = "stopped")
  BY <1>1 DEF DialSound, Standing
<1>3. CASE DialFails(i, "stopped")
  BY <1>1, <1>3, FailKept
<1>4. ASSUME NEW why \in {"ok", "stopped"}, dl[i].stopped => why = "stopped", UNCHANGED open,
             dl' = [dl EXCEPT ![i].at = "over", ![i].ends = why, ![i].fd = None, ![i].out = dl[i].fd]
      PROVE  DialInv'
  <2> DEFINE d == [dl[i] EXCEPT !.at = "over", !.ends = why, !.fd = None, !.out = dl[i].fd]
  <2>1. Changes(i, d)
    BY <1>1, <1>4, ZenonT(30) DEF Changes, DialRecs
  <2>2. /\ d \in DialRecs /\ d.at = "over" /\ d.fd = None /\ d.out = dl[i].fd /\ d.next = dl[i].next
        /\ d.failure = dl[i].failure /\ d.ends = why /\ d.turn = dl[i].turn /\ d.stopped = dl[i].stopped
    <3>1. None \in Fds
      BY DEF None, Fds
    <3> QED  BY <1>1, <3>1, ZenonT(30) DEF DialRecs, DialAt
  <2> HIDE DEF d
  <2>3. Standing(Ask(i), d) /\ Labelled(i, Ask(i), d)
    BY <1>1, <1>2, <1>4, <2>2 DEF DialSound, Standing, Labelled, Trying
  <2>4. Tried(Ask(i), d)
    BY <1>1, <1>2, <2>2 DEF DialSound, Tried
  <2>5. Shaken(Ask(i), d, Turns(i)) /\ Reported(Ask(i), d)
    BY <1>1, <1>2, <2>2 DEF DialSound, Shaken, Reported
  <2>6. DialSound(i, d)
    BY <1>4, <2>2, <2>3, <2>4, <2>5 DEF DialSound
  <2>7. Hold(d) = Hold(dl[i]) /\ Hold(dl[i]) \subseteq open
    BY <1>2, <2>2 DEF Hold, DialInv, Owned
  <2>8. open' = (open \ Hold(dl[i])) \cup Hold(d)
    BY <1>4, <2>7
  <2> QED  BY <1>1, <2>1, <2>6, <2>7, <2>8, DialMoves DEF Changes
<1>5. CASE scene.request /\ dl[i].stopped
  <2>1. /\ UNCHANGED open
        /\ dl' = [dl EXCEPT ![i].at = "over", ![i].ends = "stopped", ![i].fd = None, ![i].out = dl[i].fd]
    BY <1>2, <1>5, ZenonT(30) DEF Hand
  <2> QED  BY <1>4, <2>1
<1>6. CASE ~dl[i].stopped
  <2>1. /\ UNCHANGED open
        /\ dl' = [dl EXCEPT ![i].at = "over", ![i].ends = "ok", ![i].fd = None, ![i].out = dl[i].fd]
    BY <1>6, ZenonT(30) DEF Hand
  <2> QED  BY <1>4, <1>6, <2>1
<1> QED  BY <1>3, <1>5, <1>6, ZenonT(30) DEF Hand

\* A request that is over lets go of the connection it was given
LEMMA GiveBackKept ==
    ASSUME DialInv, 1 \in Dials, UNCHANGED <<scene, backlog, knocks>>,
           open' = open \ {dl[1].out}, dl' = [dl EXCEPT ![1].out = None]
    PROVE  DialInv'
<1>1. DOMAIN dl = Dials /\ DialSound(1, dl[1]) /\ dl[1] \in DialRecs
  BY DEF DialInv, DialSound
<1> DEFINE d == [dl[1] EXCEPT !.out = None]
<1>2. Changes(1, d)
  BY <1>1, ZenonT(30) DEF Changes, DialRecs
<1>3. /\ d \in DialRecs /\ d.at = dl[1].at /\ d.fd = dl[1].fd /\ d.out = None /\ d.next = dl[1].next
      /\ d.failure = dl[1].failure /\ d.ends = dl[1].ends /\ d.turn = dl[1].turn /\ d.flights = dl[1].flights
      /\ d.stopped = dl[1].stopped
  <2>1. None \in Fds
    BY DEF None, Fds
  <2> QED  BY <1>1, <2>1, ZenonT(30) DEF DialRecs
<1> HIDE DEF d
<1>4. Standing(Ask(1), d)
  BY <1>1, <1>3 DEF DialSound, Standing
<1>5. Labelled(1, Ask(1), d)
  <2>1. None[1] = 0
    BY DEF None
  <2> QED  BY <1>1, <1>3, <2>1 DEF DialSound, Labelled
<1>6. Tried(Ask(1), d)
  BY <1>1, <1>3 DEF DialSound, Tried
<1>7. Shaken(Ask(1), d, Turns(1)) /\ Reported(Ask(1), d)
  BY <1>1, <1>3 DEF DialSound, Shaken, Reported
<1>8. DialSound(1, d)
  BY <1>1, <1>3, <1>4, <1>5, <1>6, <1>7 DEF DialSound
<1>9. dl[1].fd = None \/ dl[1].out = None
  BY <1>1 DEF DialSound, Standing, Trying
<1>10. Hold(d) = Hold(dl[1]) \ {dl[1].out} /\ Hold(dl[1]) \subseteq open /\ None \notin open
  BY <1>3, <1>9 DEF Hold, DialInv, Owned
<1>11. open' = (open \ Hold(dl[1])) \cup Hold(d) /\ Hold(d) \subseteq Hold(dl[1])
  BY <1>9, <1>10 DEF Hold
<1> QED  BY <1>2, <1>8, <1>11, DialMoves DEF Changes

\* Somebody joins the queue
LEMMA KnockKept ==
    ASSUME DialInv, Knock, scene' = scene
    PROVE  DialInv'
<1>1. Waiting /\ scene \in Scenes
  BY DEF DialInv
<1>2. knocks' = knocks + 1 /\ backlog' = Append(backlog, <<0, knocks + 1>>) /\ UNCHANGED <<dl, open>>
  BY DEF Knock
<1>3. knocks \in Nat /\ backlog \in Seq(Fds) /\ Len(backlog) <= knocks /\ Len(backlog) \in Nat /\ <<0, knocks + 1>> \in Fds
  BY <1>1 DEF Waiting, Fds
<1>4. /\ backlog' \in Seq(Fds) /\ Len(backlog') = Len(backlog) + 1
      /\ \A k \in 1..Len(backlog') : backlog'[k] = IF k <= Len(backlog) THEN backlog[k] ELSE <<0, knocks + 1>>
  BY <1>2, <1>3
<1>5. knocks' - Len(backlog') = knocks - Len(backlog) /\ Len(backlog') <= knocks' /\ knocks' \in Nat
  BY <1>2, <1>3, <1>4
<1>6. \A k \in 1..Len(backlog') : backlog'[k] = <<0, knocks' - Len(backlog') + k>>
  <2> TAKE k \in 1..Len(backlog')
  <2>1. CASE k <= Len(backlog)
    <3>1. k \in 1..Len(backlog)
      BY <1>3, <2>1
    <3>2. backlog'[k] = backlog[k] /\ backlog[k] = <<0, knocks - Len(backlog) + k>>
      BY <1>1, <1>4, <2>1, <3>1 DEF Waiting
    <3> QED  BY <1>5, <3>2
  <2>2. CASE ~(k <= Len(backlog))
    <3>1. k = Len(backlog) + 1 /\ knocks - Len(backlog) + k = knocks + 1
      BY <1>3, <1>4, <2>2
    <3>2. backlog'[k] = <<0, knocks + 1>>
      BY <1>4, <2>2
    <3> QED  BY <1>5, <3>1, <3>2
  <2> QED  BY <2>1, <2>2
<1>7. Dials' = Dials /\ (\A j \in Dials : Ask(j)' = Ask(j) /\ Turns(j)' = Turns(j))
  BY DEF Dials, Ask, Turns
<1>8. Waiting'
  <2>1. \A i \in Dials : Ask(i).op = "accept" =>
          dl[i].fd[2] <= knocks - Len(backlog) /\ dl[i].out[2] <= knocks - Len(backlog)
    BY <1>1 DEF Waiting
  <2> QED  BY <1>2, <1>4, <1>5, <1>6, <1>7, <2>1 DEF Waiting
<1>9. (\A i \in Dials : DialSound(i, dl[i]))' /\ Owned'
  BY <1>2, <1>7 DEF DialInv, DialSound, Owned
<1> QED  BY <1>1, <1>2, <1>7, <1>8, <1>9 DEF DialInv

\* The accept loop and adopt
LEMMA AcceptKept ==
    ASSUME DialInv, NEW i \in Dials, Accept(i), UNCHANGED <<scene, knocks>>
    PROVE  DialInv'
<1>1. /\ DOMAIN dl = Dials /\ DialSound(i, dl[i]) /\ dl[i] \in DialRecs /\ dl[i].at = "accept"
      /\ Waiting /\ scene \in Scenes
  BY DEF DialInv, DialSound, Accept
<1>2. /\ Ask(i).op = "accept" /\ dl[i].fd = None /\ dl[i].out = None
      /\ dl[i].ends \in {"none", "stopped"} /\ (dl[i].stopped => dl[i].ends = "stopped")
  BY <1>1 DEF DialSound, Standing, Trying
<1>3. CASE DialParks(i, "read", "accepting") /\ UNCHANGED <<open, backlog>>
  BY <1>1, <1>3, ParkKept, ZenonT(30) DEF DialParks, DialAt, Trying
<1>4. CASE backlog # <<>> /\ backlog' = Tail(backlog) /\ UNCHANGED <<dl, open>>
  <2>1. Shifts /\ Hold(dl[i]) \subseteq open /\ (\A j \in Dials : j # i => dl'[j] = dl[j])
    BY <1>4 DEF Shifts, DialInv, Owned, Hold
  <2>2. open' = (open \ Hold(dl[i])) \cup Hold(dl[i])
    BY <1>4, <2>1
  <2> QED  BY <1>1, <1>4, <2>1, <2>2, DialShifts
<1>5. CASE backlog # <<>> /\ backlog' = Tail(backlog) /\ DialFails(i, "failed")
  BY <1>1, <1>2, <1>5, FailShifts DEF Shifts
<1>6. CASE /\ backlog # <<>> /\ backlog' = Tail(backlog) /\ open' = open \cup {Head(backlog)}
           /\ dl' = [dl EXCEPT ![i].at = "named", ![i].fd = Head(backlog)]
  <2>1. Shifts
    BY <1>6 DEF Shifts
  <2> DEFINE fd == Head(backlog)
             m == knocks' - Len(backlog')
  <2>2. fd = <<0, m>> /\ m \in Nat \ {0}
    <3>1. fd = <<0, m>> /\ m = knocks - Len(backlog) + 1 /\ knocks - Len(backlog) \in Nat
      BY <1>1, <1>6, <2>1, Shifted
    <3> QED  BY <3>1
  <2>3. fd \in Fds /\ fd # None /\ fd[1] = 0
    BY <2>2 DEF Fds, None
  <2> HIDE DEF fd, m
  <2> DEFINE d == [dl[i] EXCEPT !.at = "named", !.fd = fd]
  <2>4. Changes(i, d)
    BY <1>1, <1>6, ZenonT(30) DEF Changes, DialRecs, fd
  <2>5. /\ d \in DialRecs /\ d.at = "named" /\ d.fd = fd /\ d.out = None /\ d.next = dl[i].next
        /\ d.failure = dl[i].failure /\ d.ends = dl[i].ends /\ d.stopped = dl[i].stopped
    BY <1>1, <1>2, <2>3, ZenonT(30) DEF DialRecs, DialAt, Trying
  <2> HIDE DEF d
  <2>6. Standing(Ask(i), d)
    BY <1>2, <2>3, <2>5 DEF Standing, Trying
  <2>7. Labelled(i, Ask(i), d)
    BY <1>1, <1>2, <2>3, <2>5 DEF DialSound, Labelled
  <2>8. Tried(Ask(i), d) /\ Shaken(Ask(i), d, Turns(i)) /\ Reported(Ask(i), d)
    BY <1>2, <2>5 DEF Tried, Shaken, Reported
  <2>9. DialSound(i, d)
    BY <1>2, <2>5, <2>6, <2>7, <2>8 DEF DialSound
  <2>10. Hold(dl[i]) = {} /\ Hold(d) = {Head(backlog)}
    BY <1>2, <2>3, <2>5 DEF Hold, fd
  <2>11. open' = (open \ Hold(dl[i])) \cup Hold(d)
    BY <1>6, <2>10
  <2> QED  BY <1>6, <2>1, <2>4, <2>9, <2>10, <2>11, DialShifts, ZenonT(30) DEF Changes
<1> QED  BY <1>3, <1>4, <1>5, <1>6, ZenonT(30) DEF Accept

-----------------------------------------------------------------------------
(* Datagrams.                                                              *)

\* How many have been taken
LEMMA TakenFinite ==
    ASSUME scene \in Scenes
    PROVE  IsFiniteSet(Taken) /\ Cardinality(Taken) \in Nat
<1>1. Grams = 1..Len(scene.grams) /\ Len(scene.grams) \in Nat
  <2>1. scene.grams \in Seq(GramAsks)
    BY SocketAssumption
  <2> QED  BY <2>1 DEF Grams
<1>2. IsFiniteSet(Grams)
  <2>1. 1 \in Int /\ Len(scene.grams) \in Int
    BY <1>1
  <2>2. IsFiniteSet(1..Len(scene.grams))
    BY <2>1, FS_Interval, ZenonT(30)
  <2> QED  BY <1>1, <2>2
<1>3. Taken \subseteq Grams
  BY DEF Taken
<1>4. IsFiniteSet(Taken)
  BY <1>2, <1>3, FS_Subset
<1> QED  BY <1>4, FS_CardinalityType

\* A task that takes none
LEMMA GramStays ==
    ASSUME GramInv, NEW i \in Grams, NEW g, UNCHANGED <<scene, inbox>>, DOMAIN dg' = Grams, dg'[i] = g,
           \A j \in Grams : j # i => dg'[j] = dg[j], GramSound(g), scene.grams[i].op = "recv" => g.out = dg[i].out
    PROVE  GramInv'
<1>1. Grams' = Grams
  BY DEF Grams
<1>2. \A j \in Grams : scene.grams[j].op = "recv" => dg'[j].out = dg[j].out
  OBVIOUS
<1>3. Taken' = Taken
  BY <1>1, <1>2 DEF Taken
<1>4. scene \in Scenes /\ \A j \in Grams : GramSound(dg[j])
  BY DEF GramInv
<1>5. \A j \in Grams : GramSound(dg'[j])
  BY <1>4
<1>6. (\A j \in Grams : GramSound(dg[j]))'
  BY <1>1, <1>5 DEF GramSound
<1>7. (\A j \in Grams : scene.grams[j].op = "recv" => dg[j].out \in 0..Cardinality(Taken))'
  <2>1. \A j \in Grams : scene.grams[j].op = "recv" => dg[j].out \in 0..Cardinality(Taken)
    BY DEF GramInv
  <2>2. \A j \in Grams : scene.grams[j].op = "recv" => dg'[j].out \in 0..Cardinality(Taken)
    BY <1>2, <2>1
  <2> QED  BY <1>1, <1>3, <2>2
<1>8. (\A j, k \in Taken : j # k => dg[j].out # dg[k].out)'
  <2>1. \A j \in Taken : dg'[j].out = dg[j].out
    BY <1>2 DEF Taken
  <2> QED  BY <1>3, <2>1 DEF GramInv
<1>9. (inbox \in Seq(Nat) /\ \A k \in 1..Len(inbox) : inbox[k] = Cardinality(Taken) + k)'
  BY <1>3 DEF GramInv
<1> QED  BY <1>1, <1>4, <1>6, <1>7, <1>8, <1>9 DEF GramInv

\* A receive takes the first
LEMMA TakeKept ==
    ASSUME GramInv, NEW i \in Grams, NEW g, scene' = scene, scene.grams[i].op = "recv", dg[i].at # "over",
           inbox # <<>>, inbox' = Tail(inbox), DOMAIN dg' = Grams, dg'[i] = g,
           \A j \in Grams : j # i => dg'[j] = dg[j], GramSound(g), g.out = Head(inbox)
    PROVE  GramInv'
<1> DEFINE n == Cardinality(Taken)
<1>1. Grams' = Grams
  BY DEF Grams
<1>2. scene \in Scenes /\ (\A j \in Grams : GramSound(dg[j])) /\ IsFiniteSet(Taken) /\ n \in Nat
  BY TakenFinite DEF GramInv
<1>3. /\ inbox \in Seq(Nat) /\ Len(inbox) \in Nat /\ Len(inbox) > 0 /\ Head(inbox) = inbox[1]
      /\ Tail(inbox) \in Seq(Nat) /\ Len(Tail(inbox)) = Len(inbox) - 1
      /\ \A k \in 1..Len(Tail(inbox)) : Tail(inbox)[k] = inbox[k + 1]
  <2>1. inbox \in Seq(Nat)
    BY DEF GramInv
  <2> QED  BY <2>1
<1>4. \A k \in 1..Len(inbox) : inbox[k] = n + k
  BY DEF GramInv
<1>5. g.out = n + 1
  BY <1>2, <1>3, <1>4
<1>6. dg[i].out = 0 /\ i \notin Taken
  BY <1>2 DEF GramSound, Taken
<1>7. Taken' = Taken \cup {i}
  <2>1. dg'[i].out # 0
    BY <1>2, <1>5
  <2> QED  BY <1>1, <2>1 DEF Taken
<1>8. Cardinality(Taken') = n + 1
  BY <1>2, <1>6, <1>7, FS_AddElement, ZenonT(30)
<1> HIDE DEF n
<1>9. (\A j \in Grams : GramSound(dg[j]))'
  <2>1. \A j \in Grams : GramSound(dg'[j])
    BY <1>2
  <2> QED  BY <1>1, <2>1, ZenonT(30) DEF GramSound
<1>10. \A j \in Grams : scene.grams[j].op = "recv" => dg[j].out \in 0..n
  BY ZenonT(30) DEF GramInv, n
<1>11. (\A j \in Grams : scene.grams[j].op = "recv" => dg[j].out \in 0..Cardinality(Taken))'
  <2>1. \A j \in Grams : scene.grams[j].op = "recv" => dg'[j].out \in 0..(n + 1)
    <3> TAKE j \in Grams
    <3>1. CASE j = i
      BY <1>2, <1>5, <3>1
    <3>2. CASE j # i
      BY <1>2, <1>10, <3>2
    <3> QED  BY <3>1, <3>2
  <2> QED  BY <1>1, <1>8, <2>1
<1>12. (\A j, k \in Taken : j # k => dg[j].out # dg[k].out)'
  <2>1. \A j \in Taken : dg'[j].out = dg[j].out /\ dg[j].out # n + 1
    BY <1>2, <1>6, <1>10 DEF Taken
  <2>2. \A j, k \in Taken : j # k => dg[j].out # dg[k].out
    BY DEF GramInv
  <2>3. \A j, k \in Taken \cup {i} : j # k => dg'[j].out # dg'[k].out
    BY <1>5, <2>1, <2>2
  <2> QED  BY <1>7, <2>3
<1>13. (inbox \in Seq(Nat) /\ \A k \in 1..Len(inbox) : inbox[k] = Cardinality(Taken) + k)'
  <2>1. \A k \in 1..Len(Tail(inbox)) : Tail(inbox)[k] = n + 1 + k
    <3> TAKE k \in 1..Len(Tail(inbox))
    <3>1. k + 1 \in 1..Len(inbox) /\ k \in Nat
      BY <1>3
    <3>2. Tail(inbox)[k] = n + (k + 1)
      BY <1>3, <1>4, <3>1
    <3> QED  BY <1>2, <3>1, <3>2
  <2> QED  BY <1>3, <1>8, <2>1
<1> QED  BY <1>1, <1>2, <1>9, <1>11, <1>12, <1>13 DEF GramInv

\* recv_datagram
LEMMA RecvKept ==
    ASSUME GramInv, NEW i \in Grams, RecvFrom(i), scene' = scene
    PROVE  GramInv'
<1>1. DOMAIN dg = Grams /\ GramSound(dg[i]) /\ dg[i].at \in {"new", "try"} /\ scene.grams[i].op \in {"recv", "peek"}
  BY DEF GramInv, RecvFrom
<1>2. dg[i].out = 0
  BY <1>1 DEF GramSound
<1>3. CASE dg' = [dg EXCEPT ![i].at = "parked"] /\ UNCHANGED inbox
  <2> DEFINE g == [dg[i] EXCEPT !.at = "parked"]
  <2>1. GramSound(g) /\ g.out = dg[i].out
    BY <1>1, <1>2, ZenonT(30) DEF GramSound
  <2> HIDE DEF g
  <2>2. DOMAIN dg' = Grams /\ dg'[i] = g /\ (\A j \in Grams : j # i => dg'[j] = dg[j])
    BY <1>1, <1>3 DEF g
  <2> QED  BY <1>3, <2>1, <2>2, GramStays
<1>4. CASE /\ inbox # <<>> /\ GramOver(i, "ok", Head(inbox))
           /\ inbox' = IF scene.grams[i].op = "peek" THEN inbox ELSE Tail(inbox)
  <2> DEFINE g == [dg[i] EXCEPT !.at = "over", !.ends = IF dg[i].stopped THEN @ ELSE "ok", !.out = Head(inbox)]
  <2>1. GramSound(g) /\ g.out = Head(inbox)
    BY <1>1, <1>2, ZenonT(30) DEF GramSound
  <2>2. DOMAIN dg' = Grams /\ dg'[i] = g /\ (\A j \in Grams : j # i => dg'[j] = dg[j])
    BY <1>1, <1>2, <1>4, ZenonT(30) DEF GramOver, GramSound
  <2> HIDE DEF g
  <2>3. CASE scene.grams[i].op = "peek"
    BY <1>4, <2>1, <2>2, <2>3, GramStays
  <2>4. CASE scene.grams[i].op = "recv"
    BY <1>1, <1>4, <2>1, <2>2, <2>4, TakeKept
  <2> QED  BY <1>1, <2>3, <2>4
<1> QED  BY <1>3, <1>4, ZenonT(30) DEF RecvFrom

\* send_datagram, and what a wake, a stop and a drop do to any of them
LEMMA OthersKept ==
    ASSUME GramInv, NEW i \in Grams, SendTo(i) \/ WakeGram(i) \/ StopGram(i) \/ DropGram(i), scene' = scene
    PROVE  GramInv'
<1>1. DOMAIN dg = Grams /\ GramSound(dg[i])
  BY DEF GramInv
<1>2. ASSUME NEW g, UNCHANGED inbox, dg' = [dg EXCEPT ![i] = g], GramSound(g), scene.grams[i].op = "recv" => g.out = dg[i].out
      PROVE  GramInv'
  BY <1>1, <1>2, GramStays
<1>3. CASE SendTo(i)
  <2>1. dg[i].at \in {"new", "try"} /\ scene.grams[i].op # "recv" /\ UNCHANGED inbox
    BY <1>3 DEF SendTo
  <2>3. ASSUME NEW why, NEW out, GramOver(i, why, out)
        PROVE  GramInv'
    <3> DEFINE g == [dg[i] EXCEPT !.at = "over", !.ends = IF dg[i].stopped THEN @ ELSE why, !.out = out]
    <3>1. GramSound(g) /\ dg' = [dg EXCEPT ![i] = g]
      BY <1>1, <2>3, ZenonT(30) DEF GramSound, GramOver
    <3> HIDE DEF g
    <3> QED  BY <1>2, <2>1, <3>1, ZenonT(30)
  <2>4. CASE dg' = [dg EXCEPT ![i].at = "parked", ![i].dest = Dest(i)]
    <3> DEFINE g == [dg[i] EXCEPT !.at = "parked", !.dest = Dest(i)]
    <3>1. GramSound(g) /\ dg' = [dg EXCEPT ![i] = g]
      BY <1>1, <2>1, <2>4, ZenonT(30) DEF GramSound
    <3> HIDE DEF g
    <3> QED  BY <1>2, <2>1, <3>1, ZenonT(30)
  <2> QED  BY <1>3, <2>3, <2>4, ZenonT(30) DEF SendTo
<1>4. CASE WakeGram(i)
  <2> DEFINE g == [dg[i] EXCEPT !.at = "try"]
  <2>1. dg[i].at = "parked" /\ ~dg[i].stopped /\ dg' = [dg EXCEPT ![i].at = "try"] /\ UNCHANGED inbox
    BY <1>4 DEF WakeGram
  <2>2. GramSound(g) /\ g.out = dg[i].out /\ dg' = [dg EXCEPT ![i] = g]
    BY <1>1, <2>1, ZenonT(30) DEF GramSound
  <2> HIDE DEF g
  <2> QED  BY <1>2, <2>1, <2>2, ZenonT(30)
<1>5. CASE StopGram(i)
  <2> DEFINE g == [dg[i] EXCEPT !.stopped = TRUE, !.ends = "stopped"]
  <2>1. dg' = [dg EXCEPT ![i].stopped = TRUE, ![i].ends = "stopped"] /\ UNCHANGED inbox
    BY <1>5 DEF StopGram
  <2>2. GramSound(g) /\ g.out = dg[i].out /\ dg' = [dg EXCEPT ![i] = g]
    BY <1>1, <2>1, ZenonT(30) DEF GramSound
  <2> HIDE DEF g
  <2> QED  BY <1>2, <2>1, <2>2, ZenonT(30)
<1>6. CASE DropGram(i)
  <2> DEFINE g == [dg[i] EXCEPT !.at = "over", !.ends = IF dg[i].stopped THEN @ ELSE "stopped", !.out = 0]
  <2>1. dg[i].at # "over" /\ dg[i].stopped /\ GramOver(i, "stopped", 0) /\ UNCHANGED inbox
    BY <1>6 DEF DropGram
  <2>2. dg[i].out = 0
    BY <1>1, <2>1 DEF GramSound
  <2>3. GramSound(g) /\ g.out = dg[i].out /\ dg' = [dg EXCEPT ![i] = g]
    BY <1>1, <2>1, <2>2, ZenonT(30) DEF GramSound, GramOver
  <2> HIDE DEF g
  <2> QED  BY <1>2, <2>1, <2>3, ZenonT(30)
<1> QED  BY <1>3, <1>4, <1>5, <1>6

\* A datagram arrives
LEMMA ArriveKept ==
    ASSUME GramInv, Arrive, scene' = scene
    PROVE  GramInv'
<1> DEFINE n == Cardinality(Taken)
<1>1. scene \in Scenes /\ n \in Nat /\ inbox \in Seq(Nat) /\ (\A k \in 1..Len(inbox) : inbox[k] = n + k)
  BY TakenFinite DEF GramInv
<1>2. inbox' = Append(inbox, n + Len(inbox) + 1) /\ UNCHANGED dg
  BY DEF Arrive, Taken
<1>3. Grams' = Grams /\ Taken' = Taken
  BY <1>2 DEF Grams, Taken
<1> HIDE DEF n
<1>4. /\ inbox' \in Seq(Nat) /\ Len(inbox') = Len(inbox) + 1 /\ Len(inbox) \in Nat
      /\ \A k \in 1..Len(inbox') : inbox'[k] = IF k <= Len(inbox) THEN inbox[k] ELSE n + Len(inbox) + 1
  BY <1>1, <1>2
<1>5. \A k \in 1..Len(inbox') : inbox'[k] = n + k
  <2> TAKE k \in 1..Len(inbox')
  <2>1. CASE k <= Len(inbox)
    <3>1. k \in 1..Len(inbox)
      BY <1>4, <2>1
    <3> QED  BY <1>1, <1>4, <2>1, <3>1
  <2>2. CASE ~(k <= Len(inbox))
    <3>1. k = Len(inbox) + 1 /\ inbox'[k] = n + Len(inbox) + 1
      BY <1>4, <2>2
    <3>2. n + Len(inbox) + 1 = n + k
      BY <1>1, <1>4, <3>1
    <3> QED  BY <3>1, <3>2
  <2> QED  BY <2>1, <2>2
<1>6. (\A i \in Grams : GramSound(dg[i]))'
  BY <1>2, <1>3 DEF GramInv, GramSound
<1> QED  BY <1>1, <1>2, <1>3, <1>4, <1>5, <1>6 DEF GramInv, n

-----------------------------------------------------------------------------
(* Everything together.                                                    *)

\* The steps of the bytes, and every other step, leave the scene as it is
LEMMA SceneKept ==
    ASSUME [SocketNext]_sockVars
    PROVE  scene' = scene
<1>1. ASSUME NEW i, ReadStep(i) \/ StopRead(i)
      PROVE  scene' = scene
  <2>1. StartRead(i) \/ Look(i) \/ ReadRaw(i) \/ ReadTls(i) \/ WakeRead(i) \/ DropRead(i) \/ StopRead(i)
    BY <1>1 DEF ReadStep
  <2> QED  BY <2>1, ZenonT(30) DEF StartRead, Look, ReadRaw, ReadTls, WakeRead, DropRead, StopRead
<1>2. ASSUME NEW j, WriteStep(j) \/ StopWrite(j)
      PROVE  scene' = scene
  <2>1. \/ StartWrite(j) \/ Write(j) \/ Flush(j) \/ Goodbye(j) \/ Shut(j) \/ WakeWrite(j) \/ DropWrite(j)
        \/ StopWrite(j)
    BY <1>2 DEF WriteStep
  <2> QED  BY <2>1, ZenonT(30) DEF StartWrite, Write, Flush, Goodbye, Shut, WakeWrite, DropWrite, StopWrite
<1>3. StreamStep => scene' = scene
  BY <1>1, <1>2, ZenonT(30) DEF StreamStep, PeerSends, PeerEnds, PeerTakes
<1>4. CloseConn => scene' = scene
  BY ZenonT(30) DEF CloseConn
<1>5. \A i : Hand(i) => scene' = scene
  BY ZenonT(30) DEF Hand
<1>6. UNCHANGED vars => scene' = scene
  BY DEF vars
<1>7. UNCHANGED sockVars => scene' = scene
  BY DEF sockVars
<1> QED  BY <1>3, <1>4, <1>5, <1>6, <1>7, ZenonT(30) DEF SocketNext

\* Steps that are not the tasks'
LEMMA DialStill ==
    ASSUME DialInv, UNCHANGED <<scene, dl, open, backlog, knocks>>
    PROVE  DialInv'
<1>1. Dials' = Dials /\ (\A j \in Dials : Ask(j)' = Ask(j) /\ Turns(j)' = Turns(j))
  BY DEF Dials, Ask, Turns
<1>2. (\A i \in Dials : DialSound(i, dl[i]))'
  BY <1>1 DEF DialInv, DialSound
<1>3. Waiting' /\ Owned'
  BY <1>1 DEF DialInv, Waiting, Owned
<1> QED  BY <1>1, <1>2, <1>3 DEF DialInv

LEMMA GramStill ==
    ASSUME GramInv, UNCHANGED <<scene, dg, inbox>>
    PROVE  GramInv'
<1>1. Grams' = Grams /\ Taken' = Taken
  BY DEF Grams, Taken
<1>2. (\A i \in Grams : GramSound(dg[i]))'
  BY <1>1 DEF GramInv, GramSound
<1> QED  BY <1>1, <1>2 DEF GramInv

\* Before anything has been asked for
LEMMA SocketsStart ==
    ASSUME SocketInit
    PROVE  DialInv /\ GramInv
<1>1. /\ scene \in Scenes /\ dl = [i \in Dials |-> Dial] /\ open = {} /\ backlog = <<>> /\ knocks = 0
      /\ dg = [i \in Grams |-> Gram] /\ inbox = <<>>
  BY DEF SocketInit, Dials, Grams
<1>2. ASSUME NEW i \in Dials
      PROVE  DialSound(i, Dial)
  <2>1. Dial \in DialRecs
    <3>1. None \in Fds /\ 1 \in Nat \ {0} /\ 0 \in Nat
      BY DEF None, Fds
    <3> QED  BY <3>1 DEF Dial, DialRecs, DialAt
  <2>2. /\ Dial.at = "new" /\ Dial.fd = None /\ Dial.out = None /\ Dial.next = 1 /\ Dial.failure = 0
        /\ ~Dial.stopped /\ Dial.ends = "none"
    BY DEF Dial
  <2>3. None[1] = 0 /\ Len(Ask(i).addrs) \in Nat
    BY <1>1, Asked DEF None
  <2>4. Standing(Ask(i), Dial) /\ Labelled(i, Ask(i), Dial)
    BY <2>2, <2>3 DEF Standing, Labelled, Trying
  <2>5. Tried(Ask(i), Dial) /\ Shaken(Ask(i), Dial, Turns(i)) /\ Reported(Ask(i), Dial)
    BY <2>2 DEF Tried, Shaken, Reported
  <2> QED  BY <2>1, <2>2, <2>4, <2>5 DEF DialSound
<1>3. \A i \in Dials : dl[i].fd = None /\ dl[i].out = None
  BY <1>1 DEF Dial
<1>4. Waiting
  <2>1. None[2] = 0
    BY DEF None
  <2> QED  BY <1>1, <1>3, <2>1 DEF Waiting
<1>5. Owned
  BY <1>1, <1>3 DEF Owned
<1>6. DialInv
  BY <1>1, <1>2, <1>4, <1>5 DEF DialInv
<1>7. \A i \in Grams : GramSound(dg[i]) /\ dg[i].out = 0
  BY <1>1 DEF GramSound, Gram
<1>8. Taken = {} /\ Cardinality(Taken) = 0
  BY <1>7, FS_EmptySet DEF Taken
<1>9. GramInv
  BY <1>1, <1>7, <1>8 DEF GramInv
<1> QED  BY <1>6, <1>9

\* One case per action of the tasks that open connections
LEMMA DialStepKept ==
    ASSUME DialInv, [SocketNext]_sockVars
    PROVE  DialInv'
<1>1. scene' = scene /\ scene \in Scenes
  BY SceneKept DEF DialInv
<1>2. CASE UNCHANGED dialVars
  BY <1>1, <1>2, DialStill DEF dialVars
<1>3. CASE /\ CloseConn /\ UNCHANGED <<backlog, knocks>>
           /\ open' = IF scene.request THEN open \ {dl[1].out} ELSE open
           /\ dl' = IF scene.request THEN [dl EXCEPT ![1].out = None] ELSE dl
  <2>1. CASE scene.request
    <3>1. scene.dials \in Seq(Asks) /\ scene.dials # <<>>
      BY <1>1, <2>1, SocketAssumption
    <3>2. 1 \in Dials
      BY <3>1 DEF Dials
    <3> QED  BY <1>1, <1>3, <2>1, <3>2, GiveBackKept
  <2>2. CASE ~scene.request
    BY <1>1, <1>3, <2>2, DialStill
  <2> QED  BY <2>1, <2>2
<1>4. ASSUME NEW i \in Dials, DialStep(i) \/ StopDial(i) \/ Requeue(i) \/ Answer(i), UNCHANGED knocks
      PROVE  DialInv'
  <2>1. CASE StartDial(i)
    BY <1>1, <1>4, <2>1, StartKept
  <2>2. CASE TryNext(i)
    BY <1>1, <1>4, <2>2, TryKept
  <2>3. CASE Finished(i)
    BY <1>1, <1>4, <2>3, FinishedKept
  <2>4. CASE Named(i)
    BY <1>1, <1>4, <2>4, NamedKept
  <2>5. CASE Accept(i)
    BY <1>1, <1>4, <2>5, AcceptKept
  <2>6. CASE Opened(i)
    BY <1>1, <1>4, <2>6, OpenedKept
  <2>7. CASE Shake(i)
    BY <1>1, <1>4, <2>7, ShakeKept
  <2>8. CASE WakeDial(i) \/ Requeue(i)
    BY <1>1, <1>4, <2>8, WakeKept
  <2>9. CASE DropDial(i)
    BY <1>1, <1>4, <2>9, DropDialKept
  <2>10. CASE StopDial(i)
    BY <1>1, <1>4, <2>10, StopKept
  <2>11. CASE Answer(i)
    BY <1>1, <1>4, <2>11, AnswerKept
  <2> QED  BY <1>4, <2>1, <2>2, <2>3, <2>4, <2>5, <2>6, <2>7, <2>8, <2>9, <2>10, <2>11, ZenonT(30) DEF DialStep
<1>5. CASE Knock
  BY <1>1, <1>5, KnockKept
<1>6. ASSUME NEW i \in Dials, Hand(i)
      PROVE  DialInv'
  BY <1>6, HandKept
<1>7. UNCHANGED sockVars => UNCHANGED dialVars
  BY DEF sockVars, dialVars
<1> QED  BY <1>2, <1>3, <1>4, <1>5, <1>6, <1>7, ZenonT(30) DEF SocketNext

\* And of the datagram tasks
LEMMA GramStepKept ==
    ASSUME GramInv, [SocketNext]_sockVars
    PROVE  GramInv'
<1>1. scene' = scene
  BY SceneKept
<1>2. CASE UNCHANGED gramVars
  BY <1>1, <1>2, GramStill DEF gramVars
<1>3. ASSUME NEW i \in Grams, GramStep(i) \/ StopGram(i)
      PROVE  GramInv'
  BY <1>1, <1>3, RecvKept, OthersKept DEF GramStep
<1>4. CASE Arrive
  BY <1>1, <1>4, ArriveKept
<1>5. CASE Depart
  BY <1>1, <1>5, GramStill DEF Depart
<1>6. UNCHANGED sockVars => UNCHANGED gramVars
  BY DEF sockVars, gramVars
<1> QED  BY <1>2, <1>3, <1>4, <1>5, <1>6, ZenonT(30) DEF SocketNext

\* What the two say of the sockets, the addresses and the datagrams
LEMMA SocketsFollow ==
    ASSUME DialInv, GramInv
    PROVE  SocketsInv
<1>1. scene \in Scenes /\ \A i \in Dials : DialSound(i, dl[i])
  BY DEF DialInv
<1>2. SocketsHeld
  <2>1. \A i \in Dials : dl[i].at = "over" => dl[i].fd = None
    BY <1>1 DEF DialSound, Standing, Trying
  <2>2. \A i, j \in Dials : i # j /\ dl[i].out # None => dl[i].out \notin {dl[j].fd, dl[j].out}
    <3> TAKE i, j \in Dials
    <3>1. i # j => Hold(dl[i]) \cap Hold(dl[j]) = {}
      BY Apart
    <3> QED  BY <3>1 DEF Hold
  <2> QED  BY <2>1, <2>2 DEF SocketsHeld, DialInv, Owned
<1>3. DialledInTurn
  <2> SUFFICES ASSUME NEW i \in Dials
               PROVE  /\ Ask(i).op = "connect" => \A k \in 1..(dl[i].next - 2) : Ask(i).addrs[k] \notin Works
                      /\ Ask(i).op = "connect" /\ dl[i].out # None =>
                           dl[i].out = <<i, dl[i].next - 1>> /\ Ask(i).addrs[dl[i].next - 1] \in {"ok", "slow"}
                      /\ Reported(Ask(i), dl[i])
                      /\ dl[i].out # None /\ Ask(i).tls => dl[i].turn > Len(Turns(i)) /\ Ask(i).peer = "good"
    BY ZenonT(30) DEF DialledInTurn, Reported
  <2>1. DialSound(i, dl[i]) /\ dl[i].next \in Nat \ {0}
    BY <1>1 DEF DialSound, DialRecs
  <2>2. Ask(i).op = "connect" => \A k \in 1..(dl[i].next - 2) : Ask(i).addrs[k] \notin Works
    <3>1. Ask(i).op = "connect" => \A k \in 1..(dl[i].next - 1) : k < dl[i].next - 1 => Ask(i).addrs[k] \notin Works
      BY <2>1 DEF DialSound, Tried
    <3> QED  BY <2>1, <3>1
  <2>3. Ask(i).op = "connect" /\ dl[i].out # None =>
          dl[i].out = <<i, dl[i].next - 1>> /\ Ask(i).addrs[dl[i].next - 1] \in {"ok", "slow"}
    <3>1. Ask(i).op = "connect" /\ dl[i].out # None => dl[i].out = <<i, dl[i].next - 1>>
      BY <2>1, ZenonT(30) DEF DialSound, Labelled
    <3>2. Ask(i).op = "connect" /\ dl[i].out # None => Ask(i).addrs[dl[i].next - 1] \in {"ok", "slow"}
      BY <2>1, ZenonT(30) DEF DialSound, Tried
    <3> QED  BY <3>1, <3>2
  <2>4. Reported(Ask(i), dl[i]) /\ (dl[i].out # None /\ Ask(i).tls => dl[i].turn > Len(Turns(i)) /\ Ask(i).peer = "good")
    BY <2>1 DEF DialSound, Shaken
  <2> QED  BY <2>2, <2>3, <2>4
<1>4. DatagramsWhole
  <2> DEFINE n == Cardinality(Taken)
  <2>1. /\ n \in Nat /\ \A i \in Grams : scene.grams[i].op = "recv" => dg[i].out \in 0..n
        /\ \A k \in 1..Len(inbox) : inbox[k] = n + k
    BY <1>1, TakenFinite DEF GramInv
  <2>2. \A i, j \in Taken : i # j => dg[i].out # dg[j].out
    BY DEF GramInv
  <2>3. \A i, j \in Grams : i # j /\ scene.grams[i].op = "recv" /\ scene.grams[j].op = "recv" /\ dg[i].out # 0
          => dg[i].out # dg[j].out
    BY <2>2 DEF Taken
  <2> HIDE DEF n
  <2>4. \A i \in Grams : dg[i].out # 0 /\ scene.grams[i].op = "recv" => \A k \in 1..Len(inbox) : inbox[k] > dg[i].out
    BY <2>1
  <2> QED  BY <2>3, <2>4 DEF DatagramsWhole
<1> QED  BY <1>2, <1>3, <1>4 DEF SocketsInv

\* Whatever the addresses, the other sides and the arrivals do, every open socket is held by
\* the one task that is trying it or has it to hand out, a connect takes the first address
\* that works and reports the last that did not, nothing is handed out before its handshake,
\* and a datagram goes to one receive, in the order they came (ConnectTask::advance,
\* TlsConnectTask::advance, AcceptTask, Drop for Fd, recv_datagram)
THEOREM SocketsKept == SocketSpec => []SocketsInv
<1>1. SocketInit => DialInv /\ GramInv
  BY SocketsStart
<1>2. DialInv /\ GramInv /\ [SocketNext]_sockVars => DialInv' /\ GramInv'
  BY DialStepKept, GramStepKept
<1>3. DialInv /\ GramInv => SocketsInv
  BY SocketsFollow
<1> QED  BY <1>1, <1>2, <1>3, PTL DEF SocketSpec
=============================================================================
