----------------------------- MODULE MCSockets -----------------------------
(***************************************************************************)
(* Scenes for Sockets: one connection's receives and sends over TCP and    *)
(* TLS, dials and accepts, requests, and datagrams.                        *)
(***************************************************************************)
EXTENDS Sockets, StreamProperties, TLC

A(op, n) == [op |-> op, n |-> n]

Scene(tls, script, ending, reads, writes) ==
    [tls |-> tls, script |-> script, ending |-> ending, reads |-> reads, writes |-> writes,
     stops |-> <<>>, unsends |-> {}, eager |-> FALSE, request |-> FALSE,
     dials |-> <<>>, arrivals |-> <<>>, hangups |-> {}, requeues |-> {}, grams |-> <<>>, datagrams |-> 0]

\* A line, and what comes after it in the same packet
Line == <<"x", "c", "n", "x", "x">>

\* Receives of every kind, one after the other, against every end of the stream
Receives ==
    {Scene(tls, Line, e, rs, <<>>) : tls \in BOOLEAN, e \in {"close", "cut", "reset"},
        rs \in {<<A("until", 3), A("some", 2), A("toend", 0)>>,
                <<A("exact", 2), A("until", 2), A("exact", 4)>>,
                <<A("some", 0), A("until", 5), A("toend", 0)>>,
                <<A("some", 5), A("toend", 0)>>}}

\* The other side says what is asked for and goes quiet
Quiet ==
    {Scene(tls, Line, "stay", rs, <<>>) : tls \in BOOLEAN, rs \in {<<A("exact", 5)>>, <<A("until", 4), A("exact", 2)>>}}

\* A receive cancelled or timed out with bytes in hand, and the one after it
Stopped ==
    {[Scene(tls, Line, "close", <<A(op, 4), A("toend", 0)>>, <<>>) EXCEPT !.stops = (1 :> w), !.eager = eager] :
        tls \in BOOLEAN, op \in {"exact", "until"}, w \in {"cancel", "timeout"}, eager \in BOOLEAN}

\* Sends past what the socket and the session hold, a goodbye, and a receive beside
\* them
Sends ==
    {[Scene(tls, <<"x", "x">>, e, <<A("some", 2)>>, <<A("send", 5), A("send", 1), A("finish", 0)>>)
        EXCEPT !.unsends = u] : tls \in BOOLEAN, e \in {"close", "reset"}, u \in {{}, {1}}}

D(op, addrs) == [op |-> op, addrs |-> addrs, tls |-> FALSE, peer |-> "good", full |-> FALSE]
DTls(op, addrs, peer, full) == [op |-> op, addrs |-> addrs, tls |-> TRUE, peer |-> peer, full |-> full]

Dialling(dials, arrivals) ==
    [Scene(FALSE, <<>>, "stay", <<>>, <<>>) EXCEPT !.dials = dials, !.arrivals = arrivals, !.hangups = {1}, !.requeues = {1}]

Dialled ==
    {Dialling(<<D("connect", a)>>, <<>>) :
        a \in {<<>>, <<"refused", "late", "slow", "ok">>, <<"none", "nameless", "ok">>, <<"late", "refused">>}}
    \cup {Dialling(<<D("listen", <<"nameless", "refused", "ok">>)>>, <<>>)}
    \cup {Dialling(<<DTls("connect", <<"late", "slow">>, p, f)>>, <<>>) :
        p \in {"good", "cut", "bad", "badname"}, f \in BOOLEAN}
    \cup {Dialling(<<D("accept", <<>>), DTls("accept", <<>>, p, FALSE)>>, <<"aborted", "ok", "bad", "ok">>) :
        p \in {"good", "cut"}}

\* A request over TCP and over TLS
Requests ==
    {[Scene(tls, <<"x", "x">>, e, <<A("toend", 0)>>, <<A("send", 3)>>)
        EXCEPT !.request = TRUE, !.hangups = {1}, !.unsends = {1}, !.stops = (1 :> "cancel"),
               !.dials = <<IF tls THEN DTls("connect", <<"slow">>, "good", FALSE) ELSE D("connect", <<"late", "ok">>)>>] :
        tls \in BOOLEAN, e \in {"close", "cut", "reset"}}

G(op) == [op |-> op, addrs |-> <<"v6", "v4", "v4">>, family |-> "v4"]

Datagrams ==
    {[Scene(FALSE, <<>>, "stay", <<>>, <<>>) EXCEPT !.grams = g, !.datagrams = 2, !.hangups = {2}] :
        g \in {<<G("peek"), G("recv"), G("recv")>>, <<G("udp"), G("udp"), G("unix")>>,
               <<[G("udp") EXCEPT !.family = "v5"]>>}}

MCScenes == Receives \cup Quiet \cup Stopped \cup Sends \cup Dialled \cup Requests \cup Datagrams

=============================================================================
