------------------------------ MODULE MCParks ------------------------------
(***************************************************************************)
(* Scenes for Parks and Series.                                            *)
(***************************************************************************)
EXTENDS Series

Scene == [kind |-> "once", delay |-> FALSE, timed |-> FALSE, timeout |-> FALSE, cancel |-> TRUE,
          stop |-> FALSE, panics |-> FALSE, until |-> FALSE, parks |-> 1, runs |-> 1, faults |-> 0]

\* A one shot that parks, and may be cancelled, time out, or lose its manager
Once ==
    {[Scene EXCEPT !.timed = t, !.timeout = o, !.parks = IF t /\ o THEN 1 ELSE 2] : t, o \in BOOLEAN}
    \cup {[Scene EXCEPT !.timed = t, !.timeout = ~t, !.faults = 2] : t \in BOOLEAN}
    \cup {[Scene EXCEPT !.delay = TRUE, !.faults = 2]}

\* The runtime stops around it
OnceStopped ==
    {[Scene EXCEPT !.delay = d, !.timeout = ~d, !.stop = TRUE, !.faults = 1, !.cancel = d] : d \in BOOLEAN}

\* A timed repeat that parks. One that stops does not lose its manager as well
Every ==
    {[Scene EXCEPT !.kind = "every", !.runs = 2, !.timed = t, !.panics = p, !.stop = ~p, !.faults = IF p THEN 1 ELSE 0] :
        t, p \in BOOLEAN}

\* One with a time limit on each run
EveryTimed ==
    {[Scene EXCEPT !.kind = "every", !.runs = 2, !.timeout = TRUE, !.stop = s, !.faults = IF s THEN 0 ELSE 1] :
        s \in BOOLEAN}

\* A schedule, at its first run or after a delay, that may be cancelled
Rate == [Scene EXCEPT !.kind = "series", !.parks = 0]

Rates ==
    {[Rate EXCEPT !.runs = 1, !.delay = d] : d \in BOOLEAN} \cup {[Rate EXCEPT !.runs = 3]}
    \cup {[Rate EXCEPT !.runs = 0], [Rate EXCEPT !.runs = 2, !.until = TRUE],
          [Rate EXCEPT !.runs = 2, !.timeout = TRUE]}
    \cup {[Rate EXCEPT !.runs = 2, !.delay = d, !.stop = ~p, !.panics = p, !.faults = IF p THEN 2 ELSE 1] : d, p \in BOOLEAN}

MCScenes == Once \cup OnceStopped \cup Every \cup EveryTimed \cup Rates

=============================================================================
