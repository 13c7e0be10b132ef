-------------------------- MODULE StreamProperties --------------------------
(***************************************************************************)
(* What a connection promises of the bytes that cross it (Streams), for    *)
(* the tasks that receive and those that send.                             *)
(***************************************************************************)
EXTENDS Streams
LOCAL INSTANCE SequencesExt

Increasing(s) == \A k \in 1..(Len(s) - 1) : s[k] < s[k + 1]

\* Everything the other side sent, wherever it is now, in the order a reader of
\* this connection meets it
Stream == FlattenSeq([i \in Reads |-> rd[i].out]) \o FlattenSeq([i \in Reads |-> rd[i].got])
          \o leftover \o clear \o wire

\* No byte is lost or read twice: what receives returned, what they are holding,
\* what was put back, decrypted or is unread is what the other side sent, less an
\* output a stop threw away. A caller that waits for each receive to be gone meets
\* it all in order, through every park, failure, cancel and timeout
\* (take_leftover, put_front, Drop for RecvTask, timed_out)
ReceivedKept ==
    conn = "open" =>
        /\ ToSet(Stream) \cup ToSet(spilt) = 1..told
        /\ Len(Stream) + Len(spilt) = told
        /\ ~scene.eager => Increasing(Stream)

Ended == fate \in (IF scene.tls THEN {"closed"} ELSE {"close", "cut"})

\* What each kind of receive promises of its output, and what a TooLong means
\* (RecvTask::done, the Closed and Truncated arms of advance)
OutputShaped ==
    \A i \in Reads :
        LET out == rd[i].out
            n == Want(i).n
            last == \A k \in Reads : k > i => rd[k].at = "new"
        IN  /\ rd[i].ends = "ok" /\ Want(i).op = "some" => Len(out) <= n /\ (out = <<>> => (n = 0 \/ Ended))
            /\ rd[i].ends = "ok" /\ Want(i).op = "exact" => Len(out) = n
            /\ rd[i].ends = "ok" /\ Want(i).op = "until" => Len(out) <= n /\ Founds(out, 0) = {Len(out) - 1}
            /\ rd[i].ends = "ok" /\ Want(i).op = "toend" => Ended /\ (conn = "open" => wire = <<>> /\ clear = <<>>)
            /\ rd[i].ends = "toolong" /\ last /\ conn = "open" =>
                   Len(leftover) >= n /\ Founds(Takes(leftover, n), 0) = {}
            /\ rd[i].ends = "closed" => fate # "open"

\* What has left, in order, and what the session still holds
Outward == heard \o sock \o pend

\* Whatever was handed over crosses once and in order, a goodbye comes last, and a
\* send that succeeded has left for the socket to the last byte, not just for the
\* session (SendTask::advance, TlsConnection::write, flush, FinishTask)
SentWhole ==
    conn = "open" /\ fate # "reset" =>
        /\ SelectSeq(Outward, LAMBDA b : b # Bye) = FlattenSeq([j \in Writes |-> Takes(Bytes(j), wr[j].sent)])
        /\ \A k \in 1..Len(Outward) : Outward[k] = Bye => k = Len(Outward)
        /\ \A j \in Writes : wr[j].ends = "ok" =>
              /\ wr[j].sent = Size(j)
              /\ \A k \in 1..Len(pend) : pend[k][1] # j

\* A receive that does not succeed puts back everything it read, "so the next receive
\* still gets it" (stream.rs:441). Refuted: a stop can land in the step that completes it
NothingSpilt == ~scene.request => spilt = <<>>

\* What goes into a connection at one end comes out at the other, once and in order,
\* whatever stops the tasks at either, but for the output of a receive stopped in the
\* step that completes it, which goes with its slot: NothingSpilt (RecvTask, SendTask)
BytesKept == ReceivedKept /\ SentWhole

=============================================================================
