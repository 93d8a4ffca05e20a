----------------------------- MODULE SenderSystem -----------------------------
(***************************************************************************)
(* A TCPSender between an application that writes a byte stream and a peer *)
(* whose acknowledgments arrive late, repeated, out of order or not at     *)
(* all, with any window.  Each action is a call the TCPConnection makes;   *)
(* the connection empties segments_out at the end of every call, so `out`  *)
(* holds the segments the last call produced.                              *)
(***************************************************************************)
EXTENDS TCPSender

CONSTANTS
    Byte,          \* the values a byte may have
    Stream,        \* the bytes the application writes
    Capacity,      \* capacity of the outgoing ByteStream
    Isn,           \* the initial sequence number
    Rto,           \* the initial retransmission timeout
    Windows,       \* the window sizes the peer may advertise
    TickSizes,     \* the values of ms_since_last_tick
    MaxRetx        \* bound: retransmissions in a row (the connection gives up)

ASSUME SenderAssumption ==
    /\ Stream \in Seq(Byte)
    /\ Capacity \in Nat \ {0} /\ Rto \in Nat \ {0}
    /\ Isn \in WrappingInt32
    /\ Windows \subseteq Nat /\ TickSizes \subseteq Nat /\ MaxRetx \in Nat
    \* SYN, stream and FIN span less than half of the sequence space, so that
    \* every unwrap has its answer within reach of the checkpoint.
    /\ 2 * (Len(Stream) + 2) < SeqMod
    /\ 2 * SeqMod <= SizeMax

VARIABLES
    tx,            \* the TCPSender
    out,           \* the segments produced by the last call
    edge,          \* history: the highest sequence number (exclusive) that an
                   \* accepted acknowledgment has allowed the sender to use
    lost           \* history: how often a segment was repeated into an open window
                   \* since one was last acknowledged in full

vars == <<tx, out, edge, lost>>

\* The bytes of the stream at indices i .. i+n-1
Slice(i, n) == SubSeq(Stream, i + 1, i + n)

\* The connection takes the segments out of the sender at the end of a call.
Called(t) ==
    /\ tx' = [t EXCEPT !.segments_out = << >>]
    /\ out' = t.segments_out

Init ==
    /\ tx = new_TCPSender(Capacity, Rto, Isn)
    /\ out = << >>
    /\ edge = 1        \* the SYN
    /\ lost = 0

\* connect() fills the window, which sends the SYN
Connect == Called(fill_window(tx)) /\ UNCHANGED <<edge, lost>>

\* write(data): the application's next n bytes, as many as the stream takes
Write(n) ==
    LET data == Slice(tx.stream.written, n)
    IN  /\ ~tx.stream.input_end
        /\ tx.stream.written + n <= Len(Stream)
        /\ Called(fill_window([tx EXCEPT !.stream = stream_write(@, data)]))
        /\ UNCHANGED <<edge, lost>>

EndInput ==
    /\ ~tx.stream.input_end
    /\ Called(fill_window([tx EXCEPT !.stream = end_input(@)]))
    /\ UNCHANGED <<edge, lost>>

\* a acknowledges a segment in full.
Progress(a) ==
    /\ tx.recv_ackno <= a /\ a <= tx.next_seqno
    /\ tx.segments_unackno # << >> /\ segment_end(tx, tx.segments_unackno[1]) <= a

\* An acknowledgment for the absolute sequence number a arrives.  It may be an
\* old one, and it may be for a number not sent yet.
AckReceived(a, win) ==
    /\ a <= tx.next_seqno + 1
    /\ Called(ack_received(tx, wrap(a, Isn), win))
    /\ edge' = IF tx.recv_ackno <= a /\ a <= tx.next_seqno
                 THEN MaxOf(edge, a + MaxOf(win, 1)) ELSE edge
    /\ lost' = IF Progress(a) THEN 0 ELSE lost

Tick(ms) ==
    /\ tx.consecutive_retransmissions <= MaxRetx
    /\ Called(sender_tick(tx, ms))
    /\ lost' = IF out' # << >> /\ tx.window_size > 0 THEN lost + 1 ELSE lost
    /\ UNCHANGED edge

Next ==
    \/ Connect
    \/ \E n \in 1 .. Len(Stream) : Write(n)
    \/ EndInput
    \/ \E a \in 0 .. Len(Stream) + 3, win \in Windows : AckReceived(a, win)
    \/ \E ms \in TickSizes : Tick(ms)

Spec == Init /\ [][Next]_vars
-------------------------------------------------------------------------------
(***************************************************************************)
(* Properties                                                              *)
(***************************************************************************)
Seqnos == 0 .. Len(Stream) + 2

TypeOK ==
    /\ tx.stream \in ByteStreams(Byte)
    /\ {tx.next_seqno, tx.recv_ackno, tx.bytes_in_flight} \subseteq Seqnos
    /\ {tx.set_syn, tx.set_fin, tx.timer.running} \subseteq BOOLEAN
    /\ tx.consecutive_retransmissions \in Nat
    /\ {tx.timer.init_RTO, tx.timer.cur_RTO, tx.timer.elapsed_time} \subseteq Nat
    /\ tx.window_size \in Windows \cup {1}
    /\ tx.segments_unackno \in Seq(Segments(WrappingInt32, Byte))
    /\ out \in Seq(Segments(WrappingInt32, Byte))
    /\ edge \in Nat /\ lost \in Nat

\* Where the segments not acknowledged begin
FirstUnacked ==
    IF tx.segments_unackno = << >> THEN tx.next_seqno
    ELSE segment_start(tx, tx.segments_unackno[1])

\* The queue of unacknowledged segments covers the sequence numbers up to
\* next_seqno without gap or overlap, starts no later than the last ackno, and
\* bytes_in_flight is what it covers: no path through ack_received and
\* push_segment makes the counter and the queue disagree.
QueueTilesFlight ==
    LET q == tx.segments_unackno
    IN  /\ \A j \in 1 .. Len(q) - 1 :
              segment_end(tx, q[j]) = segment_start(tx, q[j + 1])
        /\ q # << >> => segment_end(tx, q[Len(q)]) = tx.next_seqno
        /\ tx.bytes_in_flight = tx.next_seqno - FirstUnacked
        /\ FirstUnacked <= tx.recv_ackno /\ tx.recv_ackno <= tx.next_seqno

\* The sender never uses a sequence number beyond what the peer allowed, the one
\* byte that probes a zero window apart.
WindowRespected == tx.next_seqno <= edge

\* Each unacknowledged segment carries the bytes of the stream that belong at its
\* sequence numbers, so a retransmission repeats what was sent.
PayloadIsStream ==
    \A j \in 1 .. Len(tx.segments_unackno) :
        LET seg == tx.segments_unackno[j]
            start == segment_start(tx, seg)
        IN  /\ seg.syn <=> start = 0
            /\ seg.payload = Slice(IF seg.syn THEN 0 ELSE start - 1, Len(seg.payload))

\* The FIN takes the last sequence number: it is sent only when every byte of an
\* ended stream has been sent, and nothing is sent after it.
FinIsLast ==
    /\ tx.set_fin => /\ stream_eof(tx.stream)
                     /\ tx.next_seqno = tx.stream.written + 2
    /\ ~tx.set_fin /\ tx.set_syn => tx.next_seqno = tx.stream.read + 1
    /\ ~tx.set_syn => tx.next_seqno = 0

\* Exponential backoff: the count of retransmissions, and with it the timeout, goes
\* up for each segment that tick repeats into an open window since one was last
\* acknowledged in full.  What is repeated to probe a closed window counts for
\* neither, however old and new acknowledgments come between.
BackoffExact ==
    /\ tx.consecutive_retransmissions = lost
    /\ tx.timer.cur_RTO = Rto * Pow2[lost]

\* A sender with something to send never just waits: whatever waits to be sent has
\* something in flight before it (fill_window probes a closed window), and while
\* something is in flight, and only then, the timer runs that will repeat it.
NeverIdleWithData ==
    /\ tx.timer.running <=> tx.segments_unackno # << >>
    /\ /\ tx.set_syn
       /\ tx.stream.buffer # << >> \/ (tx.stream.input_end /\ ~tx.set_fin)
       => tx.segments_unackno # << >>
===============================================================================
