------------------------------ MODULE SenderFlow ------------------------------
(***************************************************************************)
(* The sender of a flow: what the proofs say of its state between two      *)
(* calls, of the segments it sends, and of what a call makes of it.        *)
(***************************************************************************)
EXTENDS Flow, TCPSender

\* A flow seen from its sender, which has an initial sequence number and timeout and a
\* peer that advertises windows.  SYN, stream and FIN span less than half of the
\* sequence space.
IsOutgoing(flow) ==
    /\ IsFlow(flow)
    /\ flow.isn \in WrappingInt32 /\ flow.rto \in Nat /\ flow.windows \subseteq Nat
    /\ 2 * (Len(flow.stream) + 2) < SeqMod
    /\ 2 * SeqMod <= SizeMax

\* The highest number a segment of its sender can reach
Limit(flow) == Len(flow.stream) + 2

Segs(flow) == Segments(WrappingInt32, flow.byte)

Timers == [init_RTO : Nat, cur_RTO : Nat, elapsed_time : Nat, running : BOOLEAN]

Senders(flow) ==
    [isn : WrappingInt32, segments_out : Seq(Segs(flow)), stream : ByteStreams(flow.byte),
     next_seqno : Nat, recv_ackno : Nat, set_syn : BOOLEAN, set_fin : BOOLEAN,
     timer : Timers, consecutive_retransmissions : Nat, window_size : Nat,
     bytes_in_flight : Nat, segments_unackno : Seq(Segs(flow))]

\* The absolute sequence numbers of a segment, which lie below SeqMod
Start(flow, seg) == (seg.seqno - flow.isn) % SeqMod

End(flow, seg) == Start(flow, seg) + length_in_sequence_space(seg)

\* The segment carries what the stream has at its sequence numbers.
Carries(flow, seg) ==
    /\ seg \in Segs(flow)
    /\ End(flow, seg) <= Len(flow.stream) + 2
    /\ seg.syn <=> Start(flow, seg) = 0
    /\ seg.payload = Bytes(flow, IF seg.syn THEN 0 ELSE Start(flow, seg) - 1, Len(seg.payload))

\* The segments of q cover a .. b - 1 in order, without gap or overlap.
Tiled(flow, q, a, b) ==
    /\ q \in Seq(Segs(flow))
    /\ \A j \in 1 .. Len(q) : Carries(flow, q[j])
    /\ \A j \in 1 .. Len(q) - 1 : End(flow, q[j]) = Start(flow, q[j + 1])
    /\ q = << >> => a = b
    /\ q # << >> => Start(flow, q[1]) = a /\ End(flow, q[Len(q)]) = b

\* A flag counts as one number or none.
Bit(x) == IF x THEN 1 ELSE 0

\* The numbers of the segment lie below m, a FIN after them apart, which takes m itself
\* and is only sent when f says so.
Placed(flow, seg, m, f) ==
    /\ seg.rst = FALSE
    /\ seg.fin = FALSE => End(flow, seg) <= m
    /\ seg.fin = TRUE => f = 1 /\ End(flow, seg) = m + 1

\* The buffer of the outgoing stream holds what is written and not yet read.
StreamOK(flow, bs) ==
    /\ bs \in ByteStreams(flow.byte)
    /\ Len(bs.buffer) <= bs.capacity
    /\ bs.read + Len(bs.buffer) = bs.written
    /\ bs.written <= Len(flow.stream)
    /\ bs.buffer = Bytes(flow, bs.read, Len(bs.buffer))

\* next_seqno counts the SYN, the bytes read and the FIN.
Numbered(t) ==
    /\ t.set_syn = FALSE => t.next_seqno = 0 /\ t.stream.read = 0 /\ t.set_fin = FALSE
    /\ t.set_syn = TRUE /\ t.set_fin = FALSE => t.next_seqno = t.stream.read + 1
    /\ t.set_fin = TRUE => /\ t.stream.input_end = TRUE /\ t.stream.buffer = << >>
                           /\ t.next_seqno = t.stream.written + 2

QueueOK(flow, t) ==
    /\ t.bytes_in_flight <= t.next_seqno
    /\ Tiled(flow, t.segments_unackno, t.next_seqno - t.bytes_in_flight, t.next_seqno)
    /\ t.next_seqno - t.bytes_in_flight <= t.recv_ackno
    /\ t.recv_ackno <= t.next_seqno
    /\ t.segments_unackno # << >> => t.recv_ackno < t.next_seqno

\* Everything the peer allows lies below e.
Allowed(t, e) ==
    /\ e \in Nat
    /\ t.next_seqno <= e
    /\ t.recv_ackno + t.window_size <= e
    /\ t.recv_ackno + 1 <= e

\* A segment that the sender has sent, and one that it made to answer its peer
Sent(flow, t, seg) ==
    /\ t.set_syn = TRUE
    /\ Carries(flow, seg) /\ Placed(flow, seg, t.stream.read + 1, Bit(t.set_fin))

Answer(flow, seg) ==
    /\ seg \in Segs(flow) /\ seg.payload = << >>
    /\ seg.syn = FALSE /\ seg.fin = FALSE /\ seg.rst = FALSE

SentOK(flow, t) ==
    /\ \A j \in 1 .. Len(t.segments_unackno) : Sent(flow, t, t.segments_unackno[j])
    /\ \A j \in 1 .. Len(t.segments_out) :
         Sent(flow, t, t.segments_out[j]) \/ Answer(flow, t.segments_out[j])

TimerOK(flow, t) ==
    /\ t.timer.init_RTO = flow.rto
    /\ t.timer.cur_RTO = flow.rto * Pow2[t.consecutive_retransmissions]
    /\ t.timer.running = TRUE <=> t.segments_unackno # << >>

\* What holds of a sender whenever fill_window is called, and after it
Ready(flow, t, e) ==
    /\ t \in Senders(flow) /\ t.isn = flow.isn /\ t.window_size \in flow.windows \cup {1}
    /\ StreamOK(flow, t.stream) /\ Numbered(t) /\ QueueOK(flow, t) /\ Allowed(t, e)
    /\ TimerOK(flow, t)
    /\ SentOK(flow, t)

\* u has the numbers and the queue of t.
SameNumbers(t, u) ==
    /\ u.isn = t.isn /\ u.set_syn = t.set_syn /\ u.set_fin = t.set_fin
    /\ u.next_seqno = t.next_seqno /\ u.recv_ackno = t.recv_ackno
    /\ u.segments_unackno = t.segments_unackno /\ u.bytes_in_flight = t.bytes_in_flight
    /\ u.window_size = t.window_size

\* Everything a sender may send lies below its edge.
Edge(t) == t.next_seqno + t.recv_ackno + t.window_size + 1

Stands(flow, t) ==
    /\ Ready(flow, t, Edge(t))
    /\ t.stream.input_end = TRUE => t.stream.written = Len(flow.stream)

\* What this says of its numbers and of its application's stream
Stood(flow, t) ==
    /\ t.stream.read \in Nat /\ t.stream.written \in Nat
    /\ t.next_seqno \in Nat /\ t.recv_ackno \in Nat /\ t.bytes_in_flight \in Nat
    /\ t.set_syn \in BOOLEAN /\ t.set_fin \in BOOLEAN /\ t.stream.input_end \in BOOLEAN
    /\ t.stream.read <= t.stream.written /\ t.stream.written <= Len(flow.stream)
    /\ t.set_syn = FALSE => t.next_seqno = 0 /\ t.stream.read = 0 /\ t.set_fin = FALSE
    /\ t.set_syn = TRUE /\ t.set_fin = FALSE => t.next_seqno = t.stream.read + 1
    /\ t.set_fin = TRUE => /\ t.stream.input_end = TRUE /\ t.stream.buffer = << >>
                           /\ t.stream.read = Len(flow.stream)
                           /\ t.stream.written = Len(flow.stream)
                           /\ t.next_seqno = Len(flow.stream) + 2
    /\ t.recv_ackno <= t.next_seqno /\ t.next_seqno <= t.recv_ackno + t.bytes_in_flight
    /\ t.segments_unackno # << >> => t.recv_ackno < t.next_seqno

\* u is t after some of its methods were called: it may have sent more and may have
\* got more acknowledged.
Follows(t, u) ==
    /\ t.stream.read <= u.stream.read /\ t.recv_ackno <= u.recv_ackno
    /\ t.set_syn = TRUE => u.set_syn = TRUE
    /\ t.set_fin = TRUE => u.set_fin = TRUE /\ u.stream.read = t.stream.read

\* The application has not been at work.
SameInput(t, u) ==
    u.stream.written = t.stream.written /\ u.stream.input_end = t.stream.input_end

\* The retransmissions are still counted.
CountsUp(t, u) ==
    /\ t.consecutive_retransmissions \in Nat /\ u.consecutive_retransmissions \in Nat
    /\ t.consecutive_retransmissions <= u.consecutive_retransmissions

Proceeds(flow, t, u) == Stands(flow, u) /\ Follows(t, u) /\ SameInput(t, u)

\* u is t after an acknowledgment for a.
Acknowledges(flow, t, a, u) ==
    /\ Proceeds(flow, t, u)
    /\ u.recv_ackno = t.recv_ackno \/ u.recv_ackno = a
    /\ t.recv_ackno <= a /\ a <= t.next_seqno => u.recv_ackno = a

\* u is t after the application has written, or ended its stream if b is TRUE.
Extends(flow, t, u, b) ==
    /\ Stands(flow, u) /\ Follows(t, u) /\ u.recv_ackno = t.recv_ackno
    /\ t.stream.written <= u.stream.written /\ u.stream.input_end = b
    /\ b = TRUE => u.stream.written = t.stream.written

\* A segment on its way, with the acknowledgment the connection has put into it
Says(flow, t, seg) ==
    /\ seg \in Segs(flow)
    /\ Sent(flow, t, seg) \/ Answer(flow, seg) \/ seg.rst = TRUE

Stamped(seg, p) ==
    /\ p.seqno = seg.seqno /\ p.syn = seg.syn /\ p.fin = seg.fin /\ p.rst = seg.rst
    /\ p.payload = seg.payload

\* The segment has the k bytes of the flow at i, and its end if that is there.
FallsAt(flow, t, seg, i, k) ==
    /\ seg.payload = Bytes(flow, i, k) /\ i + k <= t.stream.read
    /\ seg.fin = TRUE => t.set_fin = TRUE /\ i + k = t.stream.read

\* The stream index that the receiver computes, from checkpoint c
IndexFrom(isn, seg, c) ==
    IF seg.syn THEN unwrap(seg.seqno, isn, c) ELSE SizeSub(unwrap(seg.seqno, isn, c), 1)

IndexedAt(flow, seg, i) ==
    \A c \in Nat : c <= Limit(flow) => IndexFrom(flow.isn, seg, c) = i

===============================================================================
