------------------------------- MODULE TCPSender -------------------------------
(***************************************************************************)
(* libsponge/tcp_sender.{hh,cc}: cuts the outgoing byte stream into        *)
(* segments that fit the peer's window, keeps the ones not acknowledged    *)
(* and retransmits the oldest of them when its timer expires.              *)
(*                                                                         *)
(* fill_window and ack_received loop over segments.  They are given here   *)
(* by what the loops compute; module SenderLoops has the loops and TLC     *)
(* compares the two.                                                       *)
(***************************************************************************)
EXTENDS ByteStream, WrappingIntegers, TCPSegment

CONSTANT MaxPayload        \* TCPConfig::MAX_PAYLOAD_SIZE, 1000 in the build

ASSUME MaxPayloadAssumption == MaxPayload \in Nat \ {0}

-------------------------------------------------------------------------------
\* class Timer
new_Timer(rto) ==
    [init_RTO |-> rto, cur_RTO |-> rto, elapsed_time |-> 0, running |-> FALSE]

timer_start(t) == [t EXCEPT !.elapsed_time = 0, !.running = TRUE]

timer_stop(t) == [t EXCEPT !.running = FALSE]

timer_reset(t) == [t EXCEPT !.cur_RTO = t.init_RTO]
timer_reset_double(t) == [t EXCEPT !.cur_RTO = 2 * @]
timer_tick(t, ms) == IF t.running THEN [t EXCEPT !.elapsed_time = @ + ms] ELSE t
check_expired(t) == t.running /\ t.elapsed_time >= t.cur_RTO

-------------------------------------------------------------------------------
\* Variant: the window is taken to be open before the peer has announced one.
new_TCPSender_open(capacity, rto, isn) ==
    [isn |-> isn, segments_out |-> << >>, stream |-> new_ByteStream(capacity),
     next_seqno |-> 0, recv_ackno |-> 0, set_syn |-> FALSE, set_fin |-> FALSE,
     timer |-> new_Timer(rto), consecutive_retransmissions |-> 0,
     window_size |-> capacity, bytes_in_flight |-> 0, segments_unackno |-> << >>]

new_TCPSender(capacity, rto, isn) ==
    [isn |-> isn, segments_out |-> << >>, stream |-> new_ByteStream(capacity),
     next_seqno |-> 0, recv_ackno |-> 0, set_syn |-> FALSE, set_fin |-> FALSE,
     timer |-> new_Timer(rto), consecutive_retransmissions |-> 0,
     window_size |-> 1, bytes_in_flight |-> 0, segments_unackno |-> << >>]

\* Variants: what is in flight is forgotten; a closed window is not probed.
fill_window_size_whole(tx) ==
    IF tx.window_size = 0
      THEN IF tx.bytes_in_flight = 0 THEN 1 ELSE 0
      ELSE tx.window_size

fill_window_size_no_probe(tx) ==
    IF tx.window_size = 0
      THEN IF tx.set_syn THEN 0 ELSE 1
      ELSE MaxOf(tx.window_size - tx.bytes_in_flight, 0)

\* How many sequence numbers fill_window may use: the window less what is in
\* flight, and one to probe a zero window when nothing is in flight.
fill_window_size(tx) ==
    IF tx.window_size = 0
      THEN IF tx.bytes_in_flight = 0 THEN 1 ELSE 0
      ELSE MaxOf(tx.window_size - tx.bytes_in_flight, 0)

\* What the calls of push_segment that fill_window makes put into the window:
\* the SYN if it has not been sent, as many bytes as fit, the FIN if the stream
\* ends with them and there is still room.
filling(tx) ==
    LET size == fill_window_size(tx)
        syn == IF tx.set_syn THEN 0 ELSE 1
        bytes == MinOf(size - syn, buffer_size(tx.stream))
        fin == IF /\ ~tx.set_fin /\ tx.stream.input_end
                  /\ bytes = buffer_size(tx.stream)
                  /\ syn + bytes < size
                 THEN 1 ELSE 0
    IN  [syn |-> syn, bytes |-> bytes, fin |-> fin,
         \* the number of segments that makes
         count |-> IF bytes = 0 THEN MaxOf(syn, fin)
                   ELSE (bytes + MaxPayload - 1) \div MaxPayload]

new_segments(tx, f) ==
    [j \in 1 .. f.count |->
       [EmptySegment(wrap(tx.next_seqno +
                          (IF j = 1 THEN 0 ELSE f.syn + (j - 1) * MaxPayload),
                          tx.isn)) EXCEPT
          !.syn = f.syn = 1 /\ j = 1,
          !.fin = f.fin = 1 /\ j = f.count,
          !.payload = SubSeq(tx.stream.buffer, (j - 1) * MaxPayload + 1,
                             MinOf(j * MaxPayload, f.bytes))]]

fill_window(tx) ==
    IF fill_window_size(tx) = 0
      THEN [tx EXCEPT !.set_syn = TRUE]
      ELSE LET f == filling(tx)
               segs == new_segments(tx, f)
               len == f.syn + f.bytes + f.fin
           IN  [tx EXCEPT
                  !.set_syn = TRUE,
                  !.set_fin = @ \/ f.fin = 1,
                  !.stream = pop_output(@, f.bytes),
                  !.segments_out = @ \o segs,
                  !.segments_unackno = @ \o segs,
                  !.next_seqno = @ + len,
                  !.bytes_in_flight = @ + len,
                  !.timer = IF segs # << >> /\ ~@.running THEN timer_start(@) ELSE @]

-------------------------------------------------------------------------------
segment_start(tx, seg) == unwrap(seg.seqno, tx.isn, tx.next_seqno)
segment_end(tx, seg) == segment_start(tx, seg) + length_in_sequence_space(seg)

\* Variant: a segment acknowledged exactly is not taken for acknowledged.
acked_count_strict(tx, abs) ==
    LET unack == tx.segments_unackno
    IN  CHOOSE n \in 0 .. Len(unack) :
            /\ \A j \in 1 .. n : segment_end(tx, unack[j]) < abs
            /\ n < Len(unack) => segment_end(tx, unack[n + 1]) >= abs

\* How many segments at the front of the queue abs_ackno acknowledges in full
acked_count(tx, abs) ==
    LET unack == tx.segments_unackno
    IN  CHOOSE n \in 0 .. Len(unack) :
            /\ \A j \in 1 .. n : segment_end(tx, unack[j]) <= abs
            /\ n < Len(unack) => segment_end(tx, unack[n + 1]) > abs

\* The sequence numbers the first n segments of the queue occupy.  The segments
\* of the queue follow each other without gaps.
acked_length(tx, n) ==
    IF n = 0 THEN 0
    ELSE segment_end(tx, tx.segments_unackno[n])
           - segment_start(tx, tx.segments_unackno[1])

\* Variant: an old ackno is acted upon.
acceptable_stale(tx, abs) == abs <= tx.next_seqno

\* Not for something that was not sent, and not older than the last one
acceptable(tx, abs) == abs <= tx.next_seqno /\ abs >= tx.recv_ackno

ack_received(tx, ackno, window_size) ==
    LET abs == unwrap(ackno, tx.isn, tx.recv_ackno)
        n == acked_count(tx, abs)
        unack == SubSeq(tx.segments_unackno, n + 1, Len(tx.segments_unackno))
        progressed == IF n > 0 THEN timer_start(timer_reset(tx.timer)) ELSE tx.timer
    IN  IF ~acceptable(tx, abs)
          THEN tx
          ELSE fill_window(
                 [tx EXCEPT
                    !.recv_ackno = abs,
                    !.segments_unackno = unack,
                    !.bytes_in_flight = @ - acked_length(tx, n),
                    !.consecutive_retransmissions = IF n > 0 THEN 0 ELSE @,
                    !.timer = IF unack = << >> THEN timer_stop(progressed) ELSE progressed,
                    !.window_size = window_size])

\* Variant: what is repeated into a closed window counts too.
sender_tick_counts_probes(tx, ms) ==
    LET t == timer_tick(tx.timer, ms)
    IN  IF check_expired(t) /\ tx.segments_unackno # << >>
          THEN [tx EXCEPT
                  !.segments_out = Append(@, Head(tx.segments_unackno)),
                  !.consecutive_retransmissions = @ + 1,
                  !.timer = timer_start(timer_reset_double(t))]
          ELSE [tx EXCEPT !.timer = t]

sender_tick(tx, ms) ==
    LET t == timer_tick(tx.timer, ms)
        backoff == tx.window_size > 0
    IN  IF check_expired(t) /\ tx.segments_unackno # << >>
          THEN [tx EXCEPT
                  !.segments_out = Append(@, Head(tx.segments_unackno)),
                  !.consecutive_retransmissions = IF backoff THEN @ + 1 ELSE @,
                  !.timer = timer_start(IF backoff THEN timer_reset_double(t) ELSE t)]
          ELSE [tx EXCEPT !.timer = t]

\* send_empty_segment(), and its overload for the flags (the connection only
\* calls it for a RST)
send_empty_segment(tx) ==
    [tx EXCEPT !.segments_out = Append(@, EmptySegment(wrap(tx.next_seqno, tx.isn)))]

send_empty_rst(tx) ==
    [tx EXCEPT !.segments_out =
       Append(@, [EmptySegment(wrap(tx.next_seqno, tx.isn)) EXCEPT !.rst = TRUE])]
===============================================================================
