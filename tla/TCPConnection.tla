----------------------------- MODULE TCPConnection -----------------------------
(***************************************************************************)
(* libsponge/tcp_connection.{hh,cc} and the state summaries of             *)
(* tcp_helpers/tcp_state.cc: one endpoint of a TCP connection, made of a   *)
(* TCPSender and a TCPReceiver.                                            *)
(***************************************************************************)
EXTENDS TCPSender, TCPReceiver

CONSTANTS
    RtTimeout,       \* TCPConfig::rt_timeout
    MaxRetxAttempts, \* TCPConfig::MAX_RETX_ATTEMPTS, 8 in the build
    LingerFactor,    \* 10 in the build: TIME_WAIT lasts 10 * rt_timeout
    WinMax           \* numeric_limits<uint16_t>::max()

ASSUME ConnectionAssumption ==
    /\ RtTimeout \in Nat \ {0} /\ MaxRetxAttempts \in Nat
    /\ LingerFactor \in Nat \ {0} /\ WinMax \in Nat \ {0}

new_TCPConnection(send_capacity, recv_capacity, isn) ==
    [receiver |-> new_TCPReceiver(recv_capacity),
     sender |-> new_TCPSender(send_capacity, RtTimeout, isn),
     segments_out |-> << >>, linger |-> TRUE,
     time_since_last_segment |-> 0, active |-> TRUE]

\* TCPState::state_summary of the receiver and of the sender
receiver_summary(rx) ==
    IF stream_out(rx).error THEN "ERROR"
    ELSE IF ~has_ackno(rx) THEN "LISTEN"
    ELSE IF stream_out(rx).input_end THEN "FIN_RECV" ELSE "SYN_RECV"

sender_summary(tx) ==
    IF tx.stream.error THEN "ERROR"
    ELSE IF tx.next_seqno = 0 THEN "CLOSED"
    ELSE IF tx.next_seqno = tx.bytes_in_flight THEN "SYN_SENT"
    ELSE IF ~stream_eof(tx.stream) \/ tx.next_seqno < tx.stream.written + 2
      THEN "SYN_ACKED"
    ELSE IF tx.bytes_in_flight > 0 THEN "FIN_SENT" ELSE "FIN_ACKED"

\* segment_assemble_send moves the sender's segments to the connection's queue
\* and fills in what the receiver has to say.
assembled(c, seg) ==
    [seg EXCEPT !.ack   = has_ackno(c.receiver),
                !.ackno = IF has_ackno(c.receiver) THEN ackno(c.receiver) ELSE @,
                !.win   = MinOf(WinMax, window_size(c.receiver))]

segment_assemble_send(c) ==
    LET queued == c.sender.segments_out
    IN  [c EXCEPT !.sender.segments_out = << >>,
                  !.segments_out = @ \o [j \in 1 .. Len(queued) |-> assembled(c, queued[j])]]

set_shutdown(c, is_clean) ==
    IF is_clean
      THEN [c EXCEPT !.active = FALSE]
      ELSE [c EXCEPT !.active = FALSE,
                     !.sender.stream = set_error(@),
                     !.receiver.reassembler.output = set_error(@)]

send_rst_segment(c) ==
    segment_assemble_send([c EXCEPT !.sender = send_empty_rst(@)])

connect(c) == segment_assemble_send([c EXCEPT !.sender = fill_window(@)])

connection_write(c, data) ==
    LET tx == [c.sender EXCEPT !.stream = stream_write(@, data)]
    IN  segment_assemble_send([c EXCEPT !.sender = fill_window(tx)])

end_input_stream(c) ==
    LET tx == [c.sender EXCEPT !.stream = end_input(@)]
    IN  segment_assemble_send([c EXCEPT !.sender = fill_window(tx)])

-------------------------------------------------------------------------------
\* The steps of segment_received, in its order
to_receiver_and_sender(c, seg) ==
    [c EXCEPT !.time_since_last_segment = 0,
              !.receiver = receiver_segment_received(@, seg),
              !.sender = IF seg.ack THEN ack_received(@, seg.ackno, seg.win) ELSE @]

\* Variant: linger is given up whenever the peer has finished.
note_passive_close_always(c) ==
    [c EXCEPT !.linger = @ /\ receiver_summary(c.receiver) # "FIN_RECV"]

note_passive_close(c) ==
    [c EXCEPT !.linger = @ /\ ~( /\ receiver_summary(c.receiver) = "FIN_RECV"
                                 /\ sender_summary(c.sender) = "SYN_ACKED" )]

answer_keep_alive(c, seg) ==
    IF /\ has_ackno(c.receiver) /\ length_in_sequence_space(seg) = 0
       /\ seg.seqno = (ackno(c.receiver) - 1) % SeqMod
      THEN [c EXCEPT !.sender = send_empty_segment(@)]
      ELSE c

\* A segment that occupies sequence numbers is answered by at least one segment.
answer_with_ack(c, seg) ==
    LET filled == fill_window(c.sender)
    IN  IF length_in_sequence_space(seg) > 0 /\ c.sender.segments_out = << >>
          THEN [c EXCEPT !.sender = IF filled.segments_out = << >>
                                      THEN send_empty_segment(filled) ELSE filled]
          ELSE c

segment_received(c, seg) ==
    IF ~c.active THEN c
    ELSE IF seg.rst
      THEN set_shutdown([c EXCEPT !.time_since_last_segment = 0], FALSE)
      ELSE LET d == to_receiver_and_sender(c, seg)
           IN  IF seg.syn /\ d.sender.next_seqno = 0
                 THEN connect(d)
                 ELSE segment_assemble_send(
                        answer_with_ack(
                          answer_keep_alive(note_passive_close(d), seg), seg))

-------------------------------------------------------------------------------
\* The time since the last segment is only compared with the linger time; it is
\* counted up to there.
LingerTime == LingerFactor * RtTimeout

\* Variant: the connection closes while its own FIN is still in flight.
close_if_done_early(c) ==
    IF /\ receiver_summary(c.receiver) = "FIN_RECV"
       /\ sender_summary(c.sender) \in {"FIN_SENT", "FIN_ACKED"}
       /\ ~c.linger \/ c.time_since_last_segment >= LingerTime
      THEN set_shutdown(c, TRUE)
      ELSE c

close_if_done(c) ==
    IF /\ receiver_summary(c.receiver) = "FIN_RECV"
       /\ sender_summary(c.sender) = "FIN_ACKED"
       /\ ~c.linger \/ c.time_since_last_segment >= LingerTime
      THEN set_shutdown(c, TRUE)
      ELSE c

give_up(c) ==
    send_rst_segment(set_shutdown([c EXCEPT !.sender.segments_out = << >>], FALSE))

\* Variant: it gives up one retransmission early.
tick_gives_up_early(c, ms) ==
    LET d == [c EXCEPT !.sender = sender_tick(@, ms),
                       !.time_since_last_segment = MinOf(@ + ms, LingerTime)]
    IN  IF MaxRetxAttempts <= d.sender.consecutive_retransmissions
          THEN give_up(d)
          ELSE close_if_done(segment_assemble_send(d))

tick(c, ms) ==
    LET d == [c EXCEPT !.sender = sender_tick(@, ms),
                       !.time_since_last_segment = MinOf(@ + ms, LingerTime)]
    IN  IF MaxRetxAttempts < d.sender.consecutive_retransmissions
          THEN give_up(d)
          ELSE close_if_done(segment_assemble_send(d))
===============================================================================
