------------------------------ MODULE SenderLoops ------------------------------
(***************************************************************************)
(* The loops of tcp_sender.cc as they are written: fill_window calls       *)
(* push_segment until it returns false, and ack_received pops the queue    *)
(* one segment at a time.  LoopsAgree compares them with the operators of  *)
(* TCPSender in every reachable state.                                     *)
(***************************************************************************)
EXTENDS SenderSystem

\* A short stream whose bytes are all different
CONSTANT N        \* length of the stream

MCStream == [i \in 1 .. N |-> i]
MCByte == 1 .. N

\* push_segment(segment, length): the new sender, and what the call returns
push_segment(t, length) ==
    LET syn == ~t.set_syn
        syn_len == IF syn THEN 1 ELSE 0
        payload_size == MinOf(MaxPayload, MinOf(length - syn_len, buffer_size(t.stream)))
        stream == pop_output(t.stream, payload_size)
        unfinished == [EmptySegment(wrap(t.next_seqno, t.isn)) EXCEPT
                         !.syn = syn, !.payload = peek_output(t.stream, payload_size)]
        fin == /\ ~t.set_fin /\ stream_eof(stream)
               /\ length_in_sequence_space(unfinished) < length
        segment == [unfinished EXCEPT !.fin = fin]
        len == length_in_sequence_space(segment)
        sent == [t EXCEPT
                   !.set_syn = TRUE, !.set_fin = @ \/ fin, !.stream = stream,
                   !.segments_out = Append(@, segment),
                   !.segments_unackno = Append(@, segment),
                   !.timer = IF ~@.running THEN timer_start(@) ELSE @,
                   !.next_seqno = @ + len, !.bytes_in_flight = @ + len]
    IN  IF length < syn_len \/ len <= 0
          THEN [tx |-> [t EXCEPT !.set_syn = TRUE], more |-> FALSE]
          ELSE [tx |-> sent, more |-> TRUE]

RECURSIVE fill_window_loop(_)
fill_window_loop(t) ==
    LET pushed == push_segment(t, IF t.window_size = 0 THEN 1
                                  ELSE MaxOf(t.window_size - t.bytes_in_flight, 0))
    IN  IF t.window_size = 0 /\ t.bytes_in_flight # 0 THEN t
        ELSE IF pushed.more THEN fill_window_loop(pushed.tx) ELSE pushed.tx

\* The while loop of ack_received
RECURSIVE pop_acked(_, _)
pop_acked(t, abs) ==
    IF t.segments_unackno = << >> THEN t
    ELSE LET front == Head(t.segments_unackno)
         IN  IF segment_end(t, front) <= abs
               THEN pop_acked([t EXCEPT
                                 !.segments_unackno = Tail(@),
                                 !.bytes_in_flight = @ - length_in_sequence_space(front)],
                              abs)
               ELSE t

\* fill_window is what the loop over push_segment does, for every window the peer may
\* have advertised, and acked_count and acked_length are what the loop over the
\* queue pops, for every acceptable ackno.
LoopsAgree ==
    /\ \A w \in Windows :
         LET t == [tx EXCEPT !.window_size = w] IN fill_window(t) = fill_window_loop(t)
    /\ \A abs \in tx.recv_ackno .. tx.next_seqno :
         LET popped == pop_acked(tx, abs)
             n == acked_count(tx, abs)
         IN  /\ popped.segments_unackno
                  = SubSeq(tx.segments_unackno, n + 1, Len(tx.segments_unackno))
             /\ popped.bytes_in_flight = tx.bytes_in_flight - acked_length(tx, n)
===============================================================================
