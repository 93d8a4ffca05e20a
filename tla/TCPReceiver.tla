------------------------------ MODULE TCPReceiver ------------------------------
(***************************************************************************)
(* libsponge/tcp_receiver.{hh,cc}: turns segments into substrings for the  *)
(* reassembler, and computes the ackno and the window to advertise.        *)
(***************************************************************************)
EXTENDS StreamReassembler, WrappingIntegers, TCPSegment

new_TCPReceiver(capacity) ==
    [reassembler |-> new_StreamReassembler(capacity), capacity |-> capacity,
     set_syn |-> FALSE, set_fin |-> FALSE, isn |-> 0]

stream_out(rx) == rx.reassembler.output

\* The stream index of the first payload byte of seg, as computed with isn: the
\* nearest absolute seqno to the next byte wanted, less the place of the SYN.
stream_index(rx, seg, isn) ==
    LET checkpoint == stream_out(rx).written + 1
        abs_seqno == unwrap(seg.seqno, isn, checkpoint)
    IN  IF seg.syn THEN abs_seqno ELSE SizeSub(abs_seqno, 1)

receiver_segment_received(rx, seg) ==
    IF ~rx.set_syn /\ ~seg.syn
      THEN rx
      ELSE LET isn == IF rx.set_syn THEN rx.isn ELSE seg.seqno
           IN  [rx EXCEPT
                  !.set_syn = TRUE,
                  !.isn     = isn,
                  !.set_fin = @ \/ seg.fin,
                  !.reassembler = push_substring(@, seg.payload,
                                                 stream_index(rx, seg, isn), seg.fin)]

\* ackno() has a value once the SYN has arrived (has_ackno).
has_ackno(rx) == rx.set_syn

abs_ackno(rx) ==
    stream_out(rx).written + 1 + (IF stream_out(rx).input_end THEN 1 ELSE 0)

\* Variant: a FIN that arrived before the data is acknowledged.
ackno_early_fin(rx) ==
    wrap(abs_ackno(rx) + (IF rx.set_fin /\ ~stream_out(rx).input_end THEN 1 ELSE 0), rx.isn)

ackno(rx) == wrap(abs_ackno(rx), rx.isn)

window_size(rx) == rx.capacity - buffer_size(stream_out(rx))
===============================================================================
