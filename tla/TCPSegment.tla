------------------------------ MODULE TCPSegment ------------------------------
(***************************************************************************)
(* The TCP segment as the sender, the receiver and the connection use it   *)
(* (tcp_helpers/tcp_segment.{hh,cc}, tcp_header.hh).  Ports, checksum and  *)
(* the fields nothing reads are left out.                                  *)
(***************************************************************************)
EXTENDS Integers, Sequences

Segments(Seqno, Byte) ==
    [seqno : Seqno, syn : BOOLEAN, fin : BOOLEAN, rst : BOOLEAN,
     ack : BOOLEAN, ackno : Seqno, win : Nat, payload : Seq(Byte)]

EmptySegment(seqno) ==
    [seqno |-> seqno, syn |-> FALSE, fin |-> FALSE, rst |-> FALSE,
     ack |-> FALSE, ackno |-> 0, win |-> 0, payload |-> << >>]

length_in_sequence_space(seg) ==
    Len(seg.payload) + (IF seg.syn THEN 1 ELSE 0) + (IF seg.fin THEN 1 ELSE 0)
===============================================================================
