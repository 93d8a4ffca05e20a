--------------------------------- MODULE Flow ---------------------------------
(***************************************************************************)
(* One direction of a connection, as the proofs see it.                    *)
(***************************************************************************)
EXTENDS SizeArith, Sequences

\* A flow is one direction of a connection: the stream that is sent over it, the capacity
\* of the reassembler at its end, how much this has assembled at some moment and whether
\* its output was in error then.  Indices do not overflow.
IsFlow(flow) ==
    /\ flow.stream \in Seq(flow.byte)
    /\ flow.capacity \in Nat \ {0}
    /\ flow.assembled \in Nat
    /\ Len(flow.stream) + flow.capacity < SizeMax

\* The bytes of the stream at indices i .. i+n-1; indices count from 0.
Bytes(flow, i, n) == SubSeq(flow.stream, i + 1, i + n)

===============================================================================
