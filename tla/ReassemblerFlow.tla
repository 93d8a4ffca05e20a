--------------------------- MODULE ReassemblerFlow ----------------------------
(***************************************************************************)
(* The reassembler at the end of a flow: what the proofs say of its state  *)
(* between two calls, and of what a call makes of it.                      *)
(***************************************************************************)
EXTENDS Flow, StreamReassembler

Stored(m) == Extents(m, DOMAIN m)

\* The map is a function from indices to pieces of the stream that lie apart.
MapOK(flow, m) ==
    /\ m = [k \in DOMAIN m |-> m[k]]
    /\ DOMAIN m \subseteq Nat
    /\ \A k \in DOMAIN m : /\ Len(m[k]) \in Nat
                           /\ k + Len(m[k]) <= Len(flow.stream)
                           /\ m[k] = Bytes(flow, k, Len(m[k]))
    /\ \A k, l \in DOMAIN m : k < l => k + Len(m[k]) <= l

Object(flow, bs, m, cnt, u, e) ==
    [output |-> bs, capacity |-> flow.capacity, unassembled_bytes |-> m,
     unassembled_cnt |-> cnt, unassembled_index |-> u, eof_index |-> e]

\* Since that moment the output has only grown, and no error was added or removed.
Grown(flow, bs, u) == flow.assembled <= u /\ bs.error = flow.error

\* The output holds the bytes of the stream up to u that were not read.
OutputOK(flow, bs, u) ==
    /\ bs \in ByteStreams(flow.byte)
    /\ bs.capacity = flow.capacity /\ bs.written = u
    /\ bs.buffer = Bytes(flow, bs.read, Len(bs.buffer))
    /\ bs.read + Len(bs.buffer) = u
    /\ u <= Len(flow.stream) /\ Len(bs.buffer) <= flow.capacity
    /\ Grown(flow, bs, u)

\* The stored entries are inside the window and counted at least once, and the count
\* with the output is within the capacity.  Without pushes at the end of the window
\* (x false) no entry is empty and the count is exact.
CountOK(flow, bs, m, cnt, x) ==
    /\ cnt \in Nat /\ Cardinality(Stored(m)) <= cnt
    /\ Len(bs.buffer) + cnt <= flow.capacity
    /\ \A k \in DOMAIN m : k + Len(m[k]) <= bs.read + flow.capacity
    /\ ~x => cnt = Cardinality(Stored(m)) /\ \A k \in DOMAIN m : Len(m[k]) > 0

\* Every stored entry starts past the next byte wanted.
Beyond(m, u) == \A k \in DOMAIN m : k > u

\* The output has ended exactly when the next byte wanted is past the known end.
EndOK(bs, u, e) ==
    \/ bs.input_end = TRUE /\ u >= e
    \/ bs.input_end = FALSE /\ u < e

\* The reassembler between two calls
Healthy(flow, r, e, x) ==
    \E bs, m : \E cnt, u \in Nat :
        /\ r = Object(flow, bs, m, cnt, u, e)
        /\ OutputOK(flow, bs, u) /\ MapOK(flow, m) /\ CountOK(flow, bs, m, cnt, x) /\ Beyond(m, u)
        /\ EndOK(bs, u, e)

\* These bytes, as far as r has put them together
Beginning(flow, n, r) ==
    [byte |-> flow.byte, stream |-> Bytes(flow, 0, n), capacity |-> flow.capacity,
     assembled |-> r.unassembled_index, error |-> r.output.error]

Assembling(flow, n, r, fin) ==
    /\ r.unassembled_index \in Nat
    /\ r.eof_index \in {SizeMax, n}
    /\ r.eof_index = n => fin = TRUE
    /\ Healthy(Beginning(flow, n, r), r, r.eof_index, TRUE)

\* What this says of the output
Assembled(flow, n, r, fin) ==
    /\ r.output \in ByteStreams(flow.byte) /\ r.output.capacity = flow.capacity
    /\ Len(r.output.buffer) <= flow.capacity
    /\ r.output.read + Len(r.output.buffer) = r.output.written
    /\ r.output.buffer = Bytes(flow, r.output.read, Len(r.output.buffer))
    /\ r.output.written <= n /\ r.unassembled_index = r.output.written
    /\ r.eof_index # SizeMax => fin = TRUE
    /\ r.output.input_end = TRUE <=> r.eof_index # SizeMax /\ r.output.written = n

\* q is r after it was given more of the flow, with the end of it if eof says so.
Fed(r, q, eof) ==
    /\ r.output.written <= q.output.written /\ q.output.error = r.output.error
    /\ r.output.input_end = TRUE => q.output.input_end = TRUE
    /\ r.eof_index # SizeMax => q.eof_index # SizeMax
    /\ q.eof_index # SizeMax => r.eof_index # SizeMax \/ eof = TRUE

\* The peer has sent n bytes and over instead of m and fin.
SendsMore(m, fin, n, over) == m \in 0 .. n /\ (fin = TRUE => over = TRUE /\ n = m)

\* q differs from r in what has been read of the output, or in its error flag.
SameExtent(r, q) ==
    /\ q.output.written = r.output.written /\ q.output.input_end = r.output.input_end
    /\ q.eof_index = r.eof_index

\* It is still as it should be; e tells whether its output is in error.
Remains(flow, n, r, fin, q, e) ==
    Assembling(flow, n, q, fin) /\ SameExtent(r, q) /\ q.output.error = e

===============================================================================
