-------------------------- MODULE ReassemblerSystem --------------------------
(***************************************************************************)
(* A StreamReassembler between a network that delivers substrings of one   *)
(* byte stream (in any order, overlapping, repeated, outside the window)   *)
(* and an application that reads the output.                               *)
(***************************************************************************)
EXTENDS StreamReassembler

CONSTANTS
    Byte,        \* the values a byte may have
    Stream,      \* the byte stream being sent: a sequence of bytes
    Capacity,    \* the capacity of the reassembler
    EdgePushes   \* a subset of BOOLEAN: whether a substring may start exactly at
                 \* the end of the window (unaccepted_index), which a sender that
                 \* respects the advertised window never produces

ASSUME StreamAssumption == Stream \in Seq(Byte) /\ Len(Stream) < SizeMax
ASSUME CapacityAssumption == Capacity \in Nat \ {0} /\ Len(Stream) + Capacity < SizeMax
ASSUME EdgePushesAssumption == EdgePushes \subseteq BOOLEAN

VARIABLES
    ra,          \* the StreamReassembler
    edge         \* whether there are pushes at the end of the window, fixed

vars == <<ra, edge>>

\* The bytes of the stream at indices i .. i+n-1; indices count from 0.
Slice(i, n) == SubSeq(Stream, i + 1, i + n)

TypeOK == IsReassembler(ra, Byte) /\ edge \in BOOLEAN

Init == ra = new_StreamReassembler(Capacity) /\ edge \in EdgePushes

AtWindowEdge(i, n) ==
    i = unaccepted_index(ra) /\ i > ra.unassembled_index /\ n > 0

\* A segment with n bytes at index i arrives.  It may carry eof only if it
\* reaches the end of the stream.
Push(i, n, eof) ==
    /\ i + n <= Len(Stream)
    /\ eof => i + n = Len(Stream)
    /\ edge \/ ~AtWindowEdge(i, n)
    /\ ra' = push_substring(ra, Slice(i, n), i, eof)
    /\ UNCHANGED edge

\* A segment one byte below the stream (a TCP segment without SYN whose seqno
\* is the ISN): its index has wrapped around to SizeMax and its first byte is
\* not a byte of the stream.
PushBelow(n, junk) ==
    /\ n <= Len(Stream)
    /\ ra' = push_substring(ra, <<junk>> \o Slice(0, n), SizeMax, FALSE)
    /\ UNCHANGED edge

Read(n) ==
    /\ n \in 1 .. buffer_size(ra.output)
    /\ ra' = read_output(ra, n)
    /\ UNCHANGED edge

Next ==
    \/ \E i, n \in 0 .. Len(Stream), eof \in BOOLEAN : Push(i, n, eof)
    \/ \E n \in 0 .. Len(Stream), junk \in Byte : PushBelow(n, junk)
    \/ \E n \in 1 .. Capacity : Read(n)

Spec == Init /\ [][Next]_vars

\* A segment of n bytes that starts with the byte wanted next, or the end of the
\* stream once every byte has been assembled
IsNext(n) ==
    /\ n > 0 \/ ra.unassembled_index = Len(Stream)
    /\ ra.unassembled_index + n <= Len(Stream)

PushNext ==
    \E n \in 0 .. Len(Stream) :
        IsNext(n) /\ Push(ra.unassembled_index, n,
                          ra.unassembled_index + n = Len(Stream))

\* ENABLED <<PushNext>>_vars, as a formula that is quick to evaluate
CanPushNext ==
    \E n \in 0 .. Len(Stream) :
        /\ IsNext(n)
        /\ ra # push_substring(ra, Slice(ra.unassembled_index, n), ra.unassembled_index,
                               ra.unassembled_index + n = Len(Stream))

\* The peer retransmits what is wanted next until it has been taken (the first
\* conjunct is WF_vars(PushNext)), and the application keeps reading.
Fairness ==
    /\ []<>(~CanPushNext) \/ []<><<PushNext>>_vars
    /\ WF_vars(Read(1))

FairSpec == Spec /\ Fairness
-------------------------------------------------------------------------------
(***************************************************************************)
(* Properties                                                              *)
(***************************************************************************)

\* What the application can read is the stream itself: the output buffer holds
\* exactly the bytes from bytes_read up to unassembled_index, in order, whatever
\* push_substring was given and in whichever order.
OutputIsStream ==
    /\ ra.output.written = ra.unassembled_index
    /\ ra.output.buffer = Slice(ra.output.read, buffer_size(ra.output))
    /\ ra.output.read + buffer_size(ra.output) = ra.output.written

\* merge_string keeps the stored entries apart and holding the bytes of the stream
\* that belong at their indices, and push_substring leaves none behind that the
\* output has reached: whatever is contiguous has been assembled when it returns.
StoredIsStream ==
    LET m == ra.unassembled_bytes
    IN  /\ \A k \in DOMAIN m :
              /\ m[k] = Slice(k, Len(m[k]))
              /\ k + Len(m[k]) <= Len(Stream)
              /\ k > ra.unassembled_index
        /\ \A k, l \in DOMAIN m : k < l => k + Len(m[k]) <= l

\* The memory bound of the class: the bytes in the output and the bytes stored
\* out of order together never exceed the capacity, and none is stored past the
\* end of the window.
WithinCapacity ==
    /\ buffer_size(ra.output) + Cardinality(StoredBytes(ra)) <= Capacity
    /\ \A k \in DOMAIN ra.unassembled_bytes :
         k + Len(ra.unassembled_bytes[k]) <= unaccepted_index(ra)

\* unassembled_bytes() counts each stored byte once, however often it was
\* pushed ("it should only be counted once").
CountedOnce == ra.unassembled_cnt = Cardinality(StoredBytes(ra))

\* With a sender that respects the window the count is right.
CountedOnceInWindow == ~edge => CountedOnce

\* The output ends exactly when the whole stream has been assembled and the end
\* of it is known; no push makes it end early or forgets to end it.
EndsExactly ==
    /\ ra.output.input_end => ra.unassembled_index = Len(Stream)
    /\ ra.output.input_end <=> ra.unassembled_index >= ra.eof_index
    /\ ra.eof_index \in {SizeMax, Len(Stream)}

\* Whatever else arrives from a sender that respects the window, and in whatever
\* order, the application reads the whole stream and sees its end: no sequence of
\* pushes fills the reassembler with bytes that keep the next byte out.
AllDelivered == ~edge => <>(stream_eof(ra.output) /\ ra.output.read = Len(Stream))
===============================================================================
