-------------------------- MODULE ReassemblerProofs --------------------------
(***************************************************************************)
(* Proofs about the StreamReassembler: the inductive invariant, and the    *)
(* safety properties of ReassemblerSystem for every stream, capacity and   *)
(* sequence of pushes and reads.                                           *)
(***************************************************************************)
EXTENDS ReassemblerSystem, ReassemblerLemmas

\* The flow of ReassemblerSystem, whole from the beginning
Flow == [byte |-> Byte, stream |-> Stream, capacity |-> Capacity,
         assembled |-> 0, error |-> FALSE]

\* It is one, and its bytes are those of the stream.
LEMMA FlowIsFlow ==
  /\ IsFlow(Flow) /\ Flow.byte = Byte /\ Flow.stream = Stream /\ Flow.capacity = Capacity
  /\ Flow.assembled = 0 /\ Flow.error = FALSE
  /\ \A i, n : Slice(i, n) = Bytes(Flow, i, n)
BY StreamAssumption, CapacityAssumption DEF Flow, IsFlow, Slice, Bytes

\* The inductive invariant
Inv == edge \in BOOLEAN /\ \E e \in EofIndices(Flow) : Healthy(Flow, ra, e, edge)

\* The constructor establishes it.
LEMMA InitInv == Init => Inv
BY FlowIsFlow, NewHealthy, EdgePushesAssumption DEF Init, Inv, EofIndices

\* push_substring and read keep it.
LEMMA NextInv == Inv /\ [Next]_vars => Inv'
<1> SUFFICES ASSUME Inv, [Next]_vars PROVE Inv'
  OBVIOUS
<1>1. PICK e \in EofIndices(Flow) : Healthy(Flow, ra, e, edge)
  BY DEF Inv
<1>2. PICK bs, m, cnt, u :
        /\ u \in Nat /\ cnt \in Nat /\ ra = Object(Flow, bs, m, cnt, u, e)
        /\ OutputOK(Flow, bs, u) /\ MapOK(Flow, m) /\ CountOK(Flow, bs, m, cnt, edge)
        /\ Beyond(m, u) /\ EndOK(bs, u, e)
  BY <1>1, FlowIsFlow, HealthyParts, Zenon
<1>3. /\ ra.output = bs /\ ra.unassembled_index = u
      /\ unaccepted_index(ra) = bs.read + Capacity
  BY <1>2, FlowIsFlow, ObjectFields, Window
<1>4. edge \in BOOLEAN
  BY DEF Inv
<1>5. SUFFICES edge' = edge /\ \E f \in EofIndices(Flow) : Healthy(Flow, ra', f, edge)
  BY <1>4 DEF Inv
<1>6. ASSUME NEW i \in 0 .. Len(Stream), NEW n \in 0 .. Len(Stream), NEW eof \in BOOLEAN,
             Push(i, n, eof)
      PROVE  edge' = edge /\ \E f \in EofIndices(Flow) : Healthy(Flow, ra', f, edge)
  <2>1. /\ i + n <= Len(Stream) /\ (eof => i + n = Len(Stream))
        /\ edge \/ ~AtWindowEdge(i, n)
        /\ ra' = push_substring(ra, Slice(i, n), i, eof) /\ edge' = edge
    BY <1>6, SMTT(20) DEF Push
  <2>2. i \in Nat /\ n \in Nat
    BY StreamAssumption
  <2>3. PICK limit \in Nat : limit = bs.read + Capacity
    BY <1>2, CapacityAssumption, SMTT(30) DEF OutputOK, ByteStreams
  <2>4. edge \/ ~(i = limit /\ i > u /\ n > 0)
    BY <1>3, <2>1, <2>3, SMTT(30) DEF AtWindowEdge
  <2>5. ~(i <= limit /\ i > u) \/ (i <= limit /\ (edge \/ n = 0 \/ i < limit))
    BY <1>2, <2>2, <2>4, SMTT(20)
  <2>6. ~(i <= bs.read + Capacity /\ i > u) \/ StartsInWindow(Flow, bs, i, n, edge)
    BY <2>3, <2>5, FlowIsFlow, SMTT(30) DEF StartsInWindow
  <2>7. \E f \in EofIndices(Flow) :
          /\ f = e \/ (eof /\ f = Len(Flow.stream))
          /\ Healthy(Flow, push_substring(Object(Flow, bs, m, cnt, u, e),
                                          Bytes(Flow, i, n), i, eof), f, edge)
    <3>1. /\ i + n <= Len(Flow.stream) /\ (eof => i + n = Len(Flow.stream))
          /\ ~(i <= bs.read + Flow.capacity /\ i > u) \/ StartsInWindow(Flow, bs, i, n, edge)
      BY <2>1, <2>6, FlowIsFlow, Zenon
    <3> QED
      BY <1>2, <2>2, <3>1, FlowIsFlow, PushHealthy, ZenonT(60)
  <2> QED
    BY <1>2, <2>1, <2>7, FlowIsFlow, Zenon
<1>7. ASSUME NEW n \in 0 .. Len(Stream), NEW junk \in Byte, PushBelow(n, junk)
      PROVE  edge' = edge /\ \E f \in EofIndices(Flow) : Healthy(Flow, ra', f, edge)
  <2>1. ra' = push_substring(ra, <<junk>> \o Slice(0, n), SizeMax, FALSE) /\ edge' = edge
    BY <1>7, SMTT(20) DEF PushBelow
  <2>2. PICK data : data = <<junk>> \o Slice(0, n)
    BY Zenon
  <2>3. Healthy(Flow, push_substring(Object(Flow, bs, m, cnt, u, e), data, SizeMax, FALSE),
                e, edge)
    BY <1>2, FlowIsFlow, PushBelowStream, ZenonT(60)
  <2> QED
    BY <1>2, <2>1, <2>2, <2>3, Zenon
<1>8. ASSUME NEW n \in 1 .. Capacity, Read(n)
      PROVE  edge' = edge /\ \E f \in EofIndices(Flow) : Healthy(Flow, ra', f, edge)
  <2>1. n \in 1 .. buffer_size(ra.output) /\ ra' = read_output(ra, n) /\ edge' = edge
    BY <1>8 DEF Read
  <2> QED
    BY <1>1, <2>1, FlowIsFlow, ReadPiece, Zenon
<1>9. CASE UNCHANGED vars
  BY <1>1, <1>9, SMTT(30) DEF vars
<1> QED
  BY <1>6, <1>7, <1>8, <1>9, SMTT(30) DEF Next

\* What the inductive invariant says of the parts of ra
LEMMA InvParts ==
  ASSUME Inv
  PROVE  /\ edge \in BOOLEAN /\ ra.eof_index \in EofIndices(Flow)
         /\ ra.unassembled_index \in Nat /\ ra.unassembled_cnt \in Nat
         /\ ra.capacity = Capacity
         /\ ra = Object(Flow, ra.output, ra.unassembled_bytes, ra.unassembled_cnt,
                        ra.unassembled_index, ra.eof_index)
         /\ OutputOK(Flow, ra.output, ra.unassembled_index)
         /\ MapOK(Flow, ra.unassembled_bytes)
         /\ CountOK(Flow, ra.output, ra.unassembled_bytes, ra.unassembled_cnt, edge)
         /\ Beyond(ra.unassembled_bytes, ra.unassembled_index)
         /\ EndOK(ra.output, ra.unassembled_index, ra.eof_index)
<1>1. PICK e \in EofIndices(Flow) : Healthy(Flow, ra, e, edge)
  BY DEF Inv
<1>2. ra.eof_index = e /\ ra.capacity = Capacity
  BY <1>1, FlowIsFlow, HealthyParts, Zenon
<1> QED
  BY <1>1, <1>2, FlowIsFlow, HealthyParts, Zenon DEF Inv

\* So it always holds.
LEMMA AlwaysInv == Spec => []Inv
BY InitInv, NextInv, PTL DEF Spec

\* The fields of a StreamReassembler keep their types.
THEOREM AlwaysTyped == Spec => []TypeOK
<1>1. Inv => TypeOK
  <2> SUFFICES ASSUME Inv PROVE TypeOK
    BY SMTT(20)
  <2> DEFINE m == ra.unassembled_bytes
  <2>1. \A k \in DOMAIN m : m[k] \in Seq(Byte)
    <3>1. \A k \in DOMAIN m : /\ k \in Nat /\ Len(m[k]) \in Nat
                              /\ k + Len(m[k]) <= Len(Stream) /\ m[k] = Slice(k, Len(m[k]))
      BY InvParts, FlowIsFlow, SMTT(30) DEF MapOK
    <3> QED
      BY <3>1, BytesType, FlowIsFlow, SMTT(30)
  <2>2. m = [k \in DOMAIN m |-> m[k]] /\ DOMAIN m \subseteq Nat
    BY InvParts, FlowIsFlow DEF MapOK
  <2> HIDE DEF m
  <2>3. m \in [DOMAIN m -> Seq(Byte)]
    BY <2>1, <2>2, SMTT(30)
  <2>4. /\ ra.output \in ByteStreams(Byte)
        /\ {ra.capacity, ra.unassembled_cnt, ra.unassembled_index, ra.eof_index} \subseteq Nat
    BY InvParts, FlowIsFlow, EofIndicesNat, CapacityAssumption, Zenon DEF OutputOK
  <2>5. ra = [output |-> ra.output, capacity |-> ra.capacity,
              unassembled_bytes |-> ra.unassembled_bytes,
              unassembled_cnt |-> ra.unassembled_cnt,
              unassembled_index |-> ra.unassembled_index, eof_index |-> ra.eof_index]
    BY InvParts, FlowIsFlow, SMTT(20) DEF Object
  <2> QED
    BY <2>2, <2>3, <2>4, <2>5, InvParts, SMTT(30) DEF TypeOK, IsReassembler, m
<1> QED
  BY <1>1, AlwaysInv, PTL

\* Whatever substrings of the stream push_substring is given, and in whatever order,
\* the output is the stream up to unassembled_index.
THEOREM AlwaysOutput == Spec => []OutputIsStream
<1>1. Inv => OutputIsStream
  BY InvParts, FlowIsFlow DEF OutputIsStream, OutputOK, buffer_size
<1> QED
  BY <1>1, AlwaysInv, PTL

\* merge_string leaves the stored entries apart, holding the right bytes, and none
\* that the output has reached.
THEOREM AlwaysStored == Spec => []StoredIsStream
<1>1. Inv => StoredIsStream
  BY InvParts, FlowIsFlow, SMTT(30) DEF StoredIsStream, MapOK, Beyond
<1> QED
  BY <1>1, AlwaysInv, PTL

\* The bytes in the output and the bytes stored never exceed the capacity, and no
\* byte is stored past the window.
THEOREM AlwaysWithin == Spec => []WithinCapacity
<1>1. Inv => WithinCapacity
  <2> SUFFICES ASSUME Inv PROVE WithinCapacity
    OBVIOUS
  <2> DEFINE m == ra.unassembled_bytes
  <2>1. PICK c \in Nat : c = Cardinality(Stored(m))
    <3>1. MapOK(Flow, m)
      BY InvParts, FlowIsFlow, SMTT(20)
    <3> QED
      BY <3>1, FlowIsFlow, ExtentsFinite DEF Stored
  <2>2. StoredBytes(ra) = Stored(m)
    BY SMTT(30) DEF StoredBytes, Stored
  <2>3. PICK l \in Nat : l = Len(ra.output.buffer)
    BY InvParts, FlowIsFlow, SMTT(30) DEF OutputOK, ByteStreams
  <2>4. /\ c <= ra.unassembled_cnt /\ l + ra.unassembled_cnt <= Capacity
        /\ \A k \in DOMAIN m : k + Len(m[k]) <= ra.output.read + Capacity
    BY <2>1, <2>3, InvParts, FlowIsFlow, SMTT(30) DEF CountOK
  <2>5. l + c <= Capacity
    BY <2>4, InvParts, CapacityAssumption, SMTT(30)
  <2> QED
    BY <2>1, <2>2, <2>3, <2>4, <2>5, InvParts, SMTT(30)
       DEF WithinCapacity, buffer_size, unaccepted_index
<1> QED
  BY <1>1, AlwaysInv, PTL

\* With a sender that respects the window, unassembled_bytes() counts every stored
\* byte exactly once.
THEOREM AlwaysCounted == Spec => []CountedOnceInWindow
<1>1. Inv => CountedOnceInWindow
  BY InvParts, FlowIsFlow, SMTT(30)
     DEF CountedOnceInWindow, CountedOnce, CountOK, StoredBytes, Stored
<1> QED
  BY <1>1, AlwaysInv, PTL

\* The output ends exactly when the whole stream is assembled and its end is known.
THEOREM AlwaysEnds == Spec => []EndsExactly
<1>1. Inv => EndsExactly
  <2> SUFFICES ASSUME Inv PROVE EndsExactly
    OBVIOUS
  <2>1. /\ ra.eof_index \in Nat /\ ra.unassembled_index \in Nat /\ Len(Stream) \in Nat
        /\ ra.unassembled_index <= Len(Stream)
        /\ ra.eof_index = SizeMax \/ ra.eof_index = Len(Stream)
    BY InvParts, FlowIsFlow, EofIndicesNat, StreamAssumption, SMTT(30) DEF OutputOK, EofIndices
  <2>2. ra.output.input_end <=> ra.unassembled_index >= ra.eof_index
    <3>1. CASE ra.output.input_end = TRUE /\ ra.unassembled_index >= ra.eof_index
      BY <3>1, Zenon
    <3>2. CASE ra.output.input_end = FALSE /\ ra.unassembled_index < ra.eof_index
      <4>1. ~(ra.unassembled_index >= ra.eof_index)
        BY <2>1, <3>2, SMTT(20)
      <4> QED
        BY <3>2, <4>1, Zenon
    <3> QED
      BY <3>1, <3>2, InvParts, Zenon DEF EndOK
  <2>3. ra.unassembled_index >= ra.eof_index => ra.unassembled_index = Len(Stream)
    BY <2>1, StreamAssumption, SizeMaxAssumption
  <2> QED
    BY <2>1, <2>2, <2>3, SMTT(30) DEF EndsExactly
<1> QED
  BY <1>1, AlwaysInv, PTL
===============================================================================
