-------------------------- MODULE ReassemblerLemmas --------------------------
(***************************************************************************)
(* What the methods of the StreamReassembler do to a map of stored pieces  *)
(* of the stream and to the output: drain and merge_string keep it sound,  *)
(* for every stream, capacity and substring.                               *)
(***************************************************************************)
EXTENDS ReassemblerFlow, FiniteSetTheorems, TLAPS

(***************************************************************************)
(* What the lemmas about the reassembler need besides: the entries it      *)
(* stores, what the steps of merge_string make of them, and two moments of *)
(* one flow.                                                               *)
(***************************************************************************)
\* q is m without the entries at K, and their bytes.
Erased(flow, m, K, q) ==
    /\ MapOK(flow, q) /\ DOMAIN q = DOMAIN m \ K
    /\ \A k \in DOMAIN m \ K : q[k] = m[k]
    /\ Cardinality(Stored(q)) = Cardinality(Stored(m)) - Cardinality(Extents(m, K))

\* No entry meets the indices from i to i + n - 1.
Apart(m, i, n) == \A l \in DOMAIN m : l + Len(m[l]) <= i \/ i + n <= l

\* A substring of n bytes at i does not start past the window, nor, unless such
\* pushes are allowed, at its end.
StartsInWindow(flow, bs, i, n, x) ==
    i <= bs.read + flow.capacity /\ (x \/ n = 0 \/ i < bs.read + flow.capacity)

\* A reassembler that has not ended and knows e for the end of the stream
Sound(flow, r, e, x) ==
    \E bs, m : \E cnt, u \in Nat :
        /\ r = Object(flow, bs, m, cnt, u, e)
        /\ OutputOK(flow, bs, u) /\ MapOK(flow, m) /\ CountOK(flow, bs, m, cnt, x) /\ Beyond(m, u)
        /\ bs.input_end = FALSE

\* w is bs with n bytes of the stream appended.
Appended(flow, bs, u, n, w) ==
    /\ OutputOK(flow, w, u + n) /\ w.read = bs.read /\ w.input_end = bs.input_end
    /\ Len(w.buffer) = Len(bs.buffer) + n

\* What is left of the substring from p to end after the cuts at the end of the
\* window and at the free space
Fitting(flow, p, end, rd, l, cnt) ==
    MinOf(MinOf(end, rd + flow.capacity) - p, flow.capacity - l - cnt)

\* Only the output has changed, and how far it reaches.
Written(flow, r, m, cnt, e, x) ==
    \E b : \E v \in Nat :
        /\ r = Object(flow, b, m, cnt, v, e)
        /\ OutputOK(flow, b, v) /\ CountOK(flow, b, m, cnt, x) /\ b.input_end = FALSE

\* q is m with the n bytes of the stream at i.
Inserted(flow, m, i, n, q) ==
    /\ MapOK(flow, q) /\ DOMAIN q = DOMAIN m \cup {i} /\ Len(q[i]) = n
    /\ \A k \in DOMAIN m : q[k] = m[k]
    /\ Cardinality(Stored(q)) = Cardinality(Stored(m)) + n

\* The indices at which the stream may be known to end
EofIndices(flow) == {SizeMax, Len(flow.stream)}

\* g is a later moment of the flow: its stream is as long or longer.
Later(flow, g) ==
    /\ g.byte = flow.byte /\ g.capacity = flow.capacity
    /\ Len(flow.stream) <= Len(g.stream)
    /\ flow.stream = Bytes(g, 0, Len(flow.stream))

IsBeginning(flow, n, r, g) ==
    /\ IsFlow(g) /\ Later(g, flow) /\ Len(g.stream) = n
    /\ g.byte = flow.byte /\ g.capacity = flow.capacity
    /\ g.assembled = r.unassembled_index /\ g.error = r.output.error

-------------------------------------------------------------------------------
\* A piece of the stream has its length and the bytes of the stream.
LEMMA BytesType ==
  ASSUME NEW flow, IsFlow(flow), NEW i \in Nat, NEW n \in Nat, i + n <= Len(flow.stream)
  PROVE  /\ Bytes(flow, i, n) \in Seq(flow.byte)
         /\ Len(Bytes(flow, i, n)) = n
         /\ \A j \in 1 .. n : Bytes(flow, i, n)[j] = flow.stream[i + j]
<1>1. ASSUME NEW B, NEW s \in Seq(B), i + n <= Len(s)
      PROVE  /\ SubSeq(s, i + 1, i + n) \in Seq(B)
             /\ Len(SubSeq(s, i + 1, i + n)) = n
             /\ \A j \in 1 .. n : SubSeq(s, i + 1, i + n)[j] = s[i + j]
  BY <1>1
<1> QED
  BY <1>1, Zenon DEF Bytes, IsFlow

\* A piece of a piece of the stream
LEMMA BytesCut ==
  ASSUME NEW flow, IsFlow(flow), NEW i \in Nat, NEW n \in Nat, i + n <= Len(flow.stream),
         NEW a \in 0 .. n, NEW b \in a .. n
  PROVE  SubSeq(Bytes(flow, i, n), a + 1, b) = Bytes(flow, i + a, b - a)
<1>1. ASSUME NEW B, NEW s \in Seq(B), i + n <= Len(s)
      PROVE  SubSeq(SubSeq(s, i + 1, i + n), a + 1, b) = SubSeq(s, (i + a) + 1, (i + a) + (b - a))
  BY <1>1
<1> QED
  BY <1>1, Zenon DEF Bytes, IsFlow

\* Two pieces of the stream, one after the other
LEMMA BytesConcat ==
  ASSUME NEW flow, IsFlow(flow), NEW i \in Nat, NEW n \in Nat, NEW p \in Nat,
         i + n + p <= Len(flow.stream)
  PROVE  Bytes(flow, i, n) \o Bytes(flow, i + n, p) = Bytes(flow, i, n + p)
<1>1. ASSUME NEW B, NEW s \in Seq(B), i + n + p <= Len(s)
      PROVE  SubSeq(s, i + 1, i + n) \o SubSeq(s, (i + n) + 1, (i + n) + p)
               = SubSeq(s, i + 1, i + (n + p))
  BY <1>1
<1> QED
  BY <1>1, Zenon DEF Bytes, IsFlow

\* A piece without bytes
LEMMA BytesEmpty ==
  ASSUME NEW flow, IsFlow(flow), NEW i \in Nat
  PROVE  Bytes(flow, i, 0) = << >>
<1>1. ASSUME NEW B, NEW s \in Seq(B)
      PROVE  SubSeq(s, i + 1, i + 0) = << >>
  <2>1. i + 0 = i
    OBVIOUS
  <2>2. SubSeq(s, i + 1, i) = << >>
    BY <1>1
  <2> QED
    BY <2>1, <2>2, Zenon
<1> QED
  BY <1>1, Zenon DEF Bytes, IsFlow

-------------------------------------------------------------------------------
(***************************************************************************)
(* The map of stored entries                                               *)
(***************************************************************************)
\* The indices a set of entries occupies are those its members occupy.
LEMMA ExtentsElement ==
  ASSUME NEW m, NEW K, NEW i
  PROVE  i \in Extents(m, K) <=> \E k \in K : i \in Extent(m, k)
BY DEF Extents

\* The map occupies finitely many indices, all of them of the stream.
LEMMA ExtentsFinite ==
  ASSUME NEW flow, IsFlow(flow), NEW m, MapOK(flow, m), NEW K \in SUBSET DOMAIN m
  PROVE  /\ Extents(m, K) \subseteq 0 .. Len(flow.stream) - 1
         /\ IsFiniteSet(Extents(m, K))
         /\ Cardinality(Extents(m, K)) \in Nat
<1>1. ASSUME NEW i \in Extents(m, K)
      PROVE  i \in 0 .. Len(flow.stream) - 1
  <2>1. PICK k \in K : i \in k .. k + Len(m[k]) - 1
    BY ExtentsElement DEF Extent
  <2> QED
    BY <2>1 DEF MapOK, IsFlow
<1>2. IsFiniteSet(0 .. Len(flow.stream) - 1)
  <2>1. Len(flow.stream) - 1 \in Int
    BY DEF IsFlow
  <2> QED
    BY <2>1, FS_Interval
<1> QED
  BY <1>1, <1>2, FS_Subset, FS_CardinalityType

\* Entries that are erased take exactly their bytes away.
LEMMA EraseEntries ==
  ASSUME NEW flow, IsFlow(flow), NEW m, MapOK(flow, m), NEW K \in SUBSET DOMAIN m
  PROVE  Erased(flow, m, K, map_erase(m, K))
<1> DEFINE q == map_erase(m, K)
<1>1. DOMAIN q = DOMAIN m \ K /\ \A k \in DOMAIN m \ K : q[k] = m[k]
  BY DEF map_erase
<1>2. MapOK(flow, q)
  <2>1. q = [k \in DOMAIN q |-> q[k]]
    BY DEF map_erase
  <2> HIDE DEF q
  <2> QED
    BY <1>1, <2>1 DEF MapOK
<1> HIDE DEF q
<1>3. ASSUME NEW i
      PROVE  i \in Stored(q) <=> i \in Stored(m) /\ i \notin Extents(m, K)
  <2>1. i \in Stored(q) <=> \E k \in DOMAIN m \ K : i \in Extent(m, k)
    BY <1>1, ExtentsElement DEF Stored, Extent
  <2>2. i \in Stored(m) <=> \E k \in DOMAIN m : i \in Extent(m, k)
    BY ExtentsElement DEF Stored
  <2>3. i \in Extents(m, K) <=> \E k \in K : i \in Extent(m, k)
    BY ExtentsElement
  <2>4. ASSUME NEW k \in DOMAIN m, NEW l \in DOMAIN m,
               i \in Extent(m, k), i \in Extent(m, l)
        PROVE  k = l
    BY <2>4, SMTT(30) DEF MapOK, Extent
  <2> QED
    BY <2>1, <2>2, <2>3, <2>4
<1>4. Stored(q) = Stored(m) \ Extents(m, K)
  BY <1>3
<1>5. Stored(m) \cap Extents(m, K) = Extents(m, K)
  BY ExtentsElement DEF Stored
<1>6. IsFiniteSet(Stored(m))
  BY ExtentsFinite DEF Stored
<1>7. Cardinality(Stored(q)) = Cardinality(Stored(m)) - Cardinality(Extents(m, K))
  BY <1>4, <1>5, <1>6, FS_Difference
<1> QED
  BY <1>1, <1>2, <1>7, Zenon DEF Erased, q

\* The byte found at a stored index is the one of the stream.
LEMMA StoredByte ==
  ASSUME NEW flow, IsFlow(flow), NEW m, MapOK(flow, m), NEW i \in Stored(m)
  PROVE  stored_byte(m, i) = flow.stream[i + 1]
<1> DEFINE k == CHOOSE k \in DOMAIN m : i \in Extent(m, k)
<1>1. k \in DOMAIN m /\ i \in Extent(m, k)
  <2>1. \E l \in DOMAIN m : i \in Extent(m, l)
    BY ExtentsElement DEF Stored
  <2> QED
    BY <2>1
<1> HIDE DEF k
<1>2. /\ k \in Nat /\ Len(m[k]) \in Nat /\ k + Len(m[k]) <= Len(flow.stream)
      /\ m[k] = Bytes(flow, k, Len(m[k])) /\ i \in k .. k + Len(m[k]) - 1
  BY <1>1 DEF MapOK, Extent
<1>3. i - k + 1 \in 1 .. Len(m[k]) /\ k + (i - k + 1) = i + 1
  BY <1>2
<1>4. \A j \in 1 .. Len(m[k]) : Bytes(flow, k, Len(m[k]))[j] = flow.stream[k + j]
  BY <1>2, BytesType, Zenon
<1>5. m[k][i - k + 1] = flow.stream[i + 1]
  BY <1>2, <1>3, <1>4, SMTT(30)
<1> QED
  BY <1>5 DEF stored_byte, k

\* There is a first index from u on that is not stored, and first_gap finds it.
LEMMA FirstGap ==
  ASSUME NEW flow, IsFlow(flow), NEW m, MapOK(flow, m), NEW u \in Nat
  PROVE  /\ first_gap(m, u) \in Nat /\ u <= first_gap(m, u)
         /\ first_gap(m, u) \notin Stored(m)
         /\ u .. first_gap(m, u) - 1 \subseteq Stored(m)
<1> DEFINE c == Cardinality(Stored(m))
           T == {g \in u .. u + c : g \notin Stored(m)}
<1>1. c \in Nat /\ IsFiniteSet(Stored(m))
  BY ExtentsFinite DEF Stored
<1> HIDE DEF c
<1>2. T # {}
  <2>1. SUFFICES ASSUME T = {} PROVE FALSE
    OBVIOUS
  <2>2. u .. u + c \subseteq Stored(m)
    BY <2>1
  <2>3. Cardinality(u .. u + c) <= c
    BY <1>1, <2>2, FS_Subset DEF c
  <2>4. Cardinality(u .. u + c) = c + 1
    <3>1. u \in Int /\ u + c \in Int /\ ~(u > u + c) /\ (u + c) - u + 1 = c + 1
      BY <1>1
    <3> QED
      BY <3>1, FS_Interval
  <2> QED
    BY <1>1, <2>3, <2>4
<1>3. T \subseteq Nat
  BY <1>1
<1>4. PICK g \in T : \A h \in T : ~(<<h, g>> \in OpToRel(<, Nat))
  BY <1>2, <1>3, NatLessThanWellFounded, WFMin, Zenon
<1>5. \A h \in T : ~(h < g)
  BY <1>3, <1>4, Zenon DEF OpToRel
<1>6. \A h \in u .. g - 1 : h \in Stored(m)
  BY <1>1, <1>5
<1>7. g \in u .. u + c /\ g \notin Stored(m) /\ u .. g - 1 \subseteq Stored(m)
  BY <1>6
<1>8. /\ first_gap(m, u) \in u .. u + c /\ first_gap(m, u) \notin Stored(m)
      /\ u .. first_gap(m, u) - 1 \subseteq Stored(m)
  BY <1>7 DEF first_gap, Stored, c
<1> QED
  BY <1>1, <1>8

-------------------------------------------------------------------------------
(***************************************************************************)
(* The methods on a reassembler written field by field                     *)
(***************************************************************************)
\* write takes a piece of the stream that follows the output and fits.
LEMMA WriteSlice ==
  ASSUME NEW flow, IsFlow(flow), NEW bs, NEW u \in Nat, NEW n \in Nat,
         OutputOK(flow, bs, u), bs.input_end = FALSE,
         u + n <= Len(flow.stream), Len(bs.buffer) + n <= flow.capacity
  PROVE  /\ bytes_accepted(bs, Bytes(flow, u, n)) = n
         /\ Appended(flow, bs, u, n, stream_write(bs, Bytes(flow, u, n)))
<1> DEFINE w == stream_write(bs, Bytes(flow, u, n))
           l == Len(bs.buffer)
<1>1. /\ bs.buffer \in Seq(flow.byte) /\ l \in Nat /\ bs.read \in Nat /\ bs.read + l = u
      /\ bs.buffer = Bytes(flow, bs.read, l) /\ bs.capacity = flow.capacity
      /\ bs.written = u /\ l <= flow.capacity
  BY DEF OutputOK, ByteStreams
<1> HIDE DEF l
<1>2. Bytes(flow, u, n) \in Seq(flow.byte) /\ Len(Bytes(flow, u, n)) = n
  BY BytesType
<1>3. bytes_accepted(bs, Bytes(flow, u, n)) = n
  BY <1>1, <1>2, SMTT(20) DEF bytes_accepted, MinOf, remaining_capacity, l, IsFlow
<1>4. SubSeq(Bytes(flow, u, n), 1, n) = Bytes(flow, u, n)
  BY <1>2
<1>5. w = [bs EXCEPT !.buffer = bs.buffer \o Bytes(flow, u, n), !.written = u + n]
  BY <1>1, <1>3, <1>4, Zenon DEF stream_write
<1>6. bs.buffer \o Bytes(flow, u, n) = Bytes(flow, bs.read, l + n)
  <2>1. bs.read + l + n <= Len(flow.stream)
    BY <1>1
  <2>2. Bytes(flow, bs.read, l) \o Bytes(flow, bs.read + l, n) = Bytes(flow, bs.read, l + n)
    BY <1>1, <2>1, BytesConcat, ZenonT(40)
  <2> QED
    BY <1>1, <2>2, Zenon
<1>7. Bytes(flow, bs.read, l + n) \in Seq(flow.byte) /\ Len(Bytes(flow, bs.read, l + n)) = l + n
  BY <1>1, BytesType
<1>8. /\ w \in ByteStreams(flow.byte) /\ w.buffer = Bytes(flow, bs.read, l + n) /\ w.read = bs.read
      /\ w.written = u + n /\ w.capacity = flow.capacity /\ w.input_end = bs.input_end
      /\ w.error = bs.error
  <2>1. bs \in ByteStreams(flow.byte)
    BY DEF OutputOK
  <2>2. w = [buffer |-> Bytes(flow, bs.read, l + n), capacity |-> bs.capacity, written |-> u + n,
             read |-> bs.read, input_end |-> bs.input_end, error |-> bs.error]
    BY <1>5, <1>6, <2>1, Zenon DEF ByteStreams
  <2>3. bs.error \in BOOLEAN /\ bs.input_end \in BOOLEAN
    BY <2>1 DEF ByteStreams
  <2> HIDE DEF w
  <2> QED
    BY <1>1, <1>7, <2>2, <2>3 DEF ByteStreams, IsFlow
<1> HIDE DEF w
<1>9. OutputOK(flow, w, u + n)
  <2>1. Len(w.buffer) = l + n /\ l + n <= flow.capacity
    BY <1>7, <1>8 DEF l
  <2>2. w.read + (l + n) = u + n
    BY <1>1, <1>8
  <2>3. w.buffer = Bytes(flow, w.read, Len(w.buffer))
    BY <1>8, <2>1
  <2>4. Grown(flow, w, u + n)
    BY <1>8 DEF OutputOK, Grown, IsFlow
  <2> QED
    BY <1>8, <2>1, <2>2, <2>3, <2>4 DEF OutputOK
<1> QED
  BY <1>3, <1>7, <1>8, <1>9 DEF w, l, Appended

\* It fits, and is not empty unless the substring, the window or the room is.
LEMMA CutToFit ==
  ASSUME NEW flow, IsFlow(flow), NEW p \in Nat, NEW end \in Nat, NEW rd \in Nat,
         NEW l \in Nat, NEW cnt \in Nat,
         p <= end, p <= rd + flow.capacity, l + cnt <= flow.capacity
  PROVE  /\ Fitting(flow, p, end, rd, l, cnt) \in Nat
         /\ p + Fitting(flow, p, end, rd, l, cnt) <= end
         /\ p + Fitting(flow, p, end, rd, l, cnt) <= rd + flow.capacity
         /\ l + cnt + Fitting(flow, p, end, rd, l, cnt) <= flow.capacity
         /\ p < end /\ p < rd + flow.capacity /\ l + cnt < flow.capacity =>
               0 < Fitting(flow, p, end, rd, l, cnt)
<1>1. ASSUME NEW c \in Nat, p <= rd + c, l + cnt <= c, NEW f, f = MinOf(MinOf(end, rd + c) - p, c - l - cnt)
      PROVE  /\ f \in Nat /\ p + f <= end /\ p + f <= rd + c /\ l + cnt + f <= c
             /\ p < end /\ p < rd + c /\ l + cnt < c => 0 < f
  BY <1>1 DEF MinOf
<1>2. flow.capacity \in Nat
  BY SMTT(20) DEF IsFlow
<1> QED
  BY <1>1, <1>2, Zenon DEF Fitting

\* Below the capacity the subtractions of free_space do not wrap.
LEMMA FreeSpace ==
  ASSUME NEW flow, IsFlow(flow), NEW bs, NEW m, NEW cnt \in Nat, NEW u, NEW e, NEW x,
         CountOK(flow, bs, m, cnt, x),
         Len(bs.buffer) \in Nat
  PROVE  free_space(Object(flow, bs, m, cnt, u, e)) = flow.capacity - Len(bs.buffer) - cnt
BY DEF free_space, SizeSub, Object, CountOK, buffer_size, IsFlow

\* A substring that reaches the next byte is written as far as there is room.
LEMMA WriteInOrder ==
  ASSUME NEW flow, IsFlow(flow), NEW bs, NEW m, NEW cnt \in Nat, NEW u \in Nat, NEW e,
         NEW x, NEW i \in Nat, NEW n \in Nat,
         OutputOK(flow, bs, u), CountOK(flow, bs, m, cnt, x), bs.input_end = FALSE,
         i <= u, u <= i + n, i + n <= Len(flow.stream)
  PROVE  Written(flow, write_in_order(Object(flow, bs, m, cnt, u, e), Bytes(flow, i, n), i), m, cnt, e, x)
<1> DEFINE r == Object(flow, bs, m, cnt, u, e)
           s == Fitting(flow, u, i + n, bs.read, Len(bs.buffer), cnt)
           b == stream_write(bs, Bytes(flow, u, s))
<1>1. /\ Len(bs.buffer) \in Nat /\ bs.read \in Nat /\ bs.read + Len(bs.buffer) = u
      /\ cnt \in Nat /\ Len(bs.buffer) + cnt <= flow.capacity /\ flow.capacity \in Nat
  BY DEF OutputOK, ByteStreams, CountOK, IsFlow
<1>2. s \in Nat /\ u + s <= i + n /\ Len(bs.buffer) + cnt + s <= flow.capacity
  <2>1. u <= bs.read + flow.capacity /\ i + n \in Nat
    BY <1>1, SMTT(20)
  <2> QED
    BY <1>1, <2>1, CutToFit, Zenon
<1>3. Len(Bytes(flow, i, n)) = n
  BY BytesType
<1>4. /\ u - i \in 0 .. n /\ u - i + s \in u - i .. n /\ MinOf(u - i + s, n) = u - i + s
      /\ i + (u - i) = u /\ (u - i + s) - (u - i) = s
  BY <1>2, SMTT(20) DEF MinOf
<1>5. SubSeq(Bytes(flow, i, n), u - i + 1, MinOf(u - i + s, n)) = Bytes(flow, u, s)
  <2>1. PICK a \in 0 .. n : a = u - i
    BY <1>4
  <2>2. PICK c \in a .. n : c = u - i + s
    BY <1>4, <2>1
  <2>3. SubSeq(Bytes(flow, i, n), a + 1, c) = Bytes(flow, i + a, c - a)
    BY BytesCut, Zenon
  <2> QED
    BY <1>4, <2>1, <2>2, <2>3, Zenon
<1>6. free_space(r) = flow.capacity - Len(bs.buffer) - cnt
  BY <1>1, FreeSpace
<1>7. write_in_order(r, Bytes(flow, i, n), i) =
        [r EXCEPT !.output = b, !.unassembled_index = u + bytes_accepted(bs, Bytes(flow, u, s))]
  <2>1. /\ r.unassembled_index = u /\ r.output = bs
        /\ unaccepted_index(r) = bs.read + flow.capacity
    BY DEF Object, unaccepted_index
  <2> HIDE DEF r
  <2> QED
    BY <1>3, <1>5, <1>6, <2>1, Zenon DEF write_in_order, Fitting
<1> HIDE DEF s
<1>8. u + s <= Len(flow.stream) /\ Len(bs.buffer) + s <= flow.capacity
  <2>1. PICK len \in Nat : len = Len(flow.stream)
    BY DEF IsFlow
  <2>2. PICK l \in Nat, c \in Nat : l = Len(bs.buffer) /\ c = flow.capacity
    BY <1>1, Zenon
  <2>3. s \in Nat /\ u + s <= i + n /\ i + n <= len /\ l + cnt + s <= c
    BY <1>2, <2>1, <2>2, Zenon
  <2>4. u + s <= len /\ l + s <= c
    BY <2>3
  <2> QED
    BY <2>1, <2>2, <2>4, Zenon
<1>9. /\ bytes_accepted(bs, Bytes(flow, u, s)) = s /\ OutputOK(flow, b, u + s)
      /\ b.read = bs.read /\ b.input_end = bs.input_end
      /\ Len(b.buffer) = Len(bs.buffer) + s
  <2>1. bytes_accepted(bs, Bytes(flow, u, s)) = s /\ Appended(flow, bs, u, s, b)
    BY <1>2, <1>8, WriteSlice, Zenon
  <2> QED
    BY <2>1, Zenon DEF Appended
<1>10. write_in_order(r, Bytes(flow, i, n), i) = Object(flow, b, m, cnt, u + s, e)
  BY <1>7, <1>9, Zenon DEF Object
<1>11. CountOK(flow, b, m, cnt, x)
  BY <1>1, <1>2, <1>9 DEF CountOK
<1> HIDE DEF b, r
<1> QED
  BY <1>2, <1>9, <1>10, <1>11 DEF r, Written

\* The fields of an object
LEMMA ObjectFields ==
  ASSUME NEW flow, IsFlow(flow), NEW bs, NEW m, NEW cnt, NEW u, NEW e
  PROVE  /\ Object(flow, bs, m, cnt, u, e).output = bs
         /\ Object(flow, bs, m, cnt, u, e).capacity = flow.capacity
         /\ Object(flow, bs, m, cnt, u, e).unassembled_bytes = m
         /\ Object(flow, bs, m, cnt, u, e).unassembled_cnt = cnt
         /\ Object(flow, bs, m, cnt, u, e).unassembled_index = u
         /\ Object(flow, bs, m, cnt, u, e).eof_index = e
BY DEF Object

\* Erasing takes the bytes of the entries out of the count.
LEMMA EraseForm ==
  ASSUME NEW flow, IsFlow(flow), NEW bs, NEW m, NEW cnt, NEW u, NEW e, NEW K
  PROVE  erase_entries(Object(flow, bs, m, cnt, u, e), K) =
           Object(flow, bs, map_erase(m, K), cnt - Cardinality(Extents(m, K)), u, e)
<1> DEFINE r == Object(flow, bs, m, cnt, u, e)
           q == map_erase(m, K)
           c == cnt - Cardinality(Extents(m, K))
<1>1. r.unassembled_bytes = m /\ r.unassembled_cnt = cnt
  BY ObjectFields
<1>2. erase_entries(r, K) = [r EXCEPT !.unassembled_bytes = q, !.unassembled_cnt = c]
  <2> HIDE DEF r
  <2> QED
    BY <1>1, Zenon DEF erase_entries
<1>3. [r EXCEPT !.unassembled_bytes = q, !.unassembled_cnt = c] = Object(flow, bs, q, c, u, e)
  <2> HIDE DEF q, c
  <2>1. [r EXCEPT !.unassembled_bytes = q] = Object(flow, bs, q, cnt, u, e)
    BY DEF Object
  <2>2. [Object(flow, bs, q, cnt, u, e) EXCEPT !.unassembled_cnt = c] = Object(flow, bs, q, c, u, e)
    BY DEF Object
  <2> QED
    BY <2>1, <2>2, Zenon
<1> QED
  BY <1>2, <1>3, Zenon

\* What drain writes is taken out of the count.
LEMMA CountAfterDrain ==
  ASSUME NEW flow, IsFlow(flow), NEW cnt \in Nat, NEW size \in Nat, NEW taken \in Nat,
         NEW l \in Nat, NEW n \in Nat,
         n <= taken, taken <= size, size <= cnt, l + cnt <= flow.capacity
  PROVE  /\ cnt - taken \in Nat /\ size - taken <= cnt - taken
         /\ (l + n) + (cnt - taken) <= flow.capacity
BY SMTT(20) DEF IsFlow

\* Everything stored up to the first gap is written and erased: the output stops at
\* the gap, and every entry left starts past it.
LEMMA Drain ==
  ASSUME NEW flow, IsFlow(flow), NEW bs, NEW m, NEW cnt \in Nat, NEW u \in Nat, NEW e,
         NEW x,
         OutputOK(flow, bs, u), MapOK(flow, m), CountOK(flow, bs, m, cnt, x),
         bs.input_end = FALSE
  PROVE  Sound(flow, drain(Object(flow, bs, m, cnt, u, e)), e, x)
<1> DEFINE r == Object(flow, bs, m, cnt, u, e)
           g == first_gap(m, u)
           K == {k \in DOMAIN m : k <= g}
           bytes == [j \in 1 .. g - u |-> stored_byte(m, u + j - 1)]
           b == stream_write(bs, Bytes(flow, u, g - u))
           taken == Cardinality(Extents(m, K))
           q == map_erase(m, K)
<1>1. g \in Nat /\ u <= g /\ g \notin Stored(m) /\ u .. g - 1 \subseteq Stored(m)
  BY FirstGap
<1> HIDE DEF g
<1>2. /\ Extents(m, K) \subseteq Stored(m)
      /\ IsFiniteSet(Extents(m, K)) /\ taken \in Nat
      /\ IsFiniteSet(Stored(m)) /\ Cardinality(Stored(m)) \in Nat
      /\ Stored(m) \subseteq 0 .. Len(flow.stream) - 1
  <2>1. Extents(m, K) \subseteq Stored(m)
    BY ExtentsElement DEF Stored
  <2> QED
    BY <2>1, ExtentsFinite, SMTT(20) DEF Stored
<1>3. taken <= Cardinality(Stored(m))
  BY <1>2, FS_Subset
<1>4. g - u <= taken
  <2>1. ASSUME NEW i \in u .. g - 1
        PROVE  i \in Extents(m, K)
    <3>1. i \in Stored(m)
      BY <1>1
    <3>2. PICK k \in DOMAIN m : i \in Extent(m, k)
      BY <3>1, ExtentsElement DEF Stored
    <3>3. k <= g
      BY <1>1, <3>2 DEF Extent, MapOK
    <3> QED
      BY <3>2, <3>3, ExtentsElement
  <2>2. Cardinality(u .. g - 1) <= taken
    BY <1>2, <2>1, FS_Subset, Zenon
  <2>3. Cardinality(u .. g - 1) = IF u > g - 1 THEN 0 ELSE (g - 1) - u + 1
    BY <1>1, FS_Interval, SMTT(20)
  <2> QED
    BY <1>1, <1>2, <2>2, <2>3, SMTT(20)
<1>5. g <= Len(flow.stream)
  <2>1. CASE g = u
    BY <2>1 DEF OutputOK
  <2>2. CASE g # u
    <3>1. g - 1 \in u .. g - 1
      BY <1>1, <2>2
    <3>2. g - 1 \in 0 .. Len(flow.stream) - 1
      BY <1>1, <1>2, <3>1, SMTT(20)
    <3> QED
      BY <1>1, <3>2 DEF IsFlow
  <2> QED
    BY <2>1, <2>2
<1>6. bytes = Bytes(flow, u, g - u)
  <2>1. /\ g - u \in Nat /\ u + (g - u) = g /\ Bytes(flow, u, g - u) \in Seq(flow.byte)
        /\ Len(Bytes(flow, u, g - u)) = g - u
        /\ \A j \in 1 .. g - u : Bytes(flow, u, g - u)[j] = flow.stream[u + j]
    <3>1. g - u \in Nat /\ u + (g - u) = g
      BY <1>1
    <3> QED
      BY <1>5, <3>1, BytesType, SMTT(30)
  <2>2. ASSUME NEW j \in 1 .. g - u
        PROVE  stored_byte(m, u + j - 1) = Bytes(flow, u, g - u)[j]
    <3>1. u + j - 1 \in u .. g - 1 /\ (u + j - 1) + 1 = u + j
      BY <1>1
    <3>2. stored_byte(m, u + j - 1) = flow.stream[u + j]
      BY <1>1, <3>1, StoredByte
    <3> QED
      BY <2>1, <3>2
  <2>3. bytes = [j \in 1 .. g - u |-> Bytes(flow, u, g - u)[j]]
    BY <2>2
  <2>4. Bytes(flow, u, g - u) = [j \in 1 .. g - u |-> Bytes(flow, u, g - u)[j]]
    BY <2>1, SMTT(20)
  <2> QED
    BY <2>3, <2>4, Zenon
<1>7. /\ cnt \in Nat /\ Len(bs.buffer) \in Nat /\ Cardinality(Stored(m)) <= cnt
      /\ Len(bs.buffer) + cnt <= flow.capacity /\ flow.capacity \in Nat
  BY SMTT(20) DEF OutputOK, ByteStreams, CountOK, IsFlow
<1>8. /\ bytes_accepted(bs, Bytes(flow, u, g - u)) = g - u /\ OutputOK(flow, b, g)
      /\ b.read = bs.read /\ b.input_end = bs.input_end
      /\ Len(b.buffer) = Len(bs.buffer) + (g - u)
  <2>1. /\ g - u \in Nat /\ u + (g - u) = g /\ u + (g - u) <= Len(flow.stream)
        /\ Len(bs.buffer) + (g - u) <= flow.capacity
    BY <1>1, <1>2, <1>3, <1>4, <1>5, <1>7, SMTT(30)
  <2>2. /\ bytes_accepted(bs, Bytes(flow, u, g - u)) = g - u
        /\ Appended(flow, bs, u, g - u, b)
    BY <2>1, WriteSlice, Zenon
  <2> QED
    BY <2>1, <2>2, Zenon DEF Appended
<1>9. drain(r) = Object(flow, b, q, cnt - taken, g, e)
  <2>1. r.unassembled_bytes = m /\ r.unassembled_index = u /\ r.output = bs
    BY ObjectFields
  <2>2. u + (g - u) = g
    BY <1>1
  <2>3. [r EXCEPT !.output = b, !.unassembled_index = g] = Object(flow, b, m, cnt, g, e)
    <3> HIDE DEF b
    <3>1. [r EXCEPT !.output = b] = Object(flow, b, m, cnt, u, e)
      BY DEF Object
    <3>2. [Object(flow, b, m, cnt, u, e) EXCEPT !.unassembled_index = g] = Object(flow, b, m, cnt, g, e)
      BY DEF Object
    <3> QED
      BY <3>1, <3>2, Zenon
  <2> HIDE DEF r
  <2>4. drain(r) = erase_entries([r EXCEPT !.output = stream_write(bs, bytes),
                                           !.unassembled_index = u + bytes_accepted(bs, bytes)], K)
    BY <2>1, Zenon DEF drain, g
  <2>5. stream_write(bs, bytes) = b /\ u + bytes_accepted(bs, bytes) = g
    BY <1>6, <1>8, <2>2
  <2> HIDE DEF b, bytes
  <2>6. drain(r) = erase_entries(Object(flow, b, m, cnt, g, e), K)
    BY <2>3, <2>4, <2>5, Zenon
  <2> QED
    BY <2>6, EraseForm
<1>10. /\ MapOK(flow, q) /\ DOMAIN q = DOMAIN m \ K /\ \A k \in DOMAIN m \ K : q[k] = m[k]
       /\ Cardinality(Stored(q)) = Cardinality(Stored(m)) - taken
  <2>1. K \in SUBSET DOMAIN m
    BY Zenon
  <2> HIDE DEF K
  <2>2. Erased(flow, m, K, q)
    BY <2>1, EraseEntries, Zenon
  <2> HIDE DEF q
  <2> QED
    BY <2>2, Zenon DEF Erased
<1> HIDE DEF q, b, taken
<1>11. Beyond(q, g)
  BY <1>1, <1>10, SMTT(20) DEF MapOK, Beyond
<1> HIDE DEF K
<1>12. CountOK(flow, b, q, cnt - taken, x)
  <2>1. /\ cnt - taken \in Nat /\ Cardinality(Stored(q)) <= cnt - taken
        /\ Len(b.buffer) + (cnt - taken) <= flow.capacity
    <3>1. g - u \in Nat
      BY <1>1, SMTT(20)
    <3>2. /\ cnt - taken \in Nat /\ Cardinality(Stored(m)) - taken <= cnt - taken
          /\ (Len(bs.buffer) + (g - u)) + (cnt - taken) <= flow.capacity
      BY <1>2, <1>3, <1>4, <1>7, <3>1, CountAfterDrain, SMTT(30)
    <3> QED
      BY <1>8, <1>10, <3>2, SMTT(20)
  <2>2. \A k \in DOMAIN q : k + Len(q[k]) <= b.read + flow.capacity
    BY <1>8, <1>10 DEF CountOK
  <2>3. ~x => cnt - taken = Cardinality(Stored(q)) /\ \A k \in DOMAIN q : Len(q[k]) > 0
    BY <1>10 DEF CountOK
  <2> QED
    BY <2>1, <2>2, <2>3, SMTT(20) DEF CountOK
<1>13. cnt - taken \in Nat
  BY <1>12, SMTT(20) DEF CountOK
<1> HIDE DEF r
<1> QED
  BY <1>1, <1>8, <1>9, <1>10, <1>11, <1>12, <1>13 DEF r, Sound

\* What merge_string makes of a substring and the entries it meets is a piece of the
\* stream that contains the substring and lies apart from the other entries.
LEMMA Merged ==
  ASSUME NEW flow, IsFlow(flow), NEW m, MapOK(flow, m), NEW i \in Nat, NEW n \in Nat,
         n > 0, i + n <= Len(flow.stream)
  PROVE  \E len \in Nat :
            /\ merged_index(m, i, i + n) \in Nat
            /\ merged_index(m, i, i + n) <= i
            /\ merged_index(m, i, i + n) = i \/ merged_index(m, i, i + n) \in Overlapping(m, i, i + n)
            /\ merged_data(m, Bytes(flow, i, n), i, i + n) = Bytes(flow, merged_index(m, i, i + n), len)
            /\ merged_index(m, i, i + n) + len <= Len(flow.stream)
            /\ i + n <= merged_index(m, i, i + n) + len
            /\ \A l \in DOMAIN m \ Overlapping(m, i, i + n) :
                  \/ l + Len(m[l]) <= merged_index(m, i, i + n)
                  \/ merged_index(m, i, i + n) + len <= l
<1> DEFINE ed == i + n
           O == Overlapping(m, i, ed)
           left == {k \in O : k < i}
           right == {k \in O : k + Len(m[k]) > ed}
           kl == CHOOSE k \in left : TRUE
           kr == CHOOSE k \in right : TRUE
           before == IF left = {} THEN << >> ELSE SubSeq(m[kl], 1, i - kl)
           after == IF right = {} THEN << >> ELSE SubSeq(m[kr], ed - kr + 1, Len(m[kr]))
           idx == merged_index(m, i, ed)
<1>1. idx = IF left = {} THEN i ELSE kl
  BY DEF merged_index
<1>2. merged_data(m, Bytes(flow, i, n), i, ed) = (before \o Bytes(flow, i, n)) \o after
  BY DEF merged_data
<1>3. \A k \in O : /\ k \in DOMAIN m /\ k \in Nat /\ Len(m[k]) \in Nat
                   /\ k + Len(m[k]) <= Len(flow.stream) /\ m[k] = Bytes(flow, k, Len(m[k]))
                   /\ i < k + Len(m[k]) /\ k < ed
  BY DEF MapOK, Overlapping
<1>4. ed \in Nat /\ i < ed /\ ed <= Len(flow.stream) /\ ed = i + n
  OBVIOUS
<1> HIDE DEF ed, idx, O
<1>5. /\ idx \in Nat /\ idx <= i /\ before = Bytes(flow, idx, i - idx)
      /\ idx = i \/ (idx \in O /\ idx < i)
  <2>1. CASE left = {}
    <3>1. idx = i /\ before = << >> /\ i - idx = 0
      BY <1>1, <2>1
    <3>2. Bytes(flow, i, 0) = << >>
      BY BytesEmpty
    <3> HIDE DEF before
    <3> QED
      BY <3>1, <3>2
  <2>2. CASE left # {}
    <3>1. kl \in left
      BY <2>2, SMTT(20)
    <3>2. idx = kl /\ before = SubSeq(m[kl], 1, i - kl)
      BY <1>1, <2>2, Zenon
    <3> HIDE DEF kl, before
    <3>3. /\ kl \in O /\ kl \in Nat /\ kl < i /\ Len(m[kl]) \in Nat /\ i < kl + Len(m[kl])
          /\ kl + Len(m[kl]) <= Len(flow.stream) /\ m[kl] = Bytes(flow, kl, Len(m[kl]))
      BY <1>3, <3>1, SMTT(20)
    <3>4. 0 \in 0 .. Len(m[kl]) /\ i - kl \in 0 .. Len(m[kl]) /\ 0 + 1 = 1
          /\ kl + 0 = kl /\ (i - kl) - 0 = i - kl
      BY <3>3, SMTT(20)
    <3>5. SubSeq(Bytes(flow, kl, Len(m[kl])), 0 + 1, i - kl) = Bytes(flow, kl + 0, (i - kl) - 0)
      BY <3>3, <3>4, BytesCut, ZenonT(60)
    <3>6. SubSeq(m[kl], 1, i - kl) = Bytes(flow, kl, i - kl)
      BY <3>3, <3>4, <3>5
    <3> QED
      BY <3>2, <3>3, <3>6, SMTT(20)
  <2> QED
    BY <2>1, <2>2
<1> HIDE DEF before, left
<1>6. \E p \in Nat : /\ after = Bytes(flow, ed, p) /\ ed + p <= Len(flow.stream)
                     /\ p = 0 \/ \E k \in O : k + Len(m[k]) = ed + p
  <2>1. CASE right = {}
    <3>1. after = Bytes(flow, ed, 0) /\ ed + 0 <= Len(flow.stream)
      BY <1>4, <2>1, BytesEmpty
    <3> QED
      BY <3>1, Zenon
  <2>2. CASE right # {}
    <3>1. kr \in right
      BY <2>2
    <3>2. after = SubSeq(m[kr], ed - kr + 1, Len(m[kr]))
      BY <2>2, Zenon
    <3> HIDE DEF kr, after
    <3>3. /\ kr \in O /\ kr \in Nat /\ kr < ed /\ Len(m[kr]) \in Nat /\ ed < kr + Len(m[kr])
          /\ kr + Len(m[kr]) <= Len(flow.stream) /\ m[kr] = Bytes(flow, kr, Len(m[kr]))
      BY <1>3, <3>1
    <3>4. /\ ed - kr \in 0 .. Len(m[kr]) /\ Len(m[kr]) \in ed - kr .. Len(m[kr])
          /\ kr + (ed - kr) = ed
      BY <1>4, <3>3
    <3>5. PICK p \in Nat : p = Len(m[kr]) - (ed - kr) /\ kr + Len(m[kr]) = ed + p
      <4>1. PICK L \in Nat, a \in Nat, b \in Nat : L = Len(m[kr]) /\ a = kr /\ b = ed
        BY <1>4, <3>3
      <4>2. b < a + L /\ a < b
        BY <3>3, <4>1
      <4>3. L - (b - a) \in Nat /\ a + L = b + (L - (b - a))
        BY <4>2
      <4> QED
        BY <4>1, <4>3, Zenon
    <3>6. SubSeq(Bytes(flow, kr, Len(m[kr])), ed - kr + 1, Len(m[kr])) =
            Bytes(flow, kr + (ed - kr), Len(m[kr]) - (ed - kr))
      BY <3>3, <3>4, BytesCut, ZenonT(60)
    <3>7. after = Bytes(flow, ed, p)
      BY <3>2, <3>3, <3>4, <3>5, <3>6, Zenon
    <3> QED
      BY <3>3, <3>5, <3>7
  <2> QED
    BY <2>1, <2>2, Zenon
<1> HIDE DEF after, right
<1>7. PICK p \in Nat : /\ after = Bytes(flow, ed, p) /\ ed + p <= Len(flow.stream)
                       /\ p = 0 \/ \E k \in O : k + Len(m[k]) = ed + p
  BY <1>6
<1>8. PICK len \in Nat : len = (i - idx) + n + p /\ idx + len = ed + p
  BY <1>4, <1>5
<1>9. merged_data(m, Bytes(flow, i, n), i, ed) = Bytes(flow, idx, len)
  <2>1. PICK d \in Nat, a \in Nat : d = i - idx /\ a = idx /\ a + d = i
    BY <1>5, SMTT(20)
  <2>2. /\ a + d + n <= Len(flow.stream) /\ a + (d + n) + p <= Len(flow.stream)
        /\ a + (d + n) = ed /\ d + n \in Nat /\ (d + n) + p = len
    BY <1>4, <1>7, <1>8, <2>1, SMTT(20)
  <2>3. Bytes(flow, a, d) \o Bytes(flow, a + d, n) = Bytes(flow, a, d + n)
    BY <2>2, BytesConcat, SMTT(30)
  <2>4. Bytes(flow, a, d + n) \o Bytes(flow, a + (d + n), p) = Bytes(flow, a, (d + n) + p)
    <3>1. PICK k \in Nat : k = d + n
      BY <2>2
    <3>2. a + k + p <= Len(flow.stream) /\ p \in Nat
      BY <1>7, <2>2, <3>1
    <3>3. Bytes(flow, a, k) \o Bytes(flow, a + k, p) = Bytes(flow, a, k + p)
      BY <3>2, BytesConcat, SMTT(30)
    <3> QED
      BY <3>1, <3>3, Zenon
  <2> QED
    BY <1>2, <1>5, <1>7, <2>1, <2>2, <2>3, <2>4, Zenon
<1>10. ASSUME NEW l \in DOMAIN m \ O
       PROVE  l + Len(m[l]) <= idx \/ ed + p <= l
  <2>1. /\ l \in Nat /\ Len(m[l]) \in Nat
        /\ l + Len(m[l]) <= i \/ ed <= l
    BY <1>4, SMTT(20) DEF MapOK, O, Overlapping
  <2>2. CASE l + Len(m[l]) <= i
    <3>1. CASE idx = i
      BY <2>2, <3>1, SMTT(20)
    <3>2. CASE idx \in O /\ idx < i
      <4>1. idx \in DOMAIN m /\ Len(m[idx]) \in Nat /\ i < idx + Len(m[idx]) /\ l # idx
        BY <1>3, <3>2, SMTT(20)
      <4>2. (l < idx => l + Len(m[l]) <= idx) /\ (idx < l => idx + Len(m[idx]) <= l)
        BY <4>1, SMTT(30) DEF MapOK
      <4> QED
        BY <1>5, <2>1, <2>2, <4>1, <4>2
    <3> QED
      BY <1>5, <3>1, <3>2
  <2>3. CASE ed <= l
    <3>1. CASE p = 0
      BY <1>4, <2>3, <3>1, SMTT(20)
    <3>2. ASSUME NEW k \in O, k + Len(m[k]) = ed + p
          PROVE  ed + p <= l
      <4>1. k \in DOMAIN m /\ k \in Nat /\ k < ed
        BY <1>3, SMTT(20)
      <4>2. k < l
        BY <1>4, <2>1, <2>3, <4>1
      <4>3. k + Len(m[k]) <= l
        BY <4>1, <4>2, SMTT(20) DEF MapOK
      <4> QED
        BY <3>2, <4>3
    <3> QED
      BY <1>7, <3>1, <3>2
  <2> QED
    BY <2>1, <2>2, <2>3
<1>11. /\ idx + len <= Len(flow.stream) /\ ed <= idx + len
       /\ \A l \in DOMAIN m \ O : l + Len(m[l]) <= idx \/ idx + len <= l
  BY <1>4, <1>7, <1>8, <1>10
<1> QED
  BY <1>5, <1>8, <1>9, <1>11 DEF ed, idx, O

\* A piece of the stream put where there is none
LEMMA InsertEntry ==
  ASSUME NEW flow, IsFlow(flow), NEW m, MapOK(flow, m), NEW i \in Nat, NEW n \in Nat,
         i + n <= Len(flow.stream),
         i \notin DOMAIN m,
         Apart(m, i, n)
  PROVE  Inserted(flow, m, i, n, map_insert(m, i, Bytes(flow, i, n)))
<1> USE DEF Apart
<1> DEFINE q == map_insert(m, i, Bytes(flow, i, n))
<1>1. Bytes(flow, i, n) \in Seq(flow.byte) /\ Len(Bytes(flow, i, n)) = n
  BY BytesType, SMTT(20)
<1>2. /\ DOMAIN q = DOMAIN m \cup {i} /\ q[i] = Bytes(flow, i, n)
      /\ \A k \in DOMAIN m : q[k] = m[k]
      /\ q = [k \in DOMAIN q |-> q[k]]
  BY SMTT(20) DEF map_insert
<1> HIDE DEF q
<1>3. MapOK(flow, q)
  <2>1. ASSUME NEW k \in DOMAIN q
        PROVE  /\ k \in Nat /\ Len(q[k]) \in Nat /\ k + Len(q[k]) <= Len(flow.stream)
               /\ q[k] = Bytes(flow, k, Len(q[k]))
    BY <1>1, <1>2, SMTT(20) DEF MapOK
  <2>2. ASSUME NEW k \in DOMAIN q, NEW l \in DOMAIN q, k < l
        PROVE  k + Len(q[k]) <= l
    <3>1. CASE k = i
      <4>1. l \in DOMAIN m /\ l \in Nat /\ Len(m[l]) \in Nat
        BY <1>2, <2>2, <3>1, SMTT(20) DEF MapOK
      <4>2. i + n <= l
        BY <2>2, <3>1, <4>1
      <4> QED
        BY <1>1, <1>2, <3>1, <4>2
    <3>2. CASE k # i /\ l = i
      <4>1. k \in DOMAIN m /\ k \in Nat /\ q[k] = m[k]
        BY <1>2, <3>2, SMTT(20) DEF MapOK
      <4>2. k + Len(m[k]) <= i
        BY <2>2, <3>2, <4>1
      <4> QED
        BY <3>2, <4>1, <4>2
    <3>3. CASE k # i /\ l # i
      BY <1>2, <2>2, <3>3 DEF MapOK
    <3> QED
      BY <3>1, <3>2, <3>3
  <2> QED
    BY <1>2, <2>1, <2>2 DEF MapOK
<1>4. Stored(q) = Stored(m) \cup i .. i + n - 1
  <2>1. ASSUME NEW j
        PROVE  j \in Stored(q) <=> j \in Stored(m) \/ j \in i .. i + n - 1
    <3>1. j \in Stored(q) <=> \E k \in DOMAIN m \cup {i} : j \in Extent(q, k)
      BY <1>2, ExtentsElement DEF Stored
    <3>2. \A k \in DOMAIN m : Extent(q, k) = Extent(m, k)
      BY <1>2 DEF Extent
    <3>3. Extent(q, i) = i .. i + n - 1
      BY <1>1, <1>2 DEF Extent
    <3>4. j \in Stored(m) <=> \E k \in DOMAIN m : j \in Extent(m, k)
      BY ExtentsElement DEF Stored
    <3> QED
      BY <3>1, <3>2, <3>3, <3>4
  <2> QED
    BY <2>1, SMTT(20)
<1>5. Stored(m) \cap (i .. i + n - 1) = {}
  <2>1. SUFFICES ASSUME NEW j \in i .. i + n - 1, j \in Stored(m) PROVE FALSE
    OBVIOUS
  <2>2. PICK k \in DOMAIN m : j \in Extent(m, k)
    BY <2>1, ExtentsElement DEF Stored
  <2>3. k \in Nat /\ Len(m[k]) \in Nat /\ j \in k .. k + Len(m[k]) - 1
    BY <2>2 DEF MapOK, Extent
  <2> QED
    BY <2>2, <2>3, SMTT(20)
<1>6. IsFiniteSet(Stored(m)) /\ Cardinality(Stored(m)) \in Nat
  BY ExtentsFinite DEF Stored
<1>7. IsFiniteSet(i .. i + n - 1) /\ Cardinality(i .. i + n - 1) = n
  <2>1. /\ IsFiniteSet(i .. i + n - 1)
        /\ Cardinality(i .. i + n - 1) = IF i > i + n - 1 THEN 0 ELSE (i + n - 1) - i + 1
    BY FS_Interval, SMTT(20)
  <2> QED
    BY <2>1
<1>8. Cardinality(Stored(q)) = Cardinality(Stored(m)) + Cardinality(i .. i + n - 1) - 0
  <2>1. Cardinality(Stored(m) \cup i .. i + n - 1) =
          Cardinality(Stored(m)) + Cardinality(i .. i + n - 1)
            - Cardinality(Stored(m) \cap (i .. i + n - 1))
    BY <1>6, <1>7, FS_Union, Zenon
  <2> QED
    BY <1>4, <1>5, <2>1, FS_EmptySet, Zenon
<1>9. Cardinality(Stored(q)) = Cardinality(Stored(m)) + n
  BY <1>6, <1>7, <1>8, SMTT(20)
<1> QED
  BY <1>1, <1>2, <1>3, <1>9, Zenon DEF q, Inserted

\* While every entry starts past u and ends inside the window, there is room for one
\* more byte than is stored.
LEMMA RoomForNext ==
  ASSUME NEW flow, IsFlow(flow), NEW m, MapOK(flow, m), NEW u \in Nat, NEW limit \in Nat,
         u < limit,
         \A k \in DOMAIN m : k > u /\ k + Len(m[k]) <= limit
  PROVE  Cardinality(Stored(m)) < limit - u
<1>1. ASSUME NEW j \in Stored(m)
      PROVE  j \in u + 1 .. limit - 1
  <2>1. PICK k \in DOMAIN m : j \in Extent(m, k)
    BY ExtentsElement DEF Stored
  <2>2. k \in Nat /\ Len(m[k]) \in Nat /\ j \in k .. k + Len(m[k]) - 1
    BY <2>1 DEF MapOK, Extent
  <2> QED
    BY <2>1, <2>2, SMTT(20)
<1>2. /\ IsFiniteSet(u + 1 .. limit - 1)
      /\ Cardinality(u + 1 .. limit - 1) =
           IF u + 1 > limit - 1 THEN 0 ELSE (limit - 1) - (u + 1) + 1
  <2>1. u + 1 \in Int /\ limit - 1 \in Int
    BY SMTT(20)
  <2> QED
    BY <2>1, FS_Interval, SMTT(20)
<1>3. Cardinality(Stored(m)) <= Cardinality(u + 1 .. limit - 1)
  BY <1>1, <1>2, FS_Subset
<1>4. Cardinality(Stored(m)) \in Nat
  BY ExtentsFinite, SMTT(20) DEF Stored
<1> QED
  BY <1>2, <1>3, <1>4

\* The insertion at the end of merge_string, on an object without the entries that
\* the substring met
LEMMA InsertMerged ==
  ASSUME NEW flow, IsFlow(flow), NEW bs, NEW m, NEW cnt \in Nat, NEW u \in Nat, NEW e,
         NEW x,
         OutputOK(flow, bs, u), MapOK(flow, m), CountOK(flow, bs, m, cnt, x), Beyond(m, u),
         bs.input_end = FALSE,
         NEW i \in Nat, NEW n \in Nat, n > 0, i + n <= Len(flow.stream), i > u,
         StartsInWindow(flow, bs, i, n, x), Apart(m, i, n)
  PROVE  Sound(flow, insert_merged(Object(flow, bs, m, cnt, u, e), Bytes(flow, i, n), i), e, x)
<1> DEFINE r == Object(flow, bs, m, cnt, u, e)
           s == Fitting(flow, i, i + n, bs.read, Len(bs.buffer), cnt)
           q == map_insert(m, i, Bytes(flow, i, s))
           c == cnt + s
<1>1. /\ Len(bs.buffer) \in Nat /\ bs.read \in Nat /\ bs.read + Len(bs.buffer) = u
      /\ Len(bs.buffer) + cnt <= flow.capacity /\ flow.capacity \in Nat
      /\ Cardinality(Stored(m)) <= cnt
  BY SMTT(20) DEF OutputOK, ByteStreams, CountOK, IsFlow
<1>0. i <= bs.read + flow.capacity /\ (x \/ i < bs.read + flow.capacity)
  BY DEF StartsInWindow
<1>2. Cardinality(Stored(m)) \in Nat
  BY ExtentsFinite DEF Stored
<1>3. /\ s \in Nat /\ i + s <= i + n /\ i + s <= bs.read + flow.capacity
      /\ Len(bs.buffer) + cnt + s <= flow.capacity
      /\ i < i + n /\ i < bs.read + flow.capacity /\ Len(bs.buffer) + cnt < flow.capacity => 0 < s
  <2>1. i + n \in Nat /\ i <= i + n
    BY SMTT(20)
  <2> QED
    BY <1>0, <1>1, <2>1, CutToFit, Zenon
<1>4. ~x => 0 < s
  <2>1. SUFFICES ASSUME ~x PROVE Len(bs.buffer) + cnt < flow.capacity
    BY <1>0, <1>3, SMTT(20)
  <2>2. PICK limit \in Nat : limit = bs.read + flow.capacity /\ u < limit
    BY <1>0, <1>1, SMTT(20)
  <2>3. \A k \in DOMAIN m : k > u /\ k + Len(m[k]) <= limit
    BY <2>2 DEF CountOK, Beyond
  <2>4. Cardinality(Stored(m)) < limit - u
    BY <2>2, <2>3, RoomForNext, SMTT(20)
  <2>5. cnt = Cardinality(Stored(m))
    BY <2>1, SMTT(20) DEF CountOK
  <2>6. PICK rd \in Nat, l \in Nat : rd = bs.read /\ l = Len(bs.buffer)
    BY <1>1, SMTT(30)
  <2>7. cnt < (rd + flow.capacity) - u /\ rd + l = u
    BY <1>1, <2>2, <2>4, <2>5, <2>6, SMTT(20)
  <2>8. l + cnt < flow.capacity
    BY <2>7, SMTT(20) DEF IsFlow
  <2> QED
    BY <2>6, <2>8
<1>5. insert_merged(r, Bytes(flow, i, n), i) = Object(flow, bs, q, c, u, e)
  <2>1. Len(Bytes(flow, i, n)) = n
    BY BytesType
  <2>2. free_space(r) = flow.capacity - Len(bs.buffer) - cnt
    BY <1>1, FreeSpace, SMTT(30)
  <2>3. /\ r.unassembled_cnt = cnt /\ r.unassembled_bytes = m
        /\ unaccepted_index(r) = bs.read + flow.capacity
    BY ObjectFields DEF unaccepted_index
  <2>4. SubSeq(Bytes(flow, i, n), 1, s) = Bytes(flow, i, s)
    <3>1. /\ 0 \in 0 .. n /\ s \in 0 .. n /\ 0 + 1 = 1 /\ i + 0 = i /\ s - 0 = s
      BY <1>3, SMTT(20)
    <3>2. SubSeq(Bytes(flow, i, n), 0 + 1, s) = Bytes(flow, i + 0, s - 0)
      BY <3>1, BytesCut, ZenonT(60)
    <3> QED
      BY <3>1, <3>2
  <2>5. MinOf(MinOf(i + Len(Bytes(flow, i, n)), unaccepted_index(r)) - i, free_space(r)) = s
    BY <2>1, <2>2, <2>3 DEF Fitting
  <2>6. [r EXCEPT !.unassembled_cnt = c, !.unassembled_bytes = q] = Object(flow, bs, q, c, u, e)
    <3> HIDE DEF q, c
    <3>1. [r EXCEPT !.unassembled_cnt = c] = Object(flow, bs, m, c, u, e)
      BY DEF Object
    <3>2. [Object(flow, bs, m, c, u, e) EXCEPT !.unassembled_bytes = q] = Object(flow, bs, q, c, u, e)
      BY DEF Object
    <3> QED
      BY <3>1, <3>2, Zenon
  <2> HIDE DEF r, s
  <2>7. insert_merged(r, Bytes(flow, i, n), i) = [r EXCEPT !.unassembled_cnt = c, !.unassembled_bytes = q]
    BY <2>3, <2>4, <2>5, Zenon DEF insert_merged
  <2> QED
    BY <2>6, <2>7, Zenon
<1> HIDE DEF s
<1>6. /\ c \in Nat /\ Len(bs.buffer) + c <= flow.capacity /\ Cardinality(Stored(m)) <= c
      /\ Cardinality(Stored(m)) + s <= c
  <2>1. PICK w \in Nat, l \in Nat, size \in Nat :
          w = s /\ l = Len(bs.buffer) /\ size = Cardinality(Stored(m))
    BY <1>1, <1>2, <1>3, Zenon
  <2>2. l + cnt + w <= flow.capacity /\ size <= cnt
    BY <1>1, <1>3, <2>1, SMTT(20)
  <2>3. cnt + w \in Nat /\ l + (cnt + w) <= flow.capacity /\ size <= cnt + w /\ size + w <= cnt + w
    BY <2>2 DEF IsFlow
  <2> QED
    BY <2>1, <2>3, Zenon
<1>7. CASE i \in DOMAIN m
  \* The entry there is empty, and stays: only pushes at the end of the window do this.
  <2>1. q = m
    BY <1>7, Zenon DEF map_insert, MapOK
  <2>2. Len(m[i]) \in Nat /\ (i + Len(m[i]) <= i \/ i + n <= i)
    BY <1>7 DEF MapOK, Apart
  <2>3. x
    BY <1>7, <2>2 DEF CountOK
  <2>4. CountOK(flow, bs, m, c, x)
    <3> HIDE DEF c
    <3> QED
      BY <1>6, <2>3, SMTT(20) DEF CountOK
  <2> HIDE DEF r, c, q
  <2> QED
    BY <1>5, <1>6, <2>1, <2>4, SMTT(20) DEF r, Sound
<1>8. CASE i \notin DOMAIN m
  <2>1. \A l \in DOMAIN m : l + Len(m[l]) <= i \/ i + s <= l
    BY <1>3 DEF MapOK, Apart
  <2>2. i + s <= Len(flow.stream)
    BY <1>3 DEF IsFlow
  <2>3. /\ MapOK(flow, q) /\ DOMAIN q = DOMAIN m \cup {i} /\ Len(q[i]) = s
        /\ \A k \in DOMAIN m : q[k] = m[k]
        /\ Cardinality(Stored(q)) = Cardinality(Stored(m)) + s
    <3>1. PICK w \in Nat : w = s
      BY <1>3, SMTT(20)
    <3>2. i + w <= Len(flow.stream) /\ Apart(m, i, w)
      BY <2>1, <2>2, <3>1, SMTT(20) DEF Apart
    <3>3. Inserted(flow, m, i, w, map_insert(m, i, Bytes(flow, i, w)))
      BY <1>8, <3>2, InsertEntry, Zenon
    <3> QED
      BY <3>1, <3>3, Zenon DEF Inserted
  <2> HIDE DEF q
  <2>4. \A k \in DOMAIN q : k > u /\ k + Len(q[k]) <= bs.read + flow.capacity
    BY <1>3, <2>3, SMTT(20) DEF CountOK, Beyond
  <2>5. ~x => c = Cardinality(Stored(q)) /\ \A k \in DOMAIN q : Len(q[k]) > 0
    BY <1>4, <2>3, SMTT(20) DEF CountOK
  <2>6. Cardinality(Stored(q)) <= c /\ Len(bs.buffer) + c <= flow.capacity
    BY <1>6, <2>3, SMTT(20)
  <2> HIDE DEF c
  <2>7. CountOK(flow, bs, q, c, x)
    BY <1>6, <2>4, <2>5, <2>6, SMTT(30) DEF CountOK
  <2> HIDE DEF r
  <2> QED
    BY <1>5, <1>6, <2>3, <2>4, <2>7, SMTT(20) DEF r, Sound, Beyond
<1> QED
  BY <1>7, <1>8

\* merge_string stores a substring that starts past the next byte wanted.
LEMMA MergeString ==
  ASSUME NEW flow, IsFlow(flow), NEW bs, NEW m, NEW cnt \in Nat, NEW u \in Nat, NEW e,
         NEW x,
         OutputOK(flow, bs, u), MapOK(flow, m), CountOK(flow, bs, m, cnt, x), Beyond(m, u),
         bs.input_end = FALSE,
         NEW i \in Nat, NEW n \in Nat, i + n <= Len(flow.stream), i > u,
         StartsInWindow(flow, bs, i, n, x)
  PROVE  Sound(flow, merge_string(Object(flow, bs, m, cnt, u, e), Bytes(flow, i, n), i), e, x)
<1> DEFINE r == Object(flow, bs, m, cnt, u, e)
           O == Overlapping(m, i, i + n)
           q == map_erase(m, O)
           c == cnt - Cardinality(Extents(m, O))
           idx == merged_index(m, i, i + n)
           data == merged_data(m, Bytes(flow, i, n), i, i + n)
           nothing == Bytes(flow, i, n) = << >> \/ \E k \in O : Contains(m, k, i, i + n)
<1>1. Bytes(flow, i, n) \in Seq(flow.byte) /\ Len(Bytes(flow, i, n)) = n
  BY BytesType, SMTT(20)
<1>2. /\ nothing => merge_string(r, Bytes(flow, i, n), i) = r
      /\ ~nothing => merge_string(r, Bytes(flow, i, n), i) = insert_merged(erase_entries(r, O), data, idx)
  <2>1. r.unassembled_bytes = m
    BY ObjectFields, SMTT(20)
  <2> HIDE DEF r
  <2> QED
    BY <1>1, <2>1 DEF merge_string
<1>3. CASE nothing
  <2> HIDE DEF r
  <2> QED
    BY <1>2, <1>3 DEF r, Sound
<1>4. CASE ~nothing
  <2>0. merge_string(r, Bytes(flow, i, n), i) = insert_merged(erase_entries(r, O), data, idx)
    BY <1>2, <1>4, Zenon
  <2>1. n > 0
    BY <1>1, <1>4
  <2>2. PICK len \in Nat :
          /\ idx \in Nat /\ idx <= i /\ (idx = i \/ idx \in O)
          /\ data = Bytes(flow, idx, len)
          /\ idx + len <= Len(flow.stream) /\ i + n <= idx + len
          /\ \A l \in DOMAIN m \ O : l + Len(m[l]) <= idx \/ idx + len <= l
    BY <2>1, Merged
  <2> HIDE DEF idx, data
  <2>3. O \in SUBSET DOMAIN m
    BY SMTT(20) DEF Overlapping
  <2> HIDE DEF O
  <2>4. /\ MapOK(flow, q) /\ DOMAIN q = DOMAIN m \ O /\ \A k \in DOMAIN m \ O : q[k] = m[k]
        /\ Cardinality(Stored(q)) = Cardinality(Stored(m)) - Cardinality(Extents(m, O))
    <3>1. Erased(flow, m, O, q)
      BY <2>3, EraseEntries, Zenon
    <3> HIDE DEF q
    <3> QED
      BY <3>1, Zenon DEF Erased
  <2>5. erase_entries(r, O) = Object(flow, bs, q, c, u, e)
    BY EraseForm, SMTT(20)
  <2> HIDE DEF q
  <2>6. c \in Nat /\ CountOK(flow, bs, q, c, x)
    <3>1. PICK gone \in Nat, size \in Nat, left \in Nat :
            /\ gone = Cardinality(Extents(m, O)) /\ size = Cardinality(Stored(m))
            /\ left = Cardinality(Stored(q))
      BY <2>3, <2>4, ExtentsFinite DEF Stored
    <3>2. left = size - gone /\ size <= cnt /\ c = cnt - gone
      BY <2>4, <3>1, SMTT(20) DEF CountOK
    <3>3. c \in Nat /\ left <= c /\ (cnt = size => c = left) /\ c <= cnt
      BY <3>2
    <3>4. Len(bs.buffer) + c <= flow.capacity
      <4>1. PICK l \in Nat : l = Len(bs.buffer) /\ l + cnt <= flow.capacity
        BY SMTT(20) DEF CountOK, OutputOK, ByteStreams
      <4>2. PICK d \in Nat : d = c
        BY <3>3, SMTT(20)
      <4>3. d <= cnt
        BY <3>3, <4>2, SMTT(20)
      <4>4. l + d <= flow.capacity
        BY <4>1, <4>3, SMTT(20) DEF IsFlow
      <4> QED
        BY <4>1, <4>2, <4>4, SMTT(20)
    <3> HIDE DEF c
    <3> QED
      BY <2>4, <3>1, <3>3, <3>4, SMTT(30) DEF CountOK
  <2> HIDE DEF c
  <2>7. PICK a \in Nat : a = idx
    BY <2>2, SMTT(20)
  <2>8. a > u /\ len > 0 /\ a <= i /\ a + len <= Len(flow.stream)
    <3>1. a > u
      BY <2>2, <2>3, <2>7, SMTT(20) DEF Beyond
    <3>2. a <= i /\ i + n <= a + len
      BY <2>2, <2>7, SMTT(20)
    <3>3. len > 0
      BY <2>1, <3>2
    <3> QED
      BY <2>2, <2>7, <3>1, <3>2, <3>3, SMTT(30)
  <2>9. Beyond(q, u) /\ Apart(q, a, len)
    BY <2>2, <2>4, <2>7, SMTT(20) DEF Beyond, Apart
  <2>10. StartsInWindow(flow, bs, a, len, x)
    <3>1. PICK limit \in Nat : limit = bs.read + flow.capacity
      BY SMTT(20) DEF OutputOK, ByteStreams, IsFlow
    <3>2. a <= limit /\ (x \/ a < limit)
      BY <2>1, <2>8, <3>1 DEF StartsInWindow
    <3> QED
      BY <3>1, <3>2, SMTT(20) DEF StartsInWindow
  <2>11. Sound(flow, insert_merged(Object(flow, bs, q, c, u, e), Bytes(flow, a, len), a), e, x)
    BY <2>4, <2>6, <2>8, <2>9, <2>10, InsertMerged, Zenon
  <2>12. merge_string(r, Bytes(flow, i, n), i) = insert_merged(Object(flow, bs, q, c, u, e), Bytes(flow, a, len), a)
    BY <2>0, <2>2, <2>5, <2>7, Zenon
  <2> QED
    BY <2>11, <2>12
<1> QED
  BY <1>3, <1>4, SMTT(20)

-------------------------------------------------------------------------------
(***************************************************************************)
(* push_substring and reading                                              *)
(***************************************************************************)
\* end_input changes nothing but the flag.
LEMMA OutputEnded ==
  ASSUME NEW flow, IsFlow(flow), NEW bs, NEW m, NEW cnt, NEW u, NEW x,
         OutputOK(flow, bs, u), CountOK(flow, bs, m, cnt, x)
  PROVE  /\ OutputOK(flow, end_input(bs), u) /\ CountOK(flow, end_input(bs), m, cnt, x)
         /\ end_input(bs).input_end = TRUE
<1> DEFINE b == end_input(bs)
<1>1. bs \in ByteStreams(flow.byte)
  BY SMTT(20) DEF OutputOK
<1>2. /\ b \in ByteStreams(flow.byte) /\ b.input_end = TRUE /\ b.buffer = bs.buffer
      /\ b.read = bs.read /\ b.written = bs.written /\ b.capacity = bs.capacity
      /\ b.error = bs.error
  BY <1>1, Zenon DEF end_input, ByteStreams
<1> HIDE DEF b
<1>3. OutputOK(flow, b, u)
  BY <1>2 DEF OutputOK, Grown
<1>4. CountOK(flow, b, m, cnt, x)
  BY <1>2, SMTT(20) DEF CountOK
<1> QED
  BY <1>2, <1>3, <1>4 DEF b

\* The call ends the output when the next byte wanted is past the known end.
LEMMA Finish ==
  ASSUME NEW flow, IsFlow(flow), NEW bs, NEW m, NEW cnt \in Nat, NEW u \in Nat,
         NEW e \in Nat, NEW x,
         OutputOK(flow, bs, u), MapOK(flow, m), CountOK(flow, bs, m, cnt, x), Beyond(m, u),
         u < e => bs.input_end = FALSE
  PROVE  Healthy(flow, finish_if_complete(Object(flow, bs, m, cnt, u, e)), e, x)
<1> DEFINE r == Object(flow, bs, m, cnt, u, e)
<1>1. CASE u >= e
  <2>1. finish_if_complete(r) = [r EXCEPT !.output = end_input(bs)]
    <3>1. r.unassembled_index >= r.eof_index /\ r.output = bs
      BY <1>1, ObjectFields
    <3> HIDE DEF r
    <3> QED
      BY <3>1, Zenon DEF finish_if_complete
  <2>2. [r EXCEPT !.output = end_input(bs)] = Object(flow, end_input(bs), m, cnt, u, e)
    BY DEF Object
  <2>3. PICK b : b = end_input(bs)
    OBVIOUS
  <2>4. OutputOK(flow, b, u) /\ CountOK(flow, b, m, cnt, x) /\ b.input_end = TRUE
    BY <2>3, OutputEnded, Zenon
  <2>5. finish_if_complete(r) = Object(flow, b, m, cnt, u, e)
    BY <2>1, <2>2, <2>3, SMTT(20)
  <2>6. Healthy(flow, Object(flow, b, m, cnt, u, e), e, x)
    <3>1. EndOK(b, u, e)
      BY <1>1, <2>4, SMTT(20) DEF EndOK
    <3> QED
      BY <2>4, <3>1 DEF Healthy
  <2> QED
    BY <2>5, <2>6
<1>2. CASE u < e
  <2>1. finish_if_complete(r) = r
    BY <1>2, ObjectFields, SMTT(20) DEF finish_if_complete
  <2>2. EndOK(bs, u, e)
    BY <1>2, SMTT(20) DEF EndOK
  <2> QED
    BY <2>1, <2>2 DEF Healthy
<1> QED
  BY <1>1, <1>2

\* The same of the result of push_in_window
LEMMA FinishSound ==
  ASSUME NEW flow, IsFlow(flow), NEW r, NEW e \in Nat, NEW x, Sound(flow, r, e, x)
  PROVE  Healthy(flow, finish_if_complete(r), e, x)
<1>1. PICK bs, m : \E cnt, u \in Nat :
        /\ r = Object(flow, bs, m, cnt, u, e)
        /\ OutputOK(flow, bs, u) /\ MapOK(flow, m) /\ CountOK(flow, bs, m, cnt, x) /\ Beyond(m, u)
        /\ bs.input_end = FALSE
  BY SMTT(20) DEF Sound
<1>2. PICK cnt \in Nat, u \in Nat :
        /\ r = Object(flow, bs, m, cnt, u, e)
        /\ OutputOK(flow, bs, u) /\ MapOK(flow, m) /\ CountOK(flow, bs, m, cnt, x) /\ Beyond(m, u)
        /\ bs.input_end = FALSE
  BY <1>1, SMTT(20)
<1> QED
  BY <1>2, Finish, Zenon

\* A substring that reaches the next byte wanted or starts in the window is taken,
\* as far as there is room for it.
LEMMA PushInWindow ==
  ASSUME NEW flow, IsFlow(flow), NEW bs, NEW m, NEW cnt \in Nat, NEW u \in Nat, NEW e,
         NEW x,
         OutputOK(flow, bs, u), MapOK(flow, m), CountOK(flow, bs, m, cnt, x), Beyond(m, u),
         bs.input_end = FALSE,
         NEW i \in Nat, NEW n \in Nat, i + n <= Len(flow.stream), u <= i + n,
         i > u => StartsInWindow(flow, bs, i, n, x)
  PROVE  Sound(flow, push_in_window(Object(flow, bs, m, cnt, u, e), Bytes(flow, i, n), i), e, x)
<1> DEFINE r == Object(flow, bs, m, cnt, u, e)
<1>0. r.unassembled_index = u
  BY ObjectFields, SMTT(20)
<1>1. CASE i > u
  <2>1. push_in_window(r, Bytes(flow, i, n), i) = merge_string(r, Bytes(flow, i, n), i)
    BY <1>0, <1>1, SMTT(20) DEF push_in_window
  <2>2. Sound(flow, merge_string(r, Bytes(flow, i, n), i), e, x)
    BY <1>1, MergeString, Zenon
  <2> QED
    BY <2>1, <2>2
<1>2. CASE i <= u
  <2>1. push_in_window(r, Bytes(flow, i, n), i) = drain(write_in_order(r, Bytes(flow, i, n), i))
    BY <1>0, <1>2, SMTT(20) DEF push_in_window
  <2>2. PICK b : \E v \in Nat :
          /\ write_in_order(r, Bytes(flow, i, n), i) = Object(flow, b, m, cnt, v, e)
          /\ OutputOK(flow, b, v) /\ CountOK(flow, b, m, cnt, x) /\ b.input_end = FALSE
    <3>1. Written(flow, write_in_order(r, Bytes(flow, i, n), i), m, cnt, e, x)
      BY <1>2, WriteInOrder, Zenon
    <3> QED
      BY <3>1, SMTT(20) DEF Written
  <2>3. PICK v \in Nat :
          /\ write_in_order(r, Bytes(flow, i, n), i) = Object(flow, b, m, cnt, v, e)
          /\ OutputOK(flow, b, v) /\ CountOK(flow, b, m, cnt, x) /\ b.input_end = FALSE
    BY <2>2
  <2>4. Sound(flow, drain(Object(flow, b, m, cnt, v, e)), e, x)
    BY <2>3, Drain, Zenon
  <2> QED
    BY <2>1, <2>3, <2>4, SMTT(20)
<1> QED
  BY <1>1, <1>2, SMTT(20)

\* The index past a piece of the stream does not wrap around.
LEMMA EndIndex ==
  ASSUME NEW flow, IsFlow(flow), NEW i \in Nat, NEW n \in Nat, i + n <= Len(flow.stream)
  PROVE  SizeAdd(i, Len(Bytes(flow, i, n))) = i + n
<1>1. i + n \in Nat /\ SizeMax \in Nat /\ i + n <= SizeMax
  BY SizeMaxAssumption DEF IsFlow
<1>2. Len(Bytes(flow, i, n)) = n
  BY BytesType, SMTT(20)
<1> QED
  BY <1>1, <1>2 DEF SizeAdd

\* Only a substring that reaches the end of the stream changes the known end.
LEMMA NoteEof ==
  ASSUME NEW flow, IsFlow(flow), NEW bs, NEW m, NEW cnt, NEW u, NEW e \in EofIndices(flow),
         NEW i \in Nat, NEW n \in Nat,
         i + n <= Len(flow.stream), NEW eof \in BOOLEAN, eof => i + n = Len(flow.stream)
  PROVE  \E f \in EofIndices(flow) :
            /\ note_eof(Object(flow, bs, m, cnt, u, e), Bytes(flow, i, n), i, eof)
                 = Object(flow, bs, m, cnt, u, f)
            /\ f = e \/ (eof /\ f = Len(flow.stream))
<1> DEFINE r == Object(flow, bs, m, cnt, u, e)
           end == SizeAdd(i, Len(Bytes(flow, i, n)))
<1>1. end = i + n
  BY EndIndex, Zenon
<1>2. CASE eof = TRUE
  <2>1. note_eof(r, Bytes(flow, i, n), i, eof) = [r EXCEPT !.eof_index = end]
    <3> HIDE DEF r
    <3> QED
      BY <1>2, Zenon DEF note_eof
  <2> HIDE DEF end
  <2>2. [r EXCEPT !.eof_index = end] = Object(flow, bs, m, cnt, u, end)
    BY SMTT(20) DEF Object
  <2>3. end = Len(flow.stream) /\ Len(flow.stream) \in EofIndices(flow)
    BY <1>1, <1>2, SMTT(20) DEF EofIndices
  <2>4. note_eof(r, Bytes(flow, i, n), i, eof) = Object(flow, bs, m, cnt, u, Len(flow.stream))
    BY <2>1, <2>2, <2>3
  <2> QED
    BY <1>2, <2>3, <2>4, SMTT(20)
<1>3. CASE eof = FALSE
  BY <1>3, SMTT(20) DEF note_eof
<1> QED
  BY <1>2, <1>3, Zenon

\* Where the window of the reassembler ends
LEMMA Window ==
  ASSUME NEW flow, IsFlow(flow), NEW bs, NEW m, NEW cnt, NEW u, NEW e
  PROVE  unaccepted_index(Object(flow, bs, m, cnt, u, e)) = bs.read + flow.capacity
BY ObjectFields, SMTT(20) DEF unaccepted_index

\* push_substring keeps a reassembler healthy that has not ended.
LEMMA PushOpen ==
  ASSUME NEW flow, IsFlow(flow), NEW bs, NEW m, NEW cnt \in Nat, NEW u \in Nat,
         NEW f \in Nat, NEW x,
         OutputOK(flow, bs, u), MapOK(flow, m), CountOK(flow, bs, m, cnt, x), Beyond(m, u),
         bs.input_end = FALSE,
         NEW i \in Nat, NEW n \in Nat, i + n <= Len(flow.stream),
         ~(i <= bs.read + flow.capacity /\ i > u) \/ StartsInWindow(flow, bs, i, n, x),
         u < f
  PROVE  LET q == Object(flow, bs, m, cnt, u, f)
         IN  Healthy(flow, IF out_of_window(q, Bytes(flow, i, n), i) THEN q
                     ELSE finish_if_complete(push_in_window(q, Bytes(flow, i, n), i)), f, x)
<1> DEFINE q == Object(flow, bs, m, cnt, u, f)
<1>1. CASE out_of_window(q, Bytes(flow, i, n), i)
  <2>1. EndOK(bs, u, f)
    BY SMTT(20) DEF EndOK
  <2>2. Healthy(flow, q, f, x)
    BY <2>1, SMTT(20) DEF Healthy
  <2> QED
    BY <1>1, <2>2
<1>2. CASE ~out_of_window(q, Bytes(flow, i, n), i)
  <2>1. SizeAdd(i, Len(Bytes(flow, i, n))) = i + n
    BY EndIndex, ZenonT(40)
  <2>2. ~(i + n < u) /\ ~(i > bs.read + flow.capacity)
    BY <1>2, <2>1, ObjectFields, Window, SMTT(20) DEF out_of_window
  <2>3. bs.read + flow.capacity \in Nat
    BY SMTT(20) DEF OutputOK, ByteStreams, IsFlow
  <2>4. u <= i + n /\ (i > u => StartsInWindow(flow, bs, i, n, x))
    BY <2>2, <2>3
  <2>5. Sound(flow, push_in_window(q, Bytes(flow, i, n), i), f, x)
    BY <2>4, PushInWindow, Zenon
  <2>6. Healthy(flow, finish_if_complete(push_in_window(q, Bytes(flow, i, n), i)), f, x)
    BY <2>5, FinishSound, SMTT(20)
  <2> QED
    BY <1>2, <2>6, SMTT(20)
<1> QED
  BY <1>1, <1>2, SMTT(20)

\* Both are numbers.
LEMMA EofIndicesNat ==
  ASSUME NEW flow, IsFlow(flow)
  PROVE  EofIndices(flow) \subseteq Nat
BY SizeMaxAssumption, SMTT(20) DEF EofIndices, IsFlow

\* push_substring keeps a reassembler healthy, whatever piece of the stream it is given.
LEMMA PushHealthy ==
  ASSUME NEW flow, IsFlow(flow), NEW bs, NEW m, NEW cnt \in Nat, NEW u \in Nat,
         NEW e \in EofIndices(flow), NEW x,
         OutputOK(flow, bs, u), MapOK(flow, m), CountOK(flow, bs, m, cnt, x), Beyond(m, u),
         EndOK(bs, u, e),
         NEW i \in Nat, NEW n \in Nat, i + n <= Len(flow.stream),
         NEW eof \in BOOLEAN, eof => i + n = Len(flow.stream),
         ~(i <= bs.read + flow.capacity /\ i > u) \/ StartsInWindow(flow, bs, i, n, x)
  PROVE  \E f \in EofIndices(flow) :
            /\ f = e \/ (eof /\ f = Len(flow.stream))
            /\ Healthy(flow, push_substring(Object(flow, bs, m, cnt, u, e),
                                            Bytes(flow, i, n), i, eof), f, x)
<1> DEFINE r == Object(flow, bs, m, cnt, u, e)
<1>1. PICK f \in EofIndices(flow) :
        /\ note_eof(r, Bytes(flow, i, n), i, eof) = Object(flow, bs, m, cnt, u, f)
        /\ f = e \/ (eof /\ f = Len(flow.stream))
  BY NoteEof, SMTT(20)
<1> DEFINE q == Object(flow, bs, m, cnt, u, f)
           p == push_substring(r, Bytes(flow, i, n), i, eof)
<1>2. p = IF u >= f THEN finish_if_complete(q)
          ELSE IF out_of_window(q, Bytes(flow, i, n), i) THEN q
          ELSE finish_if_complete(push_in_window(q, Bytes(flow, i, n), i))
  <2>1. q.unassembled_index = u /\ q.eof_index = f
    BY ObjectFields, SMTT(20)
  <2> HIDE DEF q, r
  <2>2. note_eof(r, Bytes(flow, i, n), i, eof) = q
    BY <1>1, Zenon DEF q, r
  <2> QED
    BY <2>1, <2>2, ZenonT(40) DEF push_substring
<1>3. e \in Nat /\ f \in Nat /\ Len(flow.stream) \in Nat /\ u <= Len(flow.stream)
  BY EofIndicesNat, SMTT(20) DEF OutputOK, IsFlow
<1>4. u < f => u < e
  <2>1. u >= e => u >= f
    BY <1>1, <1>3, SMTT(20) DEF EofIndices, IsFlow
  <2> QED
    BY <1>3, <2>1, SMTT(20)
<1>5. u < f => bs.input_end = FALSE
  BY <1>3, <1>4 DEF EndOK
<1>6. CASE u >= f
  <2>1. Healthy(flow, finish_if_complete(q), f, x)
    BY <1>3, <1>5, Finish, Zenon
  <2> QED
    BY <1>1, <1>2, <1>6, <2>1, Zenon
<1>7. CASE u < f
  <2>1. Healthy(flow, IF out_of_window(q, Bytes(flow, i, n), i) THEN q
                ELSE finish_if_complete(push_in_window(q, Bytes(flow, i, n), i)), f, x)
    BY <1>3, <1>5, <1>7, PushOpen, Zenon
  <2>2. ~(u >= f)
    BY <1>3, <1>7, SMTT(20)
  <2> QED
    BY <1>1, <1>2, <2>1, <2>2, Zenon
<1> QED
  BY <1>1, <1>3, <1>6, <1>7, SMTT(20)

\* A substring whose index has wrapped around below the stream changes nothing.
LEMMA PushBelowStream ==
  ASSUME NEW flow, IsFlow(flow), NEW bs, NEW m, NEW cnt \in Nat, NEW u \in Nat,
         NEW e \in EofIndices(flow), NEW x,
         OutputOK(flow, bs, u), MapOK(flow, m), CountOK(flow, bs, m, cnt, x), Beyond(m, u),
         EndOK(bs, u, e), NEW data
  PROVE  Healthy(flow, push_substring(Object(flow, bs, m, cnt, u, e), data, SizeMax, FALSE), e, x)
<1> DEFINE q == Object(flow, bs, m, cnt, u, e)
           p == push_substring(q, data, SizeMax, FALSE)
<1>1. note_eof(q, data, SizeMax, FALSE) = q
  BY SMTT(20) DEF note_eof
<1>2. out_of_window(q, data, SizeMax)
  <2>1. /\ bs.read \in Nat /\ bs.read <= Len(flow.stream)
        /\ flow.capacity \in Nat /\ Len(flow.stream) \in Nat /\ SizeMax \in Nat
    BY SizeMaxAssumption, SMTT(20) DEF OutputOK, ByteStreams, IsFlow
  <2>2. SizeMax > bs.read + flow.capacity
    BY <2>1, SMTT(20) DEF IsFlow
  <2> QED
    BY <2>2, Window, SMTT(20) DEF out_of_window
<1>3. p = IF u >= e THEN finish_if_complete(q) ELSE q
  <2>1. q.unassembled_index = u /\ q.eof_index = e
    BY ObjectFields, SMTT(20)
  <2> HIDE DEF q
  <2> QED
    BY <1>1, <1>2, <2>1, Zenon DEF push_substring
<1>4. u < e => bs.input_end = FALSE
  BY EofIndicesNat DEF EndOK
<1>5. CASE u >= e
  BY <1>3, <1>4, <1>5, EofIndicesNat, Finish, Zenon
<1>6. CASE ~(u >= e)
  <2>1. Healthy(flow, q, e, x)
    BY SMTT(20) DEF Healthy
  <2> QED
    BY <1>3, <1>6, <2>1, Zenon
<1> QED
  BY <1>5, <1>6, Zenon

\* Reading takes bytes off the front of the output and moves the window up.
LEMMA ReadHealthy ==
  ASSUME NEW flow, IsFlow(flow), NEW bs, NEW m, NEW cnt \in Nat, NEW u \in Nat, NEW e,
         NEW x,
         OutputOK(flow, bs, u), MapOK(flow, m), CountOK(flow, bs, m, cnt, x), Beyond(m, u),
         EndOK(bs, u, e),
         NEW n \in 1 .. Len(bs.buffer)
  PROVE  Healthy(flow, read_output(Object(flow, bs, m, cnt, u, e), n), e, x)
<1> DEFINE r == Object(flow, bs, m, cnt, u, e)
           b == pop_output(bs, n)
           l == Len(bs.buffer)
<1>1. /\ bs \in ByteStreams(flow.byte) /\ bs.buffer = Bytes(flow, bs.read, l) /\ l \in Nat
      /\ bs.read \in Nat
      /\ bs.read + l = u /\ u <= Len(flow.stream) /\ l <= flow.capacity /\ n <= l /\ n \in Nat
      /\ bs.buffer \in Seq(flow.byte) /\ bs.capacity = flow.capacity /\ bs.written = u
  BY SMTT(20) DEF OutputOK, ByteStreams
<1>2. b = [bs EXCEPT !.buffer = SubSeq(bs.buffer, n + 1, l), !.read = bs.read + n]
  <2>1. MinOf(n, buffer_size(bs)) = n
    BY <1>1 DEF MinOf, buffer_size
  <2> QED
    BY <2>1, Zenon DEF pop_output
<1>3. PICK s : s = SubSeq(bs.buffer, n + 1, l)
  BY ZenonT(40)
<1>4. s = Bytes(flow, bs.read + n, l - n)
  <2>1. n \in 0 .. l /\ l \in n .. l /\ bs.read + l <= Len(flow.stream)
    BY <1>1, SMTT(20)
  <2>2. SubSeq(Bytes(flow, bs.read, l), n + 1, l) = Bytes(flow, bs.read + n, l - n)
    BY <1>1, <2>1, BytesCut, ZenonT(60)
  <2> QED
    BY <1>1, <1>3, <2>2, SMTT(20)
<1>5. s \in Seq(flow.byte) /\ Len(s) = l - n
  <2>1. bs.read + n \in Nat /\ l - n \in Nat /\ (bs.read + n) + (l - n) <= Len(flow.stream)
    BY <1>1, SMTT(30) DEF IsFlow
  <2> QED
    BY <1>4, <2>1, BytesType, Zenon
<1>6. /\ b \in ByteStreams(flow.byte) /\ b.buffer = s /\ b.read = bs.read + n /\ b.error = bs.error
      /\ b.capacity = bs.capacity /\ b.written = bs.written /\ b.input_end = bs.input_end
  <2>1. b = [bs EXCEPT !.buffer = s, !.read = bs.read + n]
    BY <1>2, <1>3
  <2>2. b = [buffer |-> s, capacity |-> bs.capacity, written |-> bs.written,
             read |-> bs.read + n, input_end |-> bs.input_end, error |-> bs.error]
    BY <1>1, <2>1, Zenon DEF ByteStreams
  <2>3. /\ bs.error \in BOOLEAN /\ bs.input_end \in BOOLEAN
        /\ bs.capacity \in Nat /\ bs.written \in Nat /\ bs.read + n \in Nat
    BY <1>1, SMTT(20) DEF ByteStreams
  <2> HIDE DEF b
  <2> QED
    BY <1>5, <2>2, <2>3 DEF ByteStreams
<1>7. read_output(r, n) = Object(flow, b, m, cnt, u, e)
  <2>1. read_output(r, n) = [r EXCEPT !.output = b]
    <3>1. r.output = bs
      BY ObjectFields
    <3> HIDE DEF r
    <3> QED
      BY <3>1, Zenon DEF read_output
  <2> HIDE DEF b
  <2>2. [r EXCEPT !.output = b] = Object(flow, b, m, cnt, u, e)
    BY SMTT(20) DEF Object
  <2> QED
    BY <2>1, <2>2, SMTT(20)
<1> HIDE DEF b, l
<1>8. OutputOK(flow, b, u)
  <2>1. Len(b.buffer) = l - n /\ b.buffer = Bytes(flow, b.read, Len(b.buffer))
    BY <1>4, <1>5, <1>6, SMTT(20)
  <2>2. b.read + Len(b.buffer) = u /\ Len(b.buffer) <= flow.capacity
    BY <1>1, <1>6, <2>1, SMTT(20) DEF IsFlow
  <2>3. Grown(flow, b, u)
    BY <1>6, SMTT(20) DEF OutputOK, Grown
  <2> QED
    BY <1>1, <1>6, <2>1, <2>2, <2>3, SMTT(30) DEF OutputOK
<1>9. CountOK(flow, b, m, cnt, x)
  <2>1. l + cnt <= flow.capacity
    BY SMTT(20) DEF CountOK, l
  <2>2. Len(b.buffer) + cnt <= flow.capacity
    BY <1>1, <1>5, <1>6, <2>1, SMTT(30) DEF IsFlow
  <2>3. \A k \in DOMAIN m : k + Len(m[k]) <= b.read + flow.capacity
    <3>1. PICK o \in Nat, c \in Nat : o = bs.read /\ c = flow.capacity
      BY <1>1, SMTT(20) DEF IsFlow
    <3>2. \A k \in DOMAIN m : k \in Nat /\ Len(m[k]) \in Nat /\ k + Len(m[k]) <= o + c
      BY <3>1, SMTT(20) DEF CountOK, MapOK
    <3>3. \A k \in DOMAIN m : k + Len(m[k]) <= (o + n) + c
      BY <1>1, <3>2
    <3> QED
      BY <1>6, <3>1, <3>3, SMTT(20)
  <2> QED
    BY <2>2, <2>3, SMTT(20) DEF CountOK
<1>10. EndOK(b, u, e)
  BY <1>6, SMTT(20) DEF EndOK
<1>11. Healthy(flow, Object(flow, b, m, cnt, u, e), e, x)
  BY <1>8, <1>9, <1>10 DEF Healthy
<1> QED
  BY <1>7, <1>11

-------------------------------------------------------------------------------
(***************************************************************************)
(* A reassembler seen from outside                                         *)
(***************************************************************************)
\* What Healthy says of the parts of a StreamReassembler
LEMMA HealthyParts ==
  ASSUME NEW flow, IsFlow(flow), NEW r, NEW e, NEW x, Healthy(flow, r, e, x)
  PROVE  /\ r.unassembled_index \in Nat /\ r.unassembled_cnt \in Nat
         /\ r.capacity = flow.capacity /\ r.eof_index = e
         /\ r = Object(flow, r.output, r.unassembled_bytes, r.unassembled_cnt,
                       r.unassembled_index, e)
         /\ OutputOK(flow, r.output, r.unassembled_index)
         /\ MapOK(flow, r.unassembled_bytes)
         /\ CountOK(flow, r.output, r.unassembled_bytes, r.unassembled_cnt, x)
         /\ Beyond(r.unassembled_bytes, r.unassembled_index)
         /\ EndOK(r.output, r.unassembled_index, e)
<1>1. PICK bs, m : \E cnt, u \in Nat :
        /\ r = Object(flow, bs, m, cnt, u, e)
        /\ OutputOK(flow, bs, u) /\ MapOK(flow, m) /\ CountOK(flow, bs, m, cnt, x)
        /\ Beyond(m, u) /\ EndOK(bs, u, e)
  BY SMTT(20) DEF Healthy
<1>2. PICK cnt \in Nat, u \in Nat :
        /\ r = Object(flow, bs, m, cnt, u, e)
        /\ OutputOK(flow, bs, u) /\ MapOK(flow, m) /\ CountOK(flow, bs, m, cnt, x)
        /\ Beyond(m, u) /\ EndOK(bs, u, e)
  BY <1>1, SMTT(20)
<1>3. /\ r.output = bs /\ r.capacity = flow.capacity /\ r.unassembled_bytes = m
      /\ r.unassembled_cnt = cnt /\ r.unassembled_index = u /\ r.eof_index = e
  BY <1>2, ObjectFields, SMTT(20)
<1> QED
  BY <1>2, <1>3, Zenon

\* The constructor makes a healthy reassembler.
LEMMA NewHealthy ==
  ASSUME NEW flow, IsFlow(flow), flow.assembled = 0, flow.error = FALSE, NEW x
  PROVE  Healthy(flow, new_StreamReassembler(flow.capacity), SizeMax, x)
<1> DEFINE bs == new_ByteStream(flow.capacity)
           m == << >>
<1>1. new_StreamReassembler(flow.capacity) = Object(flow, bs, m, 0, 0, SizeMax)
  BY SMTT(20) DEF new_StreamReassembler, Object
<1>2. /\ bs \in ByteStreams(flow.byte) /\ bs.capacity = flow.capacity /\ bs.written = 0
      /\ bs.read = 0 /\ bs.buffer = << >> /\ bs.input_end = FALSE /\ bs.error = FALSE
  BY DEF new_ByteStream, ByteStreams, IsFlow
<1> HIDE DEF bs
<1>3. OutputOK(flow, bs, 0)
  <2>1. Len(bs.buffer) = 0 /\ bs.buffer = Bytes(flow, 0, 0)
    BY <1>2, BytesEmpty
  <2>2. flow.assembled <= 0
    OBVIOUS
  <2>3. Grown(flow, bs, 0)
    BY <1>2, <2>2, Zenon DEF Grown
  <2> QED
    BY <1>2, <2>1, <2>3, SMTT(30) DEF OutputOK, IsFlow
<1>4. DOMAIN m = {}
  BY SMTT(20)
<1>5. m = [k \in DOMAIN m |-> m[k]]
  BY SMTT(20)
<1> HIDE DEF m
<1>6. MapOK(flow, m) /\ Beyond(m, 0)
  BY <1>4, <1>5 DEF MapOK, Beyond
<1>7. Cardinality(Stored(m)) = 0
  <2>1. Stored(m) = {}
    BY <1>4, SMTT(20) DEF Stored, Extents
  <2> QED
    BY <2>1, FS_EmptySet, SMTT(20)
<1>8. CountOK(flow, bs, m, 0, x)
  <2>1. Len(bs.buffer) = 0
    BY <1>2, SMTT(20)
  <2> QED
    BY <1>4, <1>7, <2>1, SMTT(30) DEF CountOK, IsFlow
<1>9. EndOK(bs, 0, SizeMax)
  BY <1>2, SizeMaxAssumption, SMTT(20) DEF EndOK, IsFlow
<1> QED
  BY <1>1, <1>3, <1>6, <1>8, <1>9, SMTT(30) DEF Healthy

\* What a longer stream has at indices of the shorter one
LEMMA LaterBytes ==
  ASSUME NEW flow, IsFlow(flow), NEW g, IsFlow(g), Later(flow, g),
         NEW i \in Nat, NEW n \in Nat, i + n <= Len(flow.stream)
  PROVE  Bytes(flow, i, n) = Bytes(g, i, n) /\ i + n <= Len(g.stream)
<1>1. PICK l \in Nat, k \in Nat : l = Len(flow.stream) /\ k = Len(g.stream)
  BY SMTT(20) DEF IsFlow
<1>2. 0 + l <= k /\ i \in 0 .. l /\ i + n \in i .. l /\ 0 + i = i /\ (i + n) - i = n /\ i + n <= k
  BY <1>1 DEF Later
<1>3. SubSeq(Bytes(g, 0, l), i + 1, i + n) = Bytes(g, 0 + i, (i + n) - i)
  <2>1. /\ 0 \in Nat /\ l \in Nat /\ 0 + l <= Len(g.stream)
        /\ i \in 0 .. l /\ i + n \in i .. l
    BY <1>1, <1>2
  <2> QED
    BY <2>1, BytesCut, ZenonT(40)
<1>4. Bytes(flow, i, n) = SubSeq(Bytes(g, 0, l), i + 1, i + n)
  BY <1>1, Zenon DEF Bytes, Later
<1> QED
  BY <1>1, <1>2, <1>3, <1>4

\* A healthy reassembler stays so while its peer writes more of the stream.
LEMMA LaterHealthy ==
  ASSUME NEW flow, IsFlow(flow), NEW g, IsFlow(g), Later(flow, g),
         NEW r, NEW e, NEW x, Healthy(flow, r, e, x), Grown(g, r.output, r.unassembled_index)
  PROVE  Healthy(g, r, e, x)
<1> DEFINE bs == r.output
           m == r.unassembled_bytes
           u == r.unassembled_index
           cnt == r.unassembled_cnt
<1>1. /\ u \in Nat /\ cnt \in Nat /\ r = Object(flow, bs, m, cnt, u, e)
      /\ OutputOK(flow, bs, u) /\ MapOK(flow, m) /\ CountOK(flow, bs, m, cnt, x)
      /\ Beyond(m, u) /\ EndOK(bs, u, e)
  BY HealthyParts, ZenonT(40)
<1> HIDE DEF bs, m, u, cnt
<1>2. Grown(g, bs, u) /\ g.capacity = flow.capacity /\ g.byte = flow.byte
  BY SMTT(20) DEF bs, u, Later
<1>3. OutputOK(g, bs, u)
  <2>1. PICK l \in Nat : l = Len(bs.buffer) /\ bs.read \in Nat /\ bs.read + l = u
                          /\ u <= Len(flow.stream) /\ bs.buffer = Bytes(flow, bs.read, l)
    BY <1>1, SMTT(30) DEF OutputOK, ByteStreams
  <2>2. Bytes(flow, bs.read, l) = Bytes(g, bs.read, l) /\ bs.read + l <= Len(g.stream)
    BY <2>1, LaterBytes
  <2> QED
    BY <1>1, <1>2, <2>1, <2>2, SMTT(30) DEF OutputOK
<1>4. MapOK(g, m)
  <2>1. ASSUME NEW k \in DOMAIN m
        PROVE  Len(m[k]) \in Nat /\ k + Len(m[k]) <= Len(g.stream) /\ m[k] = Bytes(g, k, Len(m[k]))
    <3>1. /\ k \in Nat /\ Len(m[k]) \in Nat /\ k + Len(m[k]) <= Len(flow.stream)
          /\ m[k] = Bytes(flow, k, Len(m[k]))
      BY <1>1, <2>1, SMTT(20) DEF MapOK
    <3> QED
      BY <3>1, LaterBytes, SMTT(20)
  <2> QED
    BY <1>1, <2>1, SMTT(30) DEF MapOK
<1>5. CountOK(g, bs, m, cnt, x) /\ r = Object(g, bs, m, cnt, u, e)
  BY <1>1, <1>2, SMTT(20) DEF CountOK, Object
<1> QED
  BY <1>1, <1>3, <1>4, <1>5, SMTT(20) DEF Healthy

\* A substring without bytes, at whatever index, changes nothing but the end.
LEMMA PushNothing ==
  ASSUME NEW flow, IsFlow(flow), NEW r, NEW e \in EofIndices(flow), NEW x,
         Healthy(flow, r, e, x), NEW i \in Nat
  PROVE  Healthy(flow, push_substring(r, << >>, i, FALSE), e, x)
<1>1. PICK bs, m, cnt, u :
        /\ u \in Nat /\ cnt \in Nat /\ r = Object(flow, bs, m, cnt, u, e)
        /\ OutputOK(flow, bs, u) /\ MapOK(flow, m) /\ CountOK(flow, bs, m, cnt, x)
        /\ Beyond(m, u) /\ EndOK(bs, u, e)
  BY HealthyParts, Zenon
<1>2. e \in Nat /\ (u < e => bs.input_end = FALSE)
  BY <1>1, EofIndicesNat, SMTT(20) DEF EndOK
<1>3. CASE i <= u
  <2>1. /\ i \in Nat /\ 0 \in Nat /\ i + 0 <= Len(flow.stream) /\ FALSE \in BOOLEAN
        /\ ~(i <= bs.read + flow.capacity /\ i > u)
    BY <1>1, <1>3 DEF OutputOK, IsFlow
  <2>2. \E f \in EofIndices(flow) :
          /\ f = e \/ (FALSE /\ f = Len(flow.stream))
          /\ Healthy(flow, push_substring(Object(flow, bs, m, cnt, u, e),
                                          Bytes(flow, i, 0), i, FALSE), f, x)
    BY <1>1, <2>1, PushHealthy, ZenonT(60)
  <2> QED
    BY <1>1, <2>2, BytesEmpty, Zenon
<1>4. CASE i > u
  <2>1. Healthy(flow, finish_if_complete(r), e, x)
    BY <1>1, <1>2, Finish, Zenon
  <2>2. r.unassembled_index = u
    BY <1>1 DEF Object
  <2>3. push_in_window(r, << >>, i) = r
    BY <1>4, <2>2 DEF push_in_window, merge_string
  <2>4. note_eof(r, << >>, i, FALSE) = r
    BY DEF note_eof
  <2>5. push_substring(r, << >>, i, FALSE) \in {r, finish_if_complete(r)}
    BY <2>3, <2>4 DEF push_substring
  <2> QED
    BY <2>1, <2>5
<1>5. i <= u \/ i > u
  BY <1>1
<1> QED
  BY <1>3, <1>4, <1>5, Zenon

\* A piece of the stream at its index, with the end of the stream or without
LEMMA PushPiece ==
  ASSUME NEW flow, IsFlow(flow), NEW r, NEW e \in EofIndices(flow),
         Healthy(flow, r, e, TRUE),
         NEW i \in Nat, NEW n \in Nat, i + n <= Len(flow.stream),
         NEW eof \in BOOLEAN, eof => i + n = Len(flow.stream)
  PROVE  \E f \in EofIndices(flow) :
            /\ f = e \/ (eof /\ f = Len(flow.stream))
            /\ Healthy(flow, push_substring(r, Bytes(flow, i, n), i, eof), f, TRUE)
<1>1. PICK bs, m, cnt, u :
        /\ u \in Nat /\ cnt \in Nat /\ r = Object(flow, bs, m, cnt, u, e)
        /\ OutputOK(flow, bs, u) /\ MapOK(flow, m) /\ CountOK(flow, bs, m, cnt, TRUE)
        /\ Beyond(m, u) /\ EndOK(bs, u, e)
  BY HealthyParts, Zenon
<1>2. ~(i <= bs.read + flow.capacity /\ i > u) \/ StartsInWindow(flow, bs, i, n, TRUE)
  BY DEF StartsInWindow
<1> QED
  BY <1>1, <1>2, PushHealthy, ZenonT(60)

\* set_error changes nothing but the flag.
LEMMA ErrorHealthy ==
  ASSUME NEW flow, IsFlow(flow), NEW g, NEW r, NEW e, NEW x, Healthy(flow, r, e, x),
         g.byte = flow.byte, g.stream = flow.stream, g.capacity = flow.capacity,
         g.assembled = flow.assembled, g.error = TRUE
  PROVE  Healthy(g, [r EXCEPT !.output = set_error(@)], e, x)
<1>1. PICK bs, m, cnt, u :
        /\ u \in Nat /\ cnt \in Nat /\ r = Object(flow, bs, m, cnt, u, e)
        /\ OutputOK(flow, bs, u) /\ MapOK(flow, m) /\ CountOK(flow, bs, m, cnt, x)
        /\ Beyond(m, u) /\ EndOK(bs, u, e)
  BY HealthyParts, Zenon
<1>2. PICK w : w = set_error(bs)
  BY Zenon
<1>3. w = [buffer |-> bs.buffer, capacity |-> bs.capacity, written |-> bs.written,
           read |-> bs.read, input_end |-> bs.input_end, error |-> TRUE]
  BY <1>1, <1>2, ZenonT(40) DEF set_error, OutputOK, ByteStreams
<1>4. OutputOK(g, w, u)
  <2>1. w \in ByteStreams(g.byte) /\ Grown(g, w, u)
    BY <1>1, <1>3 DEF OutputOK, ByteStreams, Grown
  <2>2. Bytes(g, bs.read, Len(bs.buffer)) = Bytes(flow, bs.read, Len(bs.buffer))
    BY SMTT(20) DEF Bytes
  <2> QED
    BY <1>1, <1>3, <2>1, <2>2 DEF OutputOK
<1>5. MapOK(g, m)
  BY <1>1, SMTT(20) DEF MapOK, Bytes
<1>6. CountOK(g, w, m, cnt, x)
  BY <1>1, <1>3, SMTT(20) DEF CountOK
<1>7. EndOK(w, u, e)
  BY <1>1, <1>3, SMTT(20) DEF EndOK
<1>8. [r EXCEPT !.output = set_error(@)] = Object(g, w, m, cnt, u, e)
  BY <1>1, <1>2 DEF Object
<1> QED
  BY <1>1, <1>4, <1>5, <1>6, <1>7, <1>8, SMTT(20) DEF Healthy

\* Reading from a healthy reassembler
LEMMA ReadPiece ==
  ASSUME NEW flow, IsFlow(flow), NEW r, NEW e, NEW x, Healthy(flow, r, e, x),
         NEW n \in 1 .. buffer_size(r.output)
  PROVE  Healthy(flow, read_output(r, n), e, x)
<1>1. PICK bs, m, cnt, u :
        /\ u \in Nat /\ cnt \in Nat /\ r = Object(flow, bs, m, cnt, u, e) /\ bs = r.output
        /\ OutputOK(flow, bs, u) /\ MapOK(flow, m) /\ CountOK(flow, bs, m, cnt, x)
        /\ Beyond(m, u) /\ EndOK(bs, u, e)
  BY HealthyParts, Zenon
<1> QED
  BY <1>1, ReadHealthy, Zenon DEF buffer_size
-------------------------------------------------------------------------------
(***************************************************************************)
(* A reassembler at the end of a connection, whose peer has sent the first *)
(* n bytes of the flow so far, and the FIN if fin says so                  *)
(***************************************************************************)
\* The bytes sent are a flow, with the bytes of the whole one.
LEMMA BeginningFlow ==
  ASSUME NEW flow, IsFlow(flow), NEW n \in 0 .. Len(flow.stream), NEW r, r.unassembled_index \in Nat
  PROVE  IsBeginning(flow, n, r, Beginning(flow, n, r))
<1> DEFINE g == Beginning(flow, n, r)
<1>1. /\ g.byte = flow.byte /\ g.capacity = flow.capacity /\ g.stream = Bytes(flow, 0, n)
      /\ g.assembled = r.unassembled_index /\ g.error = r.output.error
  BY DEF Beginning
<1> HIDE DEF g
<1>2. PICK l \in Nat : l = Len(flow.stream)
  BY DEF IsFlow
<1>3. n \in Nat /\ 0 + n <= Len(flow.stream) /\ n <= l
  BY <1>2
<1>4. g.stream \in Seq(flow.byte) /\ Len(g.stream) = n
  BY <1>1, <1>3, BytesType, SMTT(20)
<1>5. flow.capacity \in Nat \ {0} /\ l + flow.capacity < SizeMax
  BY <1>2, SMTT(20) DEF IsFlow
<1>6. n + flow.capacity < SizeMax
  BY <1>2, <1>3, <1>5, SizeMaxAssumption, SMTT(20)
<1>7. IsFlow(g)
  <2>1. /\ g.stream \in Seq(g.byte) /\ g.capacity \in Nat \ {0} /\ g.assembled \in Nat
        /\ Len(g.stream) + g.capacity < SizeMax
    BY <1>1, <1>4, <1>5, <1>6, SMTT(20)
  <2> QED
    BY <2>1, Zenon DEF IsFlow
<1>8. Later(g, flow)
  BY <1>1, <1>3, <1>4, <1>2, Zenon DEF Later
<1> QED
  BY <1>1, <1>4, <1>7, <1>8, Zenon DEF g, IsBeginning

\* What the invariant says of the parts of the reassembler
LEMMA AssemblingParts ==
  ASSUME NEW flow, IsFlow(flow), NEW n \in 0 .. Len(flow.stream), NEW r, NEW fin,
         Assembling(flow, n, r, fin)
  PROVE  Assembled(flow, n, r, fin)
<1> DEFINE g == Beginning(flow, n, r)
           bs == r.output
           u == r.unassembled_index
<1>1. u \in Nat /\ Healthy(g, r, r.eof_index, TRUE) /\ r.eof_index \in {SizeMax, n}
  BY Zenon DEF Assembling
<1>2. IsFlow(g) /\ Later(g, flow) /\ Len(g.stream) = n /\ g.byte = flow.byte
      /\ g.capacity = flow.capacity
  <2>1. IsBeginning(flow, n, r, g)
    BY <1>1, BeginningFlow, Zenon
  <2> QED
    BY <2>1, Zenon DEF IsBeginning
<1> HIDE DEF g
<1>3. OutputOK(g, bs, u) /\ EndOK(bs, u, r.eof_index)
  BY <1>1, <1>2, HealthyParts, Zenon
<1>4. /\ bs \in ByteStreams(flow.byte) /\ bs.capacity = flow.capacity /\ bs.written = u
      /\ bs.buffer = Bytes(g, bs.read, Len(bs.buffer)) /\ bs.read + Len(bs.buffer) = u
      /\ u <= n /\ Len(bs.buffer) <= flow.capacity
  BY <1>2, <1>3, Zenon DEF OutputOK
<1>5. bs.read \in Nat /\ Len(bs.buffer) \in Nat
  BY <1>4 DEF ByteStreams
<1>6. bs.buffer = Bytes(flow, bs.read, Len(bs.buffer))
  <2>1. bs.read + Len(bs.buffer) <= Len(g.stream)
    BY <1>2, <1>4, Zenon
  <2>2. Bytes(g, bs.read, Len(bs.buffer)) = Bytes(flow, bs.read, Len(bs.buffer))
    BY <1>2, <1>5, <2>1, LaterBytes, Zenon
  <2> QED
    BY <1>4, <2>2, Zenon
<1>7. n < SizeMax /\ n \in Nat
  <2>1. /\ n \in Nat /\ Len(g.stream) + g.capacity < SizeMax /\ g.capacity \in Nat
    BY <1>2, SMTT(20) DEF IsFlow
  <2> QED
    BY <1>2, <2>1, SizeMaxAssumption
<1>8. r.eof_index # SizeMax => fin = TRUE
  BY <1>1, Zenon DEF Assembling
<1>9. bs.input_end = TRUE <=> r.eof_index # SizeMax /\ u = n
  BY <1>1, <1>3, <1>4, <1>7, SizeMaxAssumption, SMTT(20) DEF EndOK
<1> QED
  BY <1>4, <1>6, <1>8, <1>9, Zenon DEF Assembled

\* A healthy reassembler is one of this kind.
LEMMA Reassembling ==
  ASSUME NEW flow, IsFlow(flow), NEW n \in 0 .. Len(flow.stream), NEW fin,
         NEW g, IsFlow(g), NEW m \in 0 .. n, g.stream = Bytes(flow, 0, m),
         g.byte = flow.byte, g.capacity = flow.capacity,
         NEW q, NEW f \in {SizeMax, n}, f = n => fin = TRUE, Healthy(g, q, f, TRUE)
  PROVE  Assembling(flow, n, q, fin)
<1> DEFINE h == Beginning(flow, n, q)
<1>1. /\ q.unassembled_index \in Nat /\ q.eof_index = f
      /\ OutputOK(g, q.output, q.unassembled_index)
  BY HealthyParts, Zenon
<1>2. IsBeginning(flow, n, q, h)
  BY <1>1, BeginningFlow, Zenon
<1>3. /\ IsFlow(h) /\ Len(h.stream) = n /\ h.byte = flow.byte /\ h.capacity = flow.capacity
      /\ h.assembled = q.unassembled_index /\ h.error = q.output.error
  BY <1>2, Zenon DEF IsBeginning
<1>4. h.stream = Bytes(flow, 0, n)
  BY SMTT(20) DEF Beginning
<1> HIDE DEF h
<1>5. /\ m \in Nat /\ n \in Nat /\ m <= n /\ 0 \in Nat /\ 0 + m <= Len(flow.stream) /\ 0 \in 0 .. n
      /\ 0 + n <= Len(flow.stream) /\ m \in 0 .. n /\ 0 + 0 = 0 /\ m - 0 = m /\ 0 + m = m
  BY DEF IsFlow
<1>6. Len(g.stream) = m
  BY <1>5, BytesType, SMTT(20)
<1>7. g.stream = Bytes(h, 0, m)
  <2>1. ASSUME NEW B, NEW s \in Seq(B), 0 + n <= Len(s)
        PROVE  SubSeq(SubSeq(s, 0 + 1, 0 + n), 0 + 1, 0 + m) = SubSeq(s, 0 + 1, 0 + m)
    BY <1>5, <2>1, SMTT(20)
  <2> QED
    BY <1>4, <1>5, <2>1, Zenon DEF Bytes, IsFlow
<1>8. Later(g, h)
  BY <1>3, <1>5, <1>6, <1>7, Zenon DEF Later
<1>9. Grown(h, q.output, q.unassembled_index)
  BY <1>1, <1>3, SMTT(20) DEF Grown
<1>10. Healthy(h, q, f, TRUE)
  BY <1>3, <1>8, <1>9, LaterHealthy, Zenon
<1> QED
  BY <1>1, <1>10, Zenon DEF Assembling, h

\* The constructor
LEMMA AssemblingNew ==
  ASSUME NEW flow, IsFlow(flow), NEW fin
  PROVE  /\ Assembling(flow, 0, new_StreamReassembler(flow.capacity), fin)
         /\ new_StreamReassembler(flow.capacity).output = new_ByteStream(flow.capacity)
         /\ new_StreamReassembler(flow.capacity).eof_index = SizeMax
<1> DEFINE q == new_StreamReassembler(flow.capacity)
           g == Beginning(flow, 0, q)
<1>1. /\ q.unassembled_index = 0 /\ q.output = new_ByteStream(flow.capacity)
      /\ q.output.error = FALSE
      /\ q.eof_index = SizeMax
  BY DEF new_StreamReassembler, new_ByteStream
<1>2. 0 \in 0 .. Len(flow.stream)
  BY SMTT(20) DEF IsFlow
<1>3. IsBeginning(flow, 0, q, g)
  <2>1. q.unassembled_index \in Nat
    BY <1>1, SMTT(20)
  <2> HIDE DEF q
  <2> QED
    BY <1>2, <2>1, BeginningFlow, Zenon
<1>4. IsFlow(g) /\ g.assembled = 0 /\ g.error = FALSE /\ g.capacity = flow.capacity
  BY <1>1, <1>3, Zenon DEF IsBeginning
<1> HIDE DEF g
<1>5. Healthy(g, q, SizeMax, TRUE)
  BY <1>4, NewHealthy, Zenon
<1>6. SizeMax # 0
  BY SizeMaxAssumption, SMTT(20) DEF IsFlow
<1> HIDE DEF q
<1>7. Assembling(flow, 0, q, fin)
  <2>1. 0 \in Nat
    OBVIOUS
  <2> QED
    BY <1>1, <1>5, <1>6, <2>1, Zenon DEF Assembling, g
<1> QED
  BY <1>1, <1>7, Zenon DEF q

\* A segment of the flow: bytes of it, and its end if that has been sent
LEMMA AssemblingPush ==
  ASSUME NEW flow, IsFlow(flow), NEW n \in 0 .. Len(flow.stream), NEW r, NEW fin,
         Assembling(flow, n, r, fin), NEW i \in Nat, NEW k \in Nat, i + k <= n,
         NEW eof \in BOOLEAN, eof => fin = TRUE /\ i + k = n
  PROVE  LET q == push_substring(r, Bytes(flow, i, k), i, eof)
         IN  Assembling(flow, n, q, fin) /\ Fed(r, q, eof)
<1> DEFINE g == Beginning(flow, n, r)
           e == r.eof_index
           q == push_substring(r, Bytes(flow, i, k), i, eof)
<1>1. r.unassembled_index \in Nat /\ e \in {SizeMax, n} /\ (e = n => fin = TRUE)
      /\ Healthy(g, r, e, TRUE)
  BY Zenon DEF Assembling
<1>2. IsBeginning(flow, n, r, g)
  BY <1>1, BeginningFlow, Zenon
<1>3. /\ IsFlow(g) /\ Later(g, flow) /\ Len(g.stream) = n /\ g.byte = flow.byte
      /\ g.capacity = flow.capacity /\ g.assembled = r.unassembled_index /\ g.error = r.output.error
  BY <1>2, Zenon DEF IsBeginning
<1>4. g.stream = Bytes(flow, 0, n)
  BY SMTT(20) DEF Beginning
<1> HIDE DEF g
<1>5. Bytes(g, i, k) = Bytes(flow, i, k)
  BY <1>3, LaterBytes, Zenon
<1>6. PICK f \in EofIndices(g) : /\ f = e \/ (eof /\ f = Len(g.stream))
                                 /\ Healthy(g, push_substring(r, Bytes(g, i, k), i, eof), f, TRUE)
  <2>1. e \in EofIndices(g) /\ i + k <= Len(g.stream) /\ (eof => i + k = Len(g.stream))
    BY <1>1, <1>3, SMTT(20) DEF EofIndices
  <2> QED
    BY <1>1, <1>3, <2>1, PushPiece, Zenon
<1>7. Healthy(g, q, f, TRUE)
  BY <1>5, <1>6, Zenon
<1> HIDE DEF q
<1>8. f \in {SizeMax, n} /\ (f = n => fin = TRUE)
  BY <1>1, <1>3, <1>6, SMTT(20) DEF EofIndices
<1>9. n \in Nat /\ n \in 0 .. n
  BY DEF IsFlow
<1>10. Assembling(flow, n, q, fin)
  BY <1>3, <1>4, <1>7, <1>8, <1>9, Reassembling, Zenon
<1>11. Assembled(flow, n, q, fin) /\ Assembled(flow, n, r, fin)
  BY <1>10, AssemblingParts, Zenon
<1>12. q.eof_index = f /\ Grown(g, q.output, q.unassembled_index)
  <2>1. q.eof_index = f /\ OutputOK(g, q.output, q.unassembled_index)
    BY <1>3, <1>7, HealthyParts, Zenon
  <2> QED
    BY <2>1, Zenon DEF OutputOK
<1>13. r.output.written <= q.output.written /\ q.output.error = r.output.error
  BY <1>3, <1>11, <1>12, Zenon DEF Grown, Assembled
<1>14. /\ e # SizeMax => q.eof_index # SizeMax
       /\ q.eof_index # SizeMax => e # SizeMax \/ eof = TRUE
  BY <1>1, <1>3, <1>6, <1>8, <1>12, ZenonT(40)
<1>15. r.output.input_end = TRUE => q.output.input_end = TRUE
  <2>1. q.output.written <= n /\ q.output.written \in Nat
    BY <1>11, SMTT(20) DEF Assembled, ByteStreams
  <2> QED
    BY <1>9, <1>11, <1>13, <1>14, <2>1, SMTT(20) DEF Assembled
<1> QED
  BY <1>10, <1>13, <1>14, <1>15, Zenon DEF Fed, q

\* A segment without bytes, whatever its number
LEMMA AssemblingNothing ==
  ASSUME NEW flow, IsFlow(flow), NEW n \in 0 .. Len(flow.stream), NEW r, NEW fin,
         Assembling(flow, n, r, fin), NEW i \in Nat
  PROVE  LET q == push_substring(r, << >>, i, FALSE)
         IN  Assembling(flow, n, q, fin) /\ Fed(r, q, FALSE)
<1> DEFINE g == Beginning(flow, n, r)
           e == r.eof_index
           q == push_substring(r, << >>, i, FALSE)
<1>1. r.unassembled_index \in Nat /\ e \in {SizeMax, n} /\ (e = n => fin = TRUE)
      /\ Healthy(g, r, e, TRUE)
  BY Zenon DEF Assembling
<1>2. IsBeginning(flow, n, r, g)
  BY <1>1, BeginningFlow, Zenon
<1>3. /\ IsFlow(g) /\ Later(g, flow) /\ Len(g.stream) = n /\ g.byte = flow.byte
      /\ g.capacity = flow.capacity /\ g.assembled = r.unassembled_index /\ g.error = r.output.error
  BY <1>2, Zenon DEF IsBeginning
<1>4. g.stream = Bytes(flow, 0, n)
  BY DEF Beginning
<1> HIDE DEF g
<1>5. Healthy(g, q, e, TRUE)
  <2>1. e \in EofIndices(g)
    BY <1>1, <1>3, SMTT(20) DEF EofIndices
  <2> QED
    BY <1>1, <1>3, <2>1, PushNothing, Zenon
<1> HIDE DEF q
<1>6. n \in Nat /\ n \in 0 .. n
  BY SMTT(20) DEF IsFlow
<1>7. Assembling(flow, n, q, fin)
  BY <1>1, <1>3, <1>4, <1>5, <1>6, Reassembling, Zenon
<1>8. Assembled(flow, n, q, fin) /\ Assembled(flow, n, r, fin)
  BY <1>7, AssemblingParts, Zenon
<1>9. q.eof_index = e /\ Grown(g, q.output, q.unassembled_index)
  <2>1. q.eof_index = e /\ OutputOK(g, q.output, q.unassembled_index)
    BY <1>3, <1>5, HealthyParts, ZenonT(40)
  <2> QED
    BY <2>1, Zenon DEF OutputOK
<1>10. r.output.written <= q.output.written /\ q.output.error = r.output.error
  BY <1>3, <1>8, <1>9, ZenonT(40) DEF Grown, Assembled
<1>11. r.output.input_end = TRUE => q.output.input_end = TRUE
  <2>1. q.output.written <= n /\ q.output.written \in Nat
    BY <1>8, SMTT(20) DEF Assembled, ByteStreams
  <2> QED
    BY <1>6, <1>8, <1>9, <1>10, <2>1, SMTT(20) DEF Assembled
<1> QED
  BY <1>7, <1>9, <1>10, <1>11, Zenon DEF Fed, q

\* The peer sends more, unless it has sent the end.
LEMMA AssemblingMore ==
  ASSUME NEW flow, IsFlow(flow), NEW m, NEW n \in 0 .. Len(flow.stream), NEW r,
         NEW fin, NEW over, Assembling(flow, m, r, fin), SendsMore(m, fin, n, over)
  PROVE  Assembling(flow, n, r, over)
<1> DEFINE g == Beginning(flow, m, r)
           e == r.eof_index
<1>1. r.unassembled_index \in Nat /\ e \in {SizeMax, m} /\ (e = m => fin = TRUE)
      /\ Healthy(g, r, e, TRUE)
  BY Zenon DEF Assembling
<1>2. m \in 0 .. Len(flow.stream) /\ m \in 0 .. n /\ n < SizeMax
  BY SizeMaxAssumption DEF IsFlow, SendsMore
<1>3. IsBeginning(flow, m, r, g)
  BY <1>1, <1>2, BeginningFlow, Zenon
<1>4. IsFlow(g) /\ g.byte = flow.byte /\ g.capacity = flow.capacity
  BY <1>3, Zenon DEF IsBeginning
<1>5. g.stream = Bytes(flow, 0, m)
  BY DEF Beginning
<1> HIDE DEF g
<1>6. e \in {SizeMax, n} /\ (e = n => over = TRUE)
  BY <1>1, <1>2, SizeMaxAssumption DEF SendsMore
<1> QED
  BY <1>1, <1>2, <1>4, <1>5, <1>6, Reassembling, Zenon

\* The application reads.
LEMMA AssemblingRead ==
  ASSUME NEW flow, IsFlow(flow), NEW n \in 0 .. Len(flow.stream), NEW r, NEW fin,
         Assembling(flow, n, r, fin), NEW k \in 1 .. buffer_size(r.output)
  PROVE  Remains(flow, n, r, fin, [r EXCEPT !.output = pop_output(@, k)], r.output.error)
<1> DEFINE g == Beginning(flow, n, r)
           e == r.eof_index
           q == [r EXCEPT !.output = pop_output(@, k)]
<1>1. r.unassembled_index \in Nat /\ e \in {SizeMax, n} /\ (e = n => fin = TRUE)
      /\ Healthy(g, r, e, TRUE)
  BY Zenon DEF Assembling
<1>2. IsBeginning(flow, n, r, g)
  BY <1>1, BeginningFlow, Zenon
<1>3. /\ IsFlow(g) /\ Later(g, flow) /\ Len(g.stream) = n /\ g.byte = flow.byte
      /\ g.capacity = flow.capacity /\ g.assembled = r.unassembled_index /\ g.error = r.output.error
  BY <1>2, Zenon DEF IsBeginning
<1>4. g.stream = Bytes(flow, 0, n)
  BY SMTT(20) DEF Beginning
<1> HIDE DEF g
<1>5. Healthy(g, q, e, TRUE)
  BY <1>1, <1>3, ReadPiece, Zenon DEF read_output
<1>6. r = Object(g, r.output, r.unassembled_bytes, r.unassembled_cnt, r.unassembled_index, e)
  BY <1>1, <1>3, HealthyParts, ZenonT(40)
<1>7. q.output = pop_output(r.output, k) /\ q.unassembled_index = r.unassembled_index
  BY <1>6 DEF Object
<1> HIDE DEF q
<1>8. n \in Nat /\ n \in 0 .. n
  BY SMTT(20) DEF IsFlow
<1>9. Assembling(flow, n, q, fin)
  BY <1>1, <1>3, <1>4, <1>5, <1>8, Reassembling, Zenon
<1>10. Assembled(flow, n, q, fin) /\ Assembled(flow, n, r, fin)
  BY <1>9, AssemblingParts, Zenon
<1>11. q.eof_index = e /\ Grown(g, q.output, q.unassembled_index)
  <2>1. q.eof_index = e /\ OutputOK(g, q.output, q.unassembled_index)
    BY <1>3, <1>5, HealthyParts, ZenonT(40)
  <2> QED
    BY <2>1, Zenon DEF OutputOK
<1>12. q.output.written = r.output.written /\ q.output.error = r.output.error
  BY <1>3, <1>7, <1>10, <1>11, Zenon DEF Grown, Assembled
<1>13. q.output.input_end = r.output.input_end
  BY <1>10, <1>11, <1>12, SMTT(20) DEF Assembled, ByteStreams
<1> QED
  BY <1>9, <1>11, <1>12, <1>13, Zenon DEF Remains, SameExtent, q

\* set_shutdown sets the error flag of the output.
LEMMA AssemblingError ==
  ASSUME NEW flow, IsFlow(flow), NEW n \in 0 .. Len(flow.stream), NEW r, NEW fin,
         Assembling(flow, n, r, fin)
  PROVE  Remains(flow, n, r, fin, [r EXCEPT !.output = set_error(@)], TRUE)
<1> DEFINE g == Beginning(flow, n, r)
           h == [byte |-> flow.byte, stream |-> g.stream, capacity |-> flow.capacity,
                 assembled |-> g.assembled, error |-> TRUE]
           e == r.eof_index
           q == [r EXCEPT !.output = set_error(@)]
<1>1. r.unassembled_index \in Nat /\ e \in {SizeMax, n} /\ (e = n => fin = TRUE)
      /\ Healthy(g, r, e, TRUE)
  BY Zenon DEF Assembling
<1>2. IsBeginning(flow, n, r, g)
  BY <1>1, BeginningFlow, Zenon
<1>3. IsFlow(g) /\ Len(g.stream) = n /\ g.byte = flow.byte /\ g.capacity = flow.capacity
  BY <1>2, Zenon DEF IsBeginning
<1>4. g.stream = Bytes(flow, 0, n)
  BY SMTT(20) DEF Beginning
<1> HIDE DEF g
<1>5. /\ h.byte = flow.byte /\ h.stream = g.stream /\ h.capacity = flow.capacity
      /\ h.assembled = g.assembled /\ h.error = TRUE
  BY SMTT(20)
<1> HIDE DEF h
<1>6. IsFlow(h)
  BY <1>3, <1>5, Zenon DEF IsFlow
<1>7. Healthy(h, q, e, TRUE)
  BY <1>1, <1>3, <1>5, ErrorHealthy, Zenon
<1>8. /\ r = Object(g, r.output, r.unassembled_bytes, r.unassembled_cnt, r.unassembled_index, e)
      /\ OutputOK(g, r.output, r.unassembled_index)
  BY <1>1, <1>3, HealthyParts, ZenonT(40)
<1>9. q.output = set_error(r.output)
  BY <1>8 DEF Object
<1>10. /\ q.output.written = r.output.written /\ q.output.input_end = r.output.input_end
       /\ q.output.error = TRUE
  BY <1>8, <1>9 DEF OutputOK, ByteStreams, set_error
<1> HIDE DEF q
<1>11. n \in Nat /\ n \in 0 .. n
  BY SMTT(20) DEF IsFlow
<1>12. Assembling(flow, n, q, fin)
  BY <1>1, <1>4, <1>5, <1>6, <1>7, <1>11, Reassembling, Zenon
<1>13. q.eof_index = e
  BY <1>6, <1>7, HealthyParts, ZenonT(40)
<1> QED
  BY <1>10, <1>12, <1>13, Zenon DEF Remains, SameExtent, q
===============================================================================
