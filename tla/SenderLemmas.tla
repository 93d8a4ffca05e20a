----------------------------- MODULE SenderLemmas -----------------------------
(***************************************************************************)
(* What fill_window and ack_received do to the queue of unacknowledged     *)
(* segments, for every stream, window, payload size and acknowledgment.    *)
(***************************************************************************)
EXTENDS SenderFlow, WellFoundedInduction, TLAPS

(***************************************************************************)
(* What the lemmas about the sender need besides: the pieces that          *)
(* fill_window cuts the stream into, and what an acknowledgment takes from *)
(* the queue.                                                              *)
(***************************************************************************)
\* g gives the powers of 2 up to n.
PowersTo(g, n) ==
    /\ g \in [0 .. n -> Nat]
    /\ g[0] = 1
    /\ \A i \in 1 .. n : g[i] = 2 * g[i - 1]

Cuts(flow, i, n) ==
    \A a \in 0 .. n : \A b \in a .. n :
      SubSeq(Bytes(flow, i, n), a + 1, b) = Bytes(flow, i + a, b - a)

\* Where the queue begins once its first n segments are gone
NextStart(flow, q, n, b) == IF n < Len(q) THEN Start(flow, q[n + 1]) ELSE b

\* Where the bytes of the j-th of them begin and end in the buffer
Low(j) == (j - 1) * MaxPayload

High(j, bytes) == MinOf(j * MaxPayload, bytes)

\* How many segments it takes
Count(syn, bytes, fin) ==
    IF bytes = 0 THEN MaxOf(syn, fin) ELSE (bytes + MaxPayload - 1) \div MaxPayload

\* The payloads of c segments divide the bytes to send.
Divided(c, syn, bytes, fin) ==
    /\ c \in Nat
    /\ c = 0 <=> syn + bytes + fin = 0
    /\ c > 0 => High(c, bytes) = bytes
    /\ \A j \in 1 .. c : /\ Low(j) \in Nat /\ High(j, bytes) \in Nat
                         /\ Low(j) <= High(j, bytes) /\ High(j, bytes) <= bytes
                         /\ j < c => High(j, bytes) = Low(j + 1)
                         /\ j = 1 => Low(j) = 0

\* The number at which the j-th segment begins, and the segment
Begin(j, n, syn) == n + (IF j = 1 THEN 0 ELSE syn + Low(j))

Piece(flow, j, n, rd, syn, bytes, fin) ==
    [EmptySegment(wrap(Begin(j, n, syn), flow.isn)) EXCEPT
       !.syn = syn = 1 /\ j = 1,
       !.fin = fin = 1 /\ j = Count(syn, bytes, fin),
       !.payload = Bytes(flow, rd + Low(j), High(j, bytes) - Low(j))]

\* What the sender is about to send at n lies in the stream from rd on.
Sendable(flow, n, rd, syn, bytes, fin) ==
    /\ syn = 1 => n = 0 /\ rd = 0
    /\ syn = 0 => n = rd + 1
    /\ rd + bytes <= Len(flow.stream)

PieceOK(flow, p, j, n, syn, bytes, fin) ==
    /\ Carries(flow, p)
    /\ Start(flow, p) = Begin(j, n, syn)
    /\ End(flow, p) = n + syn + High(j, bytes)
                        + (IF j = Count(syn, bytes, fin) THEN fin ELSE 0)
    /\ Placed(flow, p, n + syn + bytes, fin)

\* What sending leaves alone, and what it only adds to
Onward(t, u) ==
    /\ u.stream.written = t.stream.written /\ u.stream.input_end = t.stream.input_end
    /\ u.stream.error = t.stream.error
    /\ t.stream.read <= u.stream.read /\ t.next_seqno <= u.next_seqno
    /\ t.set_syn = TRUE => u.set_syn = TRUE
    /\ t.set_fin = TRUE => u.set_fin = TRUE /\ u.stream.read = t.stream.read

\* and what fill_window does besides
Advanced(t, u) ==
    /\ Onward(t, u)
    /\ u.recv_ackno = t.recv_ackno
    /\ u.consecutive_retransmissions = t.consecutive_retransmissions

\* What fill_window brings about: nothing waits with nothing in flight.
Busy(t) ==
    /\ t.set_syn = TRUE
    /\ t.stream.buffer # << >> \/ (t.stream.input_end = TRUE /\ t.set_fin = FALSE)
    => t.segments_unackno # << >>

Filling(syn, bytes, fin) ==
    [syn |-> syn, bytes |-> bytes, fin |-> fin, count |-> Count(syn, bytes, fin)]

CanSend(flow, n, rd, syn, bytes, fin) ==
    syn + bytes + fin # 0 => Sendable(flow, n, rd, syn, bytes, fin)

Covers(flow, segs, n, syn, bytes, fin) ==
    /\ Tiled(flow, segs, n, n + syn + bytes + fin)
    /\ segs = << >> <=> syn + bytes + fin = 0
    /\ \A j \in 1 .. Len(segs) : Placed(flow, segs[j], n + syn + bytes, fin)

\* The parts of what fill_window sends
Parts(t, syn, bytes, fin) ==
    /\ filling(t) = Filling(syn, bytes, fin)
    /\ syn \in 0 .. 1 /\ fin \in 0 .. 1 /\ bytes \in 0 .. Len(t.stream.buffer)
    /\ syn = 1 <=> t.set_syn = FALSE
    /\ t.next_seqno + syn + bytes + fin <= t.next_seqno + fill_window_size(t)
    /\ fin = 1 => t.set_fin = FALSE /\ t.stream.input_end = TRUE /\ bytes = Len(t.stream.buffer)
    /\ bytes < Len(t.stream.buffer) => syn + bytes + fin # 0
    /\ t.set_fin = FALSE /\ t.stream.input_end = TRUE /\ fin = 0 => syn + bytes + fin # 0

\* The sender after the loop, before it fills the window
Acked(t, abs, win) ==
    LET n == acked_count(t, abs)
        unack == SubSeq(t.segments_unackno, n + 1, Len(t.segments_unackno))
        progressed == IF n > 0 THEN timer_start(timer_reset(t.timer)) ELSE t.timer
    IN  [t EXCEPT
           !.recv_ackno = abs,
           !.segments_unackno = unack,
           !.bytes_in_flight = @ - acked_length(t, n),
           !.consecutive_retransmissions = IF n > 0 THEN 0 ELSE @,
           !.timer = IF unack = << >> THEN timer_stop(progressed) ELSE progressed,
           !.window_size = win]

\* They keep what Ready says, and more is allowed then.
StaysReady(flow, t, e, abs, win) ==
    /\ Ready(flow, Acked(t, abs, win), MaxOf(e, abs + MaxOf(win, 1)))
    /\ Onward(t, Acked(t, abs, win)) /\ Acked(t, abs, win).recv_ackno = abs
    /\ Acked(t, abs, win).segments_out = t.segments_out

Fits(rd, l, wr, k, len) ==
    /\ k \in Nat /\ l + k \in Nat /\ rd + l + k <= len /\ rd + (l + k) <= len
    /\ wr + k \in Nat /\ rd + (l + k) = wr + k /\ wr + k <= len

\* What write, end_input and set_error make of a stream
Wrote(flow, bs, w) ==
    /\ StreamOK(flow, w) /\ w.read = bs.read /\ bs.written <= w.written
    /\ w.input_end = bs.input_end /\ w.error = bs.error

Ended(flow, bs, w) ==
    /\ StreamOK(flow, w) /\ w.read = bs.read /\ w.written = bs.written
    /\ w.input_end = TRUE /\ w.error = bs.error

Failed(flow, bs, w) ==
    /\ StreamOK(flow, w) /\ w.read = bs.read /\ w.written = bs.written /\ w.buffer = bs.buffer
    /\ w.input_end = bs.input_end /\ w.error = TRUE

\* What an acknowledgment of a does
AckEffect(flow, t, e, a, win, u) ==
    \/ u = t /\ ~acceptable(t, a)
    \/ /\ acceptable(t, a) /\ t.recv_ackno <= a /\ a <= t.next_seqno
       /\ Ready(flow, u, MaxOf(e, a + MaxOf(win, 1))) /\ Busy(u)
       /\ Onward(t, u) /\ u.recv_ackno = a

\* u is t with another stream.
Exchanged(flow, t, bs, u) ==
    /\ Stands(flow, u) /\ Follows(t, u) /\ SameNumbers(t, u) /\ u.stream = bs
    /\ u.segments_out = t.segments_out
    /\ u.consecutive_retransmissions = t.consecutive_retransmissions

(***************************************************************************)
(* Numbers                                                                 *)
(***************************************************************************)
\* A set of numbers that is not empty has a least element.
LEMMA LeastNumber ==
  ASSUME NEW T, T \subseteq Nat, T # {}
  PROVE  \E g \in T : \A h \in T : g <= h
<1>1. PICK g \in T : \A h \in T : ~(<<h, g>> \in OpToRel(<, Nat))
  BY NatLessThanWellFounded, WFMin, Zenon
<1>2. \A h \in T : ~(h < g)
  BY <1>1, Zenon DEF OpToRel
<1> QED
  BY <1>2

\* There is such a function for every n,
LEMMA PowersExist ==
  ASSUME NEW n \in Nat
  PROVE  \E g : PowersTo(g, n)
<1> DEFINE T == {i \in Nat : ~ \E g : PowersTo(g, i)}
<1>1. SUFFICES ASSUME T # {} PROVE FALSE
  OBVIOUS
<1>2. PICK i \in T : \A h \in T : i <= h
  BY <1>1, LeastNumber, Zenon
<1>3. i # 0
  <2>1. PowersTo([k \in 0 .. 0 |-> 1], 0)
    BY DEF PowersTo
  <2> QED
    BY <2>1
<1>4. i - 1 \in Nat /\ i - 1 \notin T
  BY <1>2, <1>3
<1>5. PICK g : PowersTo(g, i - 1)
  BY <1>4
<1> DEFINE f == [k \in 0 .. i |-> IF k = i THEN 2 * g[i - 1] ELSE g[k]]
<1>6. g \in [0 .. i - 1 -> Nat] /\ g[0] = 1 /\ \A k \in 1 .. i - 1 : g[k] = 2 * g[k - 1]
  BY <1>5 DEF PowersTo
<1>7. f \in [0 .. i -> Nat]
  BY <1>4, <1>6
<1>8. f[0] = 1
  BY <1>3, <1>4, <1>6
<1>9. ASSUME NEW k \in 1 .. i
      PROVE  f[k] = 2 * f[k - 1]
  BY <1>4, <1>6
<1>10. PowersTo(f, i)
  BY <1>7, <1>8, <1>9, Zenon DEF PowersTo
<1> QED
  BY <1>10

\* and only one.
LEMMA PowersAgree ==
  ASSUME NEW m \in Nat, NEW n \in Nat, m <= n, NEW f, NEW g, PowersTo(f, m), PowersTo(g, n)
  PROVE  f[m] = g[m]
<1> DEFINE T == {i \in Nat : i <= m /\ f[i] # g[i]}
<1>1. SUFFICES ASSUME T # {} PROVE FALSE
  OBVIOUS
<1>2. PICK i \in T : \A h \in T : i <= h
  BY <1>1, LeastNumber, Zenon
<1>3. i # 0
  BY <1>2 DEF PowersTo
<1>4. i \in 1 .. m /\ i \in 1 .. n /\ i - 1 \in 0 .. m /\ i - 1 \notin T
  BY <1>2, <1>3
<1>5. f[i - 1] = g[i - 1]
  BY <1>4
<1> QED
  BY <1>2, <1>4, <1>5 DEF PowersTo

\* The recursion that defines Pow2 has a solution, so Pow2 satisfies it.
LEMMA Powers ==
  /\ Pow2 \in [Nat -> Nat]
  /\ Pow2[0] = 1
  /\ \A n \in Nat : Pow2[n + 1] = 2 * Pow2[n]
<1> DEFINE G(n) == CHOOSE g : PowersTo(g, n)
           F == [n \in Nat |-> G(n)[n]]
<1>1. \A n \in Nat : PowersTo(G(n), n)
  BY PowersExist
<1> HIDE DEF G
<1>2. \A n \in Nat : G(n)[n] \in Nat
  BY <1>1 DEF PowersTo
<1>3. F[0] = 1
  BY <1>1 DEF PowersTo
<1>4. ASSUME NEW n \in Nat, n # 0
      PROVE  F[n] = 2 * F[n - 1]
  <2>1. n - 1 \in Nat /\ n - 1 <= n
    BY <1>4
  <2>2. G(n - 1)[n - 1] = G(n)[n - 1]
    BY <1>1, <2>1, PowersAgree
  <2>3. G(n)[n] = 2 * G(n)[n - 1]
    BY <1>1, <1>4 DEF PowersTo
  <2> QED
    BY <2>1, <2>2, <2>3
<1> DEFINE R(f) == [n \in Nat |-> IF n = 0 THEN 1 ELSE 2 * f[n - 1]]
<1>5. F = R(F)
  BY <1>3, <1>4
<1>6. Pow2 = R(Pow2)
  <2> HIDE DEF F
  <2>1. \E f : f = R(f)
    BY <1>5
  <2> QED
    BY <2>1 DEF Pow2
<1>7. Pow2[0] = 1
  BY <1>6
<1>8. ASSUME NEW n \in Nat
      PROVE  Pow2[n + 1] = 2 * Pow2[n]
  BY <1>6
<1>9. Pow2 \in [Nat -> Nat]
  <2> DEFINE T == {n \in Nat : Pow2[n] \notin Nat}
  <2>1. ASSUME T # {} PROVE FALSE
    <3>1. PICK n \in T : \A h \in T : n <= h
      BY <2>1, LeastNumber, Zenon
    <3>2. n # 0 /\ n - 1 \in Nat /\ n - 1 \notin T
      BY <1>7, <3>1
    <3>3. Pow2[(n - 1) + 1] = 2 * Pow2[n - 1]
      BY <1>8, <3>2
    <3> QED
      BY <3>2, <3>3
  <2>2. \A n \in Nat : Pow2[n] \in Nat
    BY <2>1
  <2> QED
    BY <1>6, <2>2
<1> QED
  BY <1>7, <1>8, <1>9

-------------------------------------------------------------------------------
(***************************************************************************)
(* Sequence numbers                                                        *)
(***************************************************************************)
\* The modulus is twice its half.
LEMMA Modulus ==
  SeqMod \in Nat /\ SeqMod > 0 /\ HalfMod \in Nat /\ SeqMod = HalfMod + HalfMod /\ SizeMax \in Nat
BY SeqModAssumption, SizeMaxAssumption DEF HalfMod

\* The numbers of one stream span less than half of the sequence space.
LEMMA Constants ==
  ASSUME NEW flow, IsOutgoing(flow)
  PROVE  /\ SeqMod \in Nat /\ HalfMod \in Nat /\ SizeMax \in Nat /\ Limit(flow) \in Nat
         /\ flow.isn \in Nat /\ SeqMod = HalfMod + HalfMod /\ flow.isn < SeqMod
         /\ Limit(flow) < HalfMod /\ SeqMod + SeqMod <= SizeMax
         /\ Limit(flow) = Len(flow.stream) + 2 /\ Len(flow.stream) \in Nat
         /\ flow.rto \in Nat /\ flow.windows \subseteq Nat /\ flow.isn \in WrappingInt32
         /\ flow.stream \in Seq(flow.byte)
<1>1. HalfMod \in Nat /\ SeqMod = HalfMod + HalfMod /\ SeqMod \in Nat
  BY Modulus
<1>2. Len(flow.stream) \in Nat /\ flow.stream \in Seq(flow.byte)
  BY DEF IsOutgoing, IsFlow
<1> QED
  BY <1>1, <1>2, SizeMaxAssumption DEF Limit, WrappingInt32, IsOutgoing

\* Its bytes are those of the flow.
LEMMA OutgoingFlow ==
  ASSUME NEW flow, IsOutgoing(flow)
  PROVE  IsFlow(flow)
BY DEF IsOutgoing

\* The same with a name for the length of the stream
LEMMA StreamLimit ==
  ASSUME NEW flow, IsOutgoing(flow)
  PROVE  \E s \in Nat : /\ s = Len(flow.stream) /\ Limit(flow) = s + 2
                        /\ s + 2 < HalfMod /\ s + 2 < SeqMod
<1>1. PICK s \in Nat : s = Len(flow.stream) /\ Limit(flow) = s + 2 /\ s + 2 < HalfMod
  BY Constants
<1>2. HalfMod \in Nat /\ SeqMod = HalfMod + HalfMod
  BY Modulus
<1>3. s + 2 < SeqMod
  BY <1>1, <1>2
<1> QED
  BY <1>1, <1>3, Zenon

\* The bytes of the stream, for a sender
LEMMA StreamBytes ==
  ASSUME NEW flow, IsOutgoing(flow), NEW i \in Nat, NEW n \in Nat, i + n <= Len(flow.stream)
  PROVE  Bytes(flow, i, n) \in Seq(flow.byte) /\ Len(Bytes(flow, i, n)) = n
<1>1. ASSUME NEW B, NEW s \in Seq(B), i + n <= Len(s)
      PROVE  SubSeq(s, i + 1, i + n) \in Seq(B) /\ Len(SubSeq(s, i + 1, i + n)) = n
  BY <1>1
<1> QED
  BY <1>1, Zenon DEF Bytes, IsOutgoing, IsFlow

\* Cutting them gives bytes of the stream again.
LEMMA StreamCut ==
  ASSUME NEW flow, IsOutgoing(flow), NEW i \in Nat, NEW n \in Nat, i + n <= Len(flow.stream)
  PROVE  Cuts(flow, i, n)
<1>1. ASSUME NEW B, NEW s \in Seq(B), i + n <= Len(s), NEW a \in 0 .. n, NEW b \in a .. n
      PROVE  SubSeq(SubSeq(s, i + 1, i + n), a + 1, b) = SubSeq(s, (i + a) + 1, (i + a) + (b - a))
  BY <1>1
<1> QED
  BY <1>1, Zenon DEF Cuts, Bytes, IsOutgoing, IsFlow

\* Bytes followed by the next ones are bytes of the stream,
LEMMA StreamJoin ==
  ASSUME NEW flow, IsOutgoing(flow), NEW i \in Nat, NEW n \in Nat, NEW p \in Nat,
         i + n + p <= Len(flow.stream)
  PROVE  Bytes(flow, i, n) \o Bytes(flow, i + n, p) = Bytes(flow, i, n + p)
<1>1. ASSUME NEW B, NEW s \in Seq(B), i + n + p <= Len(s)
      PROVE  SubSeq(s, i + 1, i + n) \o SubSeq(s, (i + n) + 1, (i + n) + p)
               = SubSeq(s, i + 1, i + (n + p))
  BY <1>1
<1> QED
  BY <1>1, Zenon DEF Bytes, IsOutgoing, IsFlow

\* and so is the empty sequence.
LEMMA StreamNothing ==
  ASSUME NEW flow, IsOutgoing(flow), NEW i \in Nat
  PROVE  Bytes(flow, i, 0) = << >>
<1>1. ASSUME NEW B, NEW s \in Seq(B)
      PROVE  SubSeq(s, i + 1, i + 0) = << >>
  <2>1. i + 0 = i
    OBVIOUS
  <2>2. SubSeq(s, i + 1, i) = << >>
    BY <1>1
  <2> QED
    BY <2>1, <2>2, Zenon
<1> QED
  BY <1>1, Zenon DEF Bytes, IsOutgoing, IsFlow

\* Division with remainder
LEMMA Division ==
  ASSUME NEW m \in Nat, m > 0, NEW a \in Int
  PROVE  /\ a \div m \in Int /\ a % m \in Int
         /\ a = ((a \div m) * m) + (a % m)
         /\ 0 <= a % m /\ a % m < m
OBVIOUS

\* The remainder of a number in reach
LEMMA Reduced ==
  ASSUME NEW m \in Nat, m > 0, NEW a \in Int, NEW r \in Int, 0 <= r, r < m,
         a = r \/ a = r + m \/ a = r - m
  PROVE  a % m = r
OBVIOUS

\* wrap gives a sequence number from which the absolute one can be recovered.
LEMMA WrapNumber ==
  ASSUME NEW isn \in WrappingInt32, NEW n \in Nat, n < SeqMod
  PROVE  /\ wrap(n, isn) \in WrappingInt32
         /\ (wrap(n, isn) - isn) % SeqMod = n
<1>0. isn \in Nat /\ isn < SeqMod
  BY Modulus DEF WrappingInt32
<1>1. CASE n + isn < SeqMod
  <2>1. wrap(n, isn) = n + isn
    BY <1>0, <1>1, Modulus, Reduced DEF wrap
  <2> QED
    BY <1>0, <1>1, <2>1, Modulus, Reduced DEF WrappingInt32
<1>2. CASE n + isn >= SeqMod
  <2>1. n + isn - SeqMod \in Int /\ 0 <= n + isn - SeqMod /\ n + isn - SeqMod < SeqMod
    BY <1>0, <1>2, Modulus
  <2>2. wrap(n, isn) = n + isn - SeqMod
    BY <1>0, <2>1, Modulus, Reduced DEF wrap
  <2>3. (n + isn - SeqMod) - isn = n - SeqMod /\ n - SeqMod \in Int
    BY <1>0, Modulus
  <2>4. (n - SeqMod) % SeqMod = n
    BY Modulus, Reduced
  <2> QED
    BY <2>1, <2>2, <2>3, <2>4, Modulus DEF WrappingInt32
<1> QED
  BY <1>0, <1>1, <1>2, Modulus

\* unwrap recovers it from every checkpoint in the first half of the numbers.
LEMMA UnwrapNumber ==
  ASSUME NEW isn \in WrappingInt32, NEW s \in WrappingInt32, NEW c \in Nat, c < HalfMod,
         SeqMod <= SizeMax
  PROVE  unwrap(s, isn, c) = (s - isn) % SeqMod
<1>1. s - isn \in Int /\ SeqMod > 0
  BY Modulus DEF WrappingInt32
<1>2. PICK num \in Nat : num = (s - isn) % SeqMod /\ num < SeqMod
  BY <1>1, Modulus, Division
<1>3. CASE c > num
  <2>1. c - num + HalfMod \in Nat /\ c - num + HalfMod < SeqMod /\ num <= SizeMax
    BY <1>2, <1>3, Modulus
  <2>2. SizeAdd(c - num, HalfMod) = c - num + HalfMod
    BY <2>1, Modulus DEF SizeAdd
  <2>3. (c - num + HalfMod) \div SeqMod = 0
    BY <1>1, <2>1, Modulus
  <2>4. (num + 0 * SeqMod) % (SizeMax + 1) = num
    <3>1. num + 0 * SeqMod = num
      BY Modulus
    <3> QED
      BY <2>1, <3>1, Modulus, Reduced
  <2> QED
    BY <1>2, <1>3, <2>2, <2>3, <2>4 DEF unwrap
<1>4. CASE ~(c > num)
  BY <1>2, <1>4 DEF unwrap
<1> QED
  BY <1>2, <1>3, <1>4

\* Both hold for the numbers of a flow.
LEMMA WrapStart ==
  ASSUME NEW flow, IsOutgoing(flow), NEW n \in Nat, n < SeqMod
  PROVE  /\ wrap(n, flow.isn) \in WrappingInt32
         /\ (wrap(n, flow.isn) - flow.isn) % SeqMod = n
BY Constants, WrapNumber, Zenon

\* and unwrap finds the number from a checkpoint that is not far from it.
LEMMA UnwrapStart ==
  ASSUME NEW flow, IsOutgoing(flow), NEW s \in WrappingInt32, NEW c \in Nat, c <= Limit(flow)
  PROVE  unwrap(s, flow.isn, c) = (s - flow.isn) % SeqMod
<1>1. PICK l \in Nat : l = Limit(flow) /\ l < HalfMod
  BY Constants
<1>2. c < HalfMod /\ SeqMod <= SizeMax
  BY <1>1, Constants
<1> QED
  BY <1>2, Constants, UnwrapNumber, Zenon

-------------------------------------------------------------------------------
-------------------------------------------------------------------------------
(***************************************************************************)
(* Queues of segments                                                      *)
(***************************************************************************)
\* A flag is a natural number of sequence numbers.
LEMMA BitNumber ==
  ASSUME NEW x
  PROVE  Bit(x) \in Nat /\ (x => Bit(x) = 1) /\ (~x => Bit(x) = 0)
BY DEF Bit

\* length_in_sequence_space counts the bytes and the two flags.
LEMMA LengthBits ==
  ASSUME NEW seg
  PROVE  length_in_sequence_space(seg) = Len(seg.payload) + Bit(seg.syn) + Bit(seg.fin)
BY Zenon DEF length_in_sequence_space, Bit

\* A segment that carries its part of the stream has numbers within the limit.
LEMMA SegmentNumbers ==
  ASSUME NEW flow, IsOutgoing(flow), NEW seg, Carries(flow, seg)
  PROVE  /\ Start(flow, seg) \in Nat /\ End(flow, seg) \in Nat /\ Start(flow, seg) <= End(flow, seg)
         /\ End(flow, seg) <= Limit(flow)
         /\ \A c \in Nat : c <= Limit(flow) => unwrap(seg.seqno, flow.isn, c) = Start(flow, seg)
<1>1. seg.seqno \in WrappingInt32 /\ length_in_sequence_space(seg) \in Nat
  <2>1. seg.seqno \in WrappingInt32 /\ seg.payload \in Seq(flow.byte)
    BY DEF Carries, Segs, Segments
  <2>2. Len(seg.payload) \in Nat
    BY <2>1
  <2>3. Bit(seg.syn) \in Nat /\ Bit(seg.fin) \in Nat
    BY BitNumber
  <2> QED
    BY <2>1, <2>2, <2>3, LengthBits
<1>2. Start(flow, seg) \in Nat
  BY <1>1, Constants, Division, SMTT(30) DEF Start, WrappingInt32
<1>3. End(flow, seg) \in Nat /\ Start(flow, seg) <= End(flow, seg) /\ End(flow, seg) <= Limit(flow)
  BY <1>1, <1>2, Constants, SMTT(20) DEF End, Carries
<1> QED
  BY <1>1, <1>2, <1>3, UnwrapStart DEF Start

\* A queue that follows another extends it.
LEMMA TiledConcat ==
  ASSUME NEW flow, IsOutgoing(flow), NEW p, NEW q, NEW a, NEW b, NEW c, Tiled(flow, p, a, b),
         Tiled(flow, q, b, c)
  PROVE  Tiled(flow, p \o q, a, c)
<1> DEFINE r == p \o q
<1>1. p \in Seq(Segs(flow)) /\ q \in Seq(Segs(flow)) /\ Len(p) \in Nat /\ Len(q) \in Nat
  BY DEF Tiled
<1>2. CASE p = << >>
  <2>1. r = q /\ a = b
    BY <1>1, <1>2 DEF Tiled
  <2> QED
    BY <2>1
<1>3. CASE q = << >>
  <2>1. r = p /\ b = c
    BY <1>1, <1>3 DEF Tiled
  <2> QED
    BY <2>1
<1>4. CASE p # << >> /\ q # << >>
  <2>1. /\ r \in Seq(Segs(flow)) /\ Len(r) = Len(p) + Len(q)
        /\ \A j \in 1 .. Len(p) : r[j] = p[j]
        /\ \A j \in 1 .. Len(q) : r[Len(p) + j] = q[j]
    BY <1>1
  <2>2. Len(p) > 0 /\ Len(q) > 0
    BY <1>1, <1>4
  <2>3. ASSUME NEW j \in 1 .. Len(r) PROVE Carries(flow, r[j])
    <3>1. CASE j <= Len(p)
      BY <1>1, <2>1, <3>1 DEF Tiled
    <3>2. CASE j > Len(p)
      <4>1. j - Len(p) \in 1 .. Len(q) /\ j = Len(p) + (j - Len(p))
        BY <1>1, <2>1, <3>2
      <4> QED
        BY <2>1, <4>1 DEF Tiled
    <3> QED
      BY <1>1, <3>1, <3>2
  <2>4. ASSUME NEW j \in 1 .. Len(r) - 1 PROVE End(flow, r[j]) = Start(flow, r[j + 1])
    <3>1. CASE j < Len(p)
      <4>1. j \in 1 .. Len(p) - 1 /\ j \in 1 .. Len(p) /\ j + 1 \in 1 .. Len(p)
        BY <1>1, <3>1
      <4> QED
        BY <2>1, <4>1 DEF Tiled
    <3>2. CASE j = Len(p)
      <4>1. j \in 1 .. Len(p) /\ r[j + 1] = q[1]
        BY <1>1, <2>1, <2>2, <3>2
      <4> QED
        BY <1>4, <2>1, <3>2, <4>1 DEF Tiled
    <3>3. CASE j > Len(p)
      <4>1. /\ j - Len(p) \in 1 .. Len(q) - 1 /\ j = Len(p) + (j - Len(p))
            /\ j - Len(p) \in 1 .. Len(q)
            /\ (j - Len(p)) + 1 \in 1 .. Len(q) /\ j + 1 = Len(p) + ((j - Len(p)) + 1)
        BY <1>1, <2>1, <3>3
      <4> QED
        BY <2>1, <4>1 DEF Tiled
    <3> QED
      BY <1>1, <3>1, <3>2, <3>3, SMTT(30)
  <2>5. r # << >> /\ r[1] = p[1] /\ r[Len(r)] = q[Len(q)]
    BY <1>1, <2>1, <2>2
  <2>6. Start(flow, r[1]) = a /\ End(flow, r[Len(r)]) = c
    BY <1>4, <2>5 DEF Tiled
  <2> HIDE DEF r
  <2> QED
    BY <2>1, <2>3, <2>4, <2>5, <2>6, SMTT(30) DEF Tiled
<1> QED
  BY <1>2, <1>3, <1>4

\* The queue without its first segments
LEMMA TiledSuffix ==
  ASSUME NEW flow, IsOutgoing(flow), NEW q, NEW a, NEW b, Tiled(flow, q, a, b),
         NEW n \in 0 .. Len(q)
  PROVE  /\ Tiled(flow, SubSeq(q, n + 1, Len(q)), NextStart(flow, q, n, b), b)
         /\ n = 0 => NextStart(flow, q, n, b) = a
         /\ n > 0 => NextStart(flow, q, n, b) = End(flow, q[n]) /\ Start(flow, q[1]) = a
         /\ SubSeq(q, n + 1, Len(q)) = << >> <=> n = Len(q)
<1> DEFINE r == SubSeq(q, n + 1, Len(q))
           d == NextStart(flow, q, n, b)
<1>1. q \in Seq(Segs(flow)) /\ Len(q) \in Nat /\ n \in Nat /\ n <= Len(q)
  BY DEF Tiled
<1>2. /\ r \in Seq(Segs(flow)) /\ Len(r) = Len(q) - n
      /\ \A j \in 1 .. Len(q) - n : r[j] = q[n + j]
  BY <1>1
<1> HIDE DEF r
<1>3. r = << >> <=> n = Len(q)
  BY <1>1, <1>2
<1>4. n = 0 => d = a
  BY <1>1 DEF Tiled, NextStart
<1>5. n > 0 => d = End(flow, q[n]) /\ Start(flow, q[1]) = a
  <2>1. CASE n > 0 /\ n < Len(q)
    BY <1>1, <2>1 DEF Tiled, NextStart
  <2>2. CASE n > 0 /\ n = Len(q)
    BY <1>1, <2>2 DEF Tiled, NextStart
  <2> QED
    BY <1>1, <2>1, <2>2
<1>6. Tiled(flow, r, d, b)
  <2>1. ASSUME NEW j \in 1 .. Len(r) PROVE Carries(flow, r[j])
    <3>1. n + j \in 1 .. Len(q) /\ r[j] = q[n + j]
      BY <1>1, <1>2
    <3> QED
      BY <3>1 DEF Tiled
  <2>2. ASSUME NEW j \in 1 .. Len(r) - 1 PROVE End(flow, r[j]) = Start(flow, r[j + 1])
    <3>1. /\ n + j \in 1 .. Len(q) - 1 /\ r[j] = q[n + j]
          /\ r[j + 1] = q[n + (j + 1)] /\ n + (j + 1) = (n + j) + 1
      BY <1>1, <1>2
    <3> QED
      BY <3>1 DEF Tiled
  <2>3. r = << >> => d = b
    BY <1>1, <1>3 DEF NextStart
  <2>4. r # << >> => Start(flow, r[1]) = d /\ End(flow, r[Len(r)]) = b
    <3>1. SUFFICES ASSUME r # << >> PROVE Start(flow, r[1]) = d /\ End(flow, r[Len(r)]) = b
      OBVIOUS
    <3>2. n < Len(q)
      BY <1>1, <1>3, <3>1
    <3>3. r[1] = q[n + 1]
      BY <1>1, <1>2, <3>2
    <3>4. r[Len(r)] = q[Len(q)] /\ q # << >>
      BY <1>1, <1>2, <3>2
    <3> QED
      BY <3>2, <3>3, <3>4 DEF Tiled, NextStart
  <2> HIDE DEF d
  <2> QED
    BY <1>2, <2>1, <2>2, <2>3, <2>4 DEF Tiled
<1> QED
  BY <1>3, <1>4, <1>5, <1>6 DEF r

\* No segment of the queue ends past its end.
LEMMA TiledEnds ==
  ASSUME NEW flow, IsOutgoing(flow), NEW q, NEW a, NEW b \in Nat, Tiled(flow, q, a, b),
         NEW i \in 1 .. Len(q)
  PROVE  End(flow, q[i]) <= b
<1> DEFINE T == {d \in Nat : d < Len(q) /\ End(flow, q[Len(q) - d]) > b}
<1>1. q \in Seq(Segs(flow)) /\ Len(q) \in Nat /\ Len(q) # 0
  BY DEF Tiled
<1>2. \A j \in 1 .. Len(q) : /\ Start(flow, q[j]) \in Nat /\ End(flow, q[j]) \in Nat
                             /\ Start(flow, q[j]) <= End(flow, q[j])
  BY SegmentNumbers DEF Tiled
<1>3. \A j \in 1 .. Len(q) - 1 : End(flow, q[j]) = Start(flow, q[j + 1])
  BY DEF Tiled
<1>4. End(flow, q[Len(q)]) = b
  BY <1>1 DEF Tiled
<1>5. SUFFICES ASSUME End(flow, q[i]) > b PROVE FALSE
  BY <1>2
<1>6. Len(q) - i \in T
  <2>1. Len(q) - i \in Nat /\ Len(q) - i < Len(q) /\ Len(q) - (Len(q) - i) = i
    BY <1>1
  <2> QED
    BY <1>5, <2>1
<1>7. PICK d \in T : \A h \in T : d <= h
  <2>1. T \subseteq Nat /\ T # {}
    BY <1>6
  <2> HIDE DEF T
  <2> QED
    BY <2>1, LeastNumber, Zenon
<1>8. d \in Nat /\ d < Len(q) /\ End(flow, q[Len(q) - d]) > b
  BY <1>7
<1>9. d # 0
  <2>1. Len(q) - 0 = Len(q) /\ ~(b > b)
    BY <1>1
  <2> QED
    BY <1>4, <1>8, <2>1, Zenon
<1>10. PICK j \in 1 .. Len(q) - 1 : j = Len(q) - d /\ j + 1 = Len(q) - (d - 1)
  <2>1. ASSUME NEW l \in Nat, d < l
        PROVE  \E j \in 1 .. l - 1 : j = l - d /\ j + 1 = l - (d - 1)
    <3>1. l - d \in 1 .. l - 1 /\ (l - d) + 1 = l - (d - 1)
      BY <1>8, <1>9, <2>1
    <3> QED
      BY <3>1, Zenon
  <2> QED
    BY <1>1, <1>8, <2>1, Zenon
<1>11. d - 1 \in Nat /\ d - 1 < Len(q) /\ ~(d <= d - 1)
  BY <1>1, <1>8, <1>9
<1>12. End(flow, q[j + 1]) > b
  <2>1. j + 1 \in 1 .. Len(q)
    BY <1>1, <1>10
  <2>2. PICK x \in Nat, y \in Nat : x = Start(flow, q[j + 1]) /\ y = End(flow, q[j + 1]) /\ x <= y
    BY <1>2, <2>1, Zenon
  <2>3. x > b
    BY <1>3, <1>8, <1>10, <2>2, Zenon
  <2> QED
    BY <2>2, <2>3
<1>13. d - 1 \in T
  BY <1>10, <1>11, <1>12
<1> QED
  BY <1>7, <1>11, <1>13

-------------------------------------------------------------------------------
(***************************************************************************)
(* The segments fill_window makes                                          *)
(***************************************************************************)
\* Products with the payload size grow with the other factor.
LEMMA Products ==
  ASSUME NEW i \in Nat, NEW j \in Nat, i <= j
  PROVE  /\ i * MaxPayload \in Nat /\ j * MaxPayload \in Nat
         /\ i * MaxPayload <= j * MaxPayload
         /\ (i + 1) * MaxPayload = i * MaxPayload + MaxPayload
         /\ MaxPayload \in Nat /\ MaxPayload > 0
<1>1. MaxPayload \in Nat /\ MaxPayload > 0
  BY MaxPayloadAssumption
<1>2. j - i \in Nat /\ (j - i) * MaxPayload >= 0
  BY <1>1
<1>3. (j - i) * MaxPayload = j * MaxPayload - i * MaxPayload
  BY <1>1
<1> QED
  BY <1>1, <1>2, <1>3

\* The count is the number of payloads, the last of them not empty.
LEMMA CountOfBytes ==
  ASSUME NEW bytes \in Nat, bytes > 0, NEW syn, NEW fin
  PROVE  /\ Count(syn, bytes, fin) \in Nat /\ Count(syn, bytes, fin) > 0
         /\ Low(Count(syn, bytes, fin)) < bytes
         /\ bytes <= Count(syn, bytes, fin) * MaxPayload
<1> DEFINE c == (bytes + MaxPayload - 1) \div MaxPayload
           r == (bytes + MaxPayload - 1) % MaxPayload
<1>1. MaxPayload \in Nat /\ MaxPayload > 0 /\ bytes + MaxPayload - 1 \in Nat
  BY MaxPayloadAssumption
<1>2. /\ c \in Int /\ r \in Int /\ bytes + MaxPayload - 1 = (c * MaxPayload) + r
      /\ 0 <= r /\ r < MaxPayload
  BY <1>1, Division
<1> HIDE DEF c, r
<1>3. c * MaxPayload \in Int /\ (c - 1) * MaxPayload = c * MaxPayload - MaxPayload
  BY <1>1, <1>2
<1>4. bytes <= c * MaxPayload /\ (c - 1) * MaxPayload < bytes
  BY <1>1, <1>2, <1>3
<1>5. c > 0
  <2>1. c <= 0 => c * MaxPayload <= 0
    BY <1>1, <1>2
  <2> QED
    BY <1>2, <1>3, <1>4, <2>1
<1>6. Count(syn, bytes, fin) = c
  BY DEF Count, c
<1> QED
  BY <1>2, <1>4, <1>5, <1>6 DEF Low

\* push_segment cuts what it sends into pieces that follow each other, the first from
\* the start and the last to the end.
LEMMA Offsets ==
  ASSUME NEW syn \in 0 .. 1, NEW fin \in 0 .. 1, NEW bytes \in Nat
  PROVE  Divided(Count(syn, bytes, fin), syn, bytes, fin)
<1> DEFINE c == Count(syn, bytes, fin)
<1> SUFFICES Divided(c, syn, bytes, fin)
  OBVIOUS
<1>1. CASE bytes = 0
  <2>1. c = MaxOf(syn, fin)
    BY <1>1 DEF Count
  <2>2. c \in 0 .. 1 /\ (c = 0 <=> syn + bytes + fin = 0)
    BY <1>1, <2>1 DEF MaxOf
  <2>3. Low(1) = 0 /\ High(1, bytes) = 0
    BY <1>1, MaxPayloadAssumption DEF Low, High, MinOf
  <2>4. ASSUME NEW j \in 1 .. c PROVE j = 1 /\ c = 1
    BY <2>2
  <2> HIDE DEF c
  <2> QED
    BY <1>1, <2>2, <2>3, <2>4 DEF Divided
<1>2. CASE bytes > 0
  <2>1. c \in Nat /\ c > 0 /\ Low(c) < bytes /\ bytes <= c * MaxPayload
    BY <1>2, CountOfBytes
  <2> HIDE DEF c
  <2>2. High(c, bytes) = bytes
    <3>1. c * MaxPayload \in Nat
      BY <2>1, Products
    <3> QED
      BY <2>1, <3>1 DEF High, MinOf
  <2>3. ASSUME NEW j \in 1 .. c
        PROVE  /\ Low(j) \in Nat /\ High(j, bytes) \in Nat
               /\ Low(j) <= High(j, bytes) /\ High(j, bytes) <= bytes
               /\ j < c => High(j, bytes) = Low(j + 1)
               /\ j = 1 => Low(j) = 0
    <3>1. j - 1 \in Nat /\ c - 1 \in Nat /\ j - 1 <= c - 1 /\ (j - 1) + 1 = j /\ (j + 1) - 1 = j
      BY <2>1
    <3>2. PICK x \in Nat : x = (j - 1) * MaxPayload
      BY <3>1, Products
    <3>3. PICK y \in Nat : y = (c - 1) * MaxPayload
      BY <3>1, Products
    <3>4. PICK z \in Nat : z = j * MaxPayload
      BY Products
    <3>5. x <= y /\ z = x + MaxPayload /\ MaxPayload \in Nat /\ MaxPayload > 0
      BY <3>1, <3>2, <3>3, <3>4, Products
    <3>6. j < c => z <= y
      <4>1. ASSUME j < c PROVE j <= c - 1
        BY <2>1, <4>1
      <4> QED
        BY <3>1, <3>3, <3>4, <4>1, Products
    <3>7. Low(j) = x /\ Low(j + 1) = z /\ Low(c) = y
      BY <3>1, <3>2, <3>3, <3>4 DEF Low
    <3>8. High(j, bytes) = MinOf(z, bytes)
      BY <3>4 DEF High
    <3>9. j = 1 => x = 0
      BY <3>2, <3>5, SMTT(30)
    <3> QED
      BY <2>1, <3>5, <3>6, <3>7, <3>8, <3>9 DEF MinOf
  <2> QED
    BY <1>2, <2>1, <2>2, <2>3 DEF Divided
<1> QED
  BY <1>1, <1>2

\* Each segment that push_segment cuts carries the part of the stream that belongs at
\* its sequence numbers.
LEMMA PieceCarries ==
  ASSUME NEW flow, IsOutgoing(flow), NEW n \in Nat, NEW rd \in Nat, NEW syn \in 0 .. 1,
         NEW bytes \in Nat, NEW fin \in 0 .. 1,
         Sendable(flow, n, rd, syn, bytes, fin), NEW j \in 1 .. Count(syn, bytes, fin)
  PROVE  PieceOK(flow, Piece(flow, j, n, rd, syn, bytes, fin), j, n, syn, bytes, fin)
<1> DEFINE p == Piece(flow, j, n, rd, syn, bytes, fin)
           c == Count(syn, bytes, fin)
<1>1. c \in Nat /\ j \in Nat /\ 1 <= j /\ j <= c /\ Divided(c, syn, bytes, fin)
  <2>1. Divided(c, syn, bytes, fin)
    BY Offsets, Zenon
  <2>2. c \in Nat
    BY <2>1 DEF Divided
  <2> QED
    BY <2>1, <2>2
<1> HIDE DEF c
<1>2. /\ Low(j) \in Nat /\ High(j, bytes) \in Nat /\ Low(j) <= High(j, bytes)
      /\ High(j, bytes) <= bytes /\ (j = 1 => Low(j) = 0)
  BY <1>1 DEF Divided
<1> DEFINE lo == Low(j)
           hi == High(j, bytes)
<1>3. lo \in Nat /\ hi \in Nat /\ lo <= hi /\ hi <= bytes /\ (j = 1 => lo = 0)
  BY <1>2
<1>4. PICK b \in Nat : b = Begin(j, n, syn)
  BY <1>2 DEF Begin
<1>5. b = n + (IF j = 1 THEN 0 ELSE syn + lo)
  BY <1>2, <1>4 DEF Begin
<1> HIDE DEF lo, hi
<1>0. PICK s \in Nat : s = Len(flow.stream) /\ s + 2 < SeqMod /\ rd + bytes <= s
  <2>1. rd + bytes <= Len(flow.stream)
    BY DEF Sendable
  <2> QED
    BY <2>1, StreamLimit, Zenon
<1>6. /\ n + syn = rd + 1
      /\ (syn = 1 /\ j = 1) <=> b = 0
      /\ b # 0 => b - 1 = rd + lo
      /\ b = 0 => rd + lo = 0
      /\ b <= s + 2 /\ rd + lo \in Nat /\ hi - lo \in Nat
      /\ rd + lo + (hi - lo) <= s
  <2>1. \/ syn = 1 /\ n = 0 /\ rd = 0
        \/ syn = 0 /\ n = rd + 1
    BY DEF Sendable
  <2>3. n + syn = rd + 1
    BY <2>1
  <2>4. CASE j = 1
    BY <1>0, <1>3, <1>5, <2>1, <2>4
  <2>5. CASE j # 1
    <3>1. b = n + syn + lo
      BY <1>3, <1>5, <2>5
    <3>2. b = rd + lo + 1
      BY <1>3, <2>3, <3>1, SMTT(30)
    <3> QED
      BY <1>0, <1>3, <2>3, <2>5, <3>2, SMTT(20)
  <2> QED
    BY <2>4, <2>5, Zenon
<1>7. wrap(b, flow.isn) \in WrappingInt32 /\ (wrap(b, flow.isn) - flow.isn) % SeqMod = b
  <2>1. b <= s + 2
    BY <1>6, Zenon
  <2>2. b < SeqMod
    BY <1>0, <2>1, Modulus
  <2> QED
    BY <2>2, WrapStart
<1>8. Bytes(flow, rd + lo, hi - lo) \in Seq(flow.byte)
      /\ Len(Bytes(flow, rd + lo, hi - lo)) = hi - lo
  <2>1. PICK i \in Nat, m \in Nat : i = rd + lo /\ m = hi - lo /\ i + m <= s
    BY <1>6
  <2>2. Bytes(flow, i, m) \in Seq(flow.byte) /\ Len(Bytes(flow, i, m)) = m
    BY <1>0, <2>1, StreamBytes, Zenon
  <2> QED
    BY <2>1, <2>2, Zenon
<1>9. p = [EmptySegment(wrap(b, flow.isn)) EXCEPT
             !.syn = syn = 1 /\ j = 1, !.fin = fin = 1 /\ j = c, !.payload = Bytes(flow, rd + lo, hi - lo)]
  BY <1>4, Zenon DEF Piece, c, lo, hi
<1> HIDE DEF p
<1>10. /\ EmptySegment(wrap(b, flow.isn)) \in Segs(flow)
       /\ EmptySegment(wrap(b, flow.isn)).seqno = wrap(b, flow.isn)
       /\ EmptySegment(wrap(b, flow.isn)).rst = FALSE
  <2>1. 0 \in WrappingInt32
    BY SeqModAssumption DEF WrappingInt32
  <2> QED
    BY <1>7, <2>1 DEF EmptySegment, Segs, Segments
<1>11. /\ p \in Segs(flow) /\ p.seqno = wrap(b, flow.isn)
       /\ p.payload = Bytes(flow, rd + lo, hi - lo)
       /\ p.syn = (syn = 1 /\ j = 1) /\ p.fin = (fin = 1 /\ j = c) /\ p.rst = FALSE
  BY <1>8, <1>9, <1>10, Zenon DEF Segs, Segments
<1>12. Start(flow, p) = b
  BY <1>7, <1>11 DEF Start
<1>13. Bit(p.syn) = (IF j = 1 THEN syn ELSE 0) /\ Bit(p.fin) = (IF j = c THEN fin ELSE 0)
  <2>1. Bit(syn = 1 /\ j = 1) = (IF j = 1 THEN syn ELSE 0)
    BY DEF Bit
  <2>2. Bit(fin = 1 /\ j = c) = (IF j = c THEN fin ELSE 0)
    BY DEF Bit
  <2> QED
    BY <1>11, <2>1, <2>2, Zenon
<1>14. End(flow, p) = b + ((hi - lo) + (IF j = 1 THEN syn ELSE 0) + (IF j = c THEN fin ELSE 0))
  BY <1>8, <1>11, <1>12, <1>13, LengthBits, Zenon DEF End
<1>15. End(flow, p) = n + syn + hi + (IF j = c THEN fin ELSE 0)
  <2>1. (IF j = c THEN fin ELSE 0) \in Nat
    OBVIOUS
  <2>2. PICK k \in Nat : k = (IF j = c THEN fin ELSE 0)
    BY <2>1
  <2>3. b + ((hi - lo) + (IF j = 1 THEN syn ELSE 0) + k) = n + syn + hi + k
    BY <1>3, <1>5
  <2> QED
    BY <1>14, <2>2, <2>3
<1>16. Carries(flow, p)
  <2>1. End(flow, p) <= Len(flow.stream) + 2
    BY <1>0, <1>3, <1>6, <1>15, SMTT(30)
  <2>2. p.syn <=> Start(flow, p) = 0
    BY <1>6, <1>11, <1>12, Zenon
  <2>3. p.payload = Bytes(flow, IF p.syn THEN 0 ELSE Start(flow, p) - 1, Len(p.payload))
    <3>1. rd + lo = IF p.syn THEN 0 ELSE Start(flow, p) - 1
      BY <1>6, <1>12, <2>2
    <3> QED
      BY <1>8, <1>11, <3>1, Zenon
  <2> QED
    BY <1>11, <2>1, <2>2, <2>3, SMTT(30) DEF Carries
<1>17. Placed(flow, p, n + syn + bytes, fin)
  <2>1. c > 0 => High(c, bytes) = bytes
    BY <1>1 DEF Divided
  <2>2. CASE fin = 1 /\ j = c
    <3>1. p.fin = TRUE /\ hi = bytes
      <4>1. c > 0 /\ hi = High(c, bytes)
        BY <1>1, <2>2 DEF hi
      <4> QED
        BY <1>11, <2>1, <2>2, <4>1, Zenon
    <3>2. End(flow, p) = n + syn + bytes + 1
      BY <1>15, <2>2, <3>1
    <3> QED
      BY <1>11, <2>2, <3>1, <3>2, Zenon DEF Placed
  <2>3. CASE ~(fin = 1 /\ j = c)
    <3>1. p.fin = FALSE /\ (IF j = c THEN fin ELSE 0) = 0
      <4>1. (IF j = c THEN fin ELSE 0) = 0
        BY <2>3
      <4>2. p.fin = FALSE
        BY <1>11, <2>3, Zenon
      <4> QED
        BY <4>1, <4>2
    <3>2. End(flow, p) <= n + syn + bytes
      BY <1>3, <1>15, <3>1
    <3> QED
      BY <1>11, <3>1, <3>2, Zenon DEF Placed
  <2> QED
    BY <2>2, <2>3
<1> QED
  BY <1>4, <1>12, <1>15, <1>16, <1>17 DEF p, c, hi, PieceOK

-------------------------------------------------------------------------------
(***************************************************************************)
(* The state of a sender                                                   *)
(***************************************************************************)
-------------------------------------------------------------------------------
(***************************************************************************)
(* fill_window                                                             *)
(***************************************************************************)
\* The segments fill_window makes cover the numbers from next_seqno on.
LEMMA NewSegments ==
  ASSUME NEW flow, IsOutgoing(flow), NEW t, NEW n \in Nat, NEW rd \in Nat, NEW l \in Nat,
         NEW syn \in 0 .. 1, NEW bytes \in 0 .. l, NEW fin \in 0 .. 1,
         t.isn = flow.isn, t.next_seqno = n, t.stream.buffer = Bytes(flow, rd, l),
         rd + l <= Len(flow.stream),
         CanSend(flow, n, rd, syn, bytes, fin)
  PROVE  Covers(flow, new_segments(t, Filling(syn, bytes, fin)), n, syn, bytes, fin)
<1> DEFINE f == Filling(syn, bytes, fin)
           c == Count(syn, bytes, fin)
           segs == new_segments(t, f)
<1>1. f.syn = syn /\ f.bytes = bytes /\ f.fin = fin /\ f.count = c
  BY DEF Filling
<1> HIDE DEF f
<1>2. Divided(c, syn, bytes, fin)
  <2>1. bytes \in Nat
    OBVIOUS
  <2> QED
    BY <2>1, Offsets, Zenon
<1>3. c \in Nat /\ (c = 0 <=> syn + bytes + fin = 0)
  BY <1>2 DEF Divided
<1> DEFINE E(j) ==
      [EmptySegment(wrap(t.next_seqno + (IF j = 1 THEN 0 ELSE f.syn + (j - 1) * MaxPayload),
                         t.isn)) EXCEPT
         !.syn = f.syn = 1 /\ j = 1,
         !.fin = f.fin = 1 /\ j = f.count,
         !.payload = SubSeq(t.stream.buffer, (j - 1) * MaxPayload + 1,
                            MinOf(j * MaxPayload, f.bytes))]
<1>4. ASSUME NEW j \in 1 .. c
      PROVE  E(j) = Piece(flow, j, n, rd, syn, bytes, fin)
  <2>1. /\ Low(j) \in Nat /\ High(j, bytes) \in Nat
        /\ Low(j) <= High(j, bytes) /\ High(j, bytes) <= bytes
    BY <1>2 DEF Divided
  <2>2. Low(j) \in 0 .. l /\ High(j, bytes) \in Low(j) .. l
    BY <2>1
  <2>3. SubSeq(Bytes(flow, rd, l), Low(j) + 1, High(j, bytes))
          = Bytes(flow, rd + Low(j), High(j, bytes) - Low(j))
    <3>1. Cuts(flow, rd, l)
      BY StreamCut, Zenon
    <3> QED
      BY <2>2, <3>1, Zenon DEF Cuts
  <2>4. SubSeq(t.stream.buffer, (j - 1) * MaxPayload + 1, MinOf(j * MaxPayload, f.bytes))
          = Bytes(flow, rd + Low(j), High(j, bytes) - Low(j))
    BY <1>1, <2>3, Zenon DEF Low, High
  <2>5. wrap(t.next_seqno + (IF j = 1 THEN 0 ELSE f.syn + (j - 1) * MaxPayload), t.isn)
          = wrap(Begin(j, n, syn), flow.isn)
    BY <1>1, Zenon DEF Begin, Low
  <2> QED
    BY <1>1, <2>4, <2>5, Zenon DEF Piece
<1>5. segs = [j \in 1 .. c |-> Piece(flow, j, n, rd, syn, bytes, fin)]
  <2>1. segs = [j \in 1 .. c |-> E(j)]
    BY <1>1, Zenon DEF new_segments
  <2> HIDE DEF E
  <2> QED
    BY <1>4, <2>1, Zenon
<1> HIDE DEF segs
<1>6. ASSUME NEW j \in 1 .. c
      PROVE  /\ Carries(flow, segs[j])
             /\ Start(flow, segs[j]) = Begin(j, n, syn)
             /\ End(flow, segs[j]) = n + syn + High(j, bytes) + (IF j = c THEN fin ELSE 0)
             /\ Placed(flow, segs[j], n + syn + bytes, fin)
  <2>1. segs[j] = Piece(flow, j, n, rd, syn, bytes, fin)
    BY <1>5, Zenon
  <2>2. syn + bytes + fin # 0
    BY <1>3
  <2> QED
    <3>1. Sendable(flow, n, rd, syn, bytes, fin)
      BY <2>2, Zenon DEF CanSend
    <3>2. bytes \in Nat
      OBVIOUS
    <3>3. PieceOK(flow, segs[j], j, n, syn, bytes, fin)
      BY <2>1, <3>1, <3>2, PieceCarries, ZenonT(40)
    <3> QED
      BY <3>3, Zenon DEF PieceOK
<1> HIDE DEF c
<1>7. segs \in Seq(Segs(flow)) /\ Len(segs) = c /\ (segs = << >> <=> c = 0)
  <2>1. \A j \in 1 .. c : segs[j] \in Segs(flow)
    BY <1>6 DEF Carries
  <2>2. segs \in [1 .. c -> Segs(flow)]
    BY <1>5, <2>1
  <2> QED
    BY <1>3, <2>2
<1>8. ASSUME NEW j \in 1 .. c - 1
      PROVE  End(flow, segs[j]) = Start(flow, segs[j + 1])
  <2>1. j \in 1 .. c /\ j + 1 \in 1 .. c /\ j < c /\ j # c /\ j + 1 # 1
    BY <1>3
  <2>2. End(flow, segs[j]) = n + syn + High(j, bytes) + 0
    BY <1>6, <2>1
  <2>3. Start(flow, segs[j + 1]) = n + (syn + Low(j + 1))
    BY <1>6, <2>1 DEF Begin
  <2>4. High(j, bytes) = Low(j + 1) /\ High(j, bytes) \in Nat
    BY <1>2, <2>1, SMTT(30) DEF Divided
  <2> QED
    BY <2>2, <2>3, <2>4
<1>9. ASSUME c > 0
      PROVE  Start(flow, segs[1]) = n /\ End(flow, segs[c]) = n + syn + bytes + fin
  <2>1. 1 \in 1 .. c /\ c \in 1 .. c /\ High(c, bytes) = bytes
    BY <1>2, <1>3, <1>9 DEF Divided
  <2> QED
    BY <1>6, <2>1 DEF Begin
<1>10. c = 0 => n = n + syn + bytes + fin
  BY <1>3
<1>11. Tiled(flow, segs, n, n + syn + bytes + fin)
  <2>1. \A j \in 1 .. c : Carries(flow, segs[j])
    BY <1>6
  <2> QED
    BY <1>3, <1>7, <1>8, <1>9, <1>10, <2>1, SMTT(20) DEF Tiled
<1>12. \A j \in 1 .. Len(segs) : Placed(flow, segs[j], n + syn + bytes, fin)
  BY <1>6, <1>7, Zenon
<1> QED
  BY <1>3, <1>7, <1>11, <1>12, Zenon DEF segs, f, Covers

\* pop_output takes bytes from the front of the buffer.
LEMMA PopOutput ==
  ASSUME NEW flow, IsOutgoing(flow), NEW bs, StreamOK(flow, bs), NEW k \in 0 .. Len(bs.buffer)
  PROVE  /\ StreamOK(flow, pop_output(bs, k))
         /\ pop_output(bs, k).read = bs.read + k
         /\ pop_output(bs, k).written = bs.written
         /\ pop_output(bs, k).input_end = bs.input_end
         /\ pop_output(bs, k).error = bs.error
         /\ pop_output(bs, k).buffer = << >> <=> k = Len(bs.buffer)
<1> DEFINE l == Len(bs.buffer)
           b == pop_output(bs, k)
<1>1. /\ bs \in ByteStreams(flow.byte) /\ bs.buffer \in Seq(flow.byte) /\ l \in Nat
      /\ bs.read \in Nat
      /\ bs.written \in Nat /\ bs.capacity \in Nat /\ l <= bs.capacity
      /\ bs.read + l = bs.written /\ bs.written <= Len(flow.stream)
      /\ bs.buffer = Bytes(flow, bs.read, l) /\ k \in 0 .. l /\ k \in Nat
  BY DEF StreamOK, ByteStreams
<1>2. MinOf(k, l) = k
  BY <1>1 DEF MinOf
<1>3. SubSeq(bs.buffer, k + 1, l) = Bytes(flow, bs.read + k, l - k)
  <2>1. l \in k .. l /\ bs.read + l <= Len(flow.stream)
    BY <1>1
  <2>2. SubSeq(Bytes(flow, bs.read, l), k + 1, l) = Bytes(flow, bs.read + k, l - k)
    <3>1. Cuts(flow, bs.read, l)
      BY <1>1, <2>1, StreamCut, Zenon
    <3> QED
      BY <1>1, <2>1, <3>1, Zenon DEF Cuts
  <2> QED
    BY <1>1, <2>2, Zenon
<1>4. b = [bs EXCEPT !.buffer = Bytes(flow, bs.read + k, l - k), !.read = bs.read + k]
  BY <1>2, <1>3, Zenon DEF pop_output, buffer_size
<1>5. /\ Bytes(flow, bs.read + k, l - k) \in Seq(flow.byte)
      /\ Len(Bytes(flow, bs.read + k, l - k)) = l - k
      /\ bs.read + k \in Nat /\ l - k \in Nat
  <2>1. bs.read + k \in Nat /\ l - k \in Nat /\ bs.read + k + (l - k) <= Len(flow.stream)
    BY <1>1, SMTT(20)
  <2> QED
    BY <2>1, StreamBytes, Zenon
<1> HIDE DEF b, l
<1>6. /\ b \in ByteStreams(flow.byte) /\ b.buffer = Bytes(flow, bs.read + k, l - k)
      /\ b.read = bs.read + k
      /\ b.written = bs.written /\ b.capacity = bs.capacity /\ b.input_end = bs.input_end
      /\ b.error = bs.error
  BY <1>1, <1>4, <1>5, Zenon DEF ByteStreams
<1>7. Len(b.buffer) = l - k
  BY <1>5, <1>6
<1>8. b.buffer = << >> <=> k = l
  BY <1>1, <1>5, <1>6, <1>7, SMTT(30)
<1>9. StreamOK(flow, b)
  <2>1. l - k <= bs.capacity /\ bs.read + k + (l - k) = bs.written
    BY <1>1
  <2> QED
    BY <1>1, <1>6, <1>7, <2>1, Zenon DEF StreamOK
<1> QED
  BY <1>6, <1>8, <1>9 DEF b, l

\* How much fill_window may send: something if nothing is in flight, and never beyond
\* what the peer allows.
LEMMA FillSize ==
  ASSUME NEW flow, IsOutgoing(flow), NEW t, NEW e, Ready(flow, t, e)
  PROVE  /\ fill_window_size(t) \in Nat
         /\ t.bytes_in_flight = 0 => fill_window_size(t) > 0
         /\ t.next_seqno + fill_window_size(t) <= e
<1>1. /\ t.window_size \in Nat /\ t.bytes_in_flight \in Nat /\ t.next_seqno \in Nat
      /\ t.recv_ackno \in Nat /\ e \in Nat
  BY DEF Ready, Senders, Allowed
<1>2. /\ t.next_seqno - t.bytes_in_flight <= t.recv_ackno
      /\ t.next_seqno <= e /\ t.recv_ackno + t.window_size <= e /\ t.recv_ackno + 1 <= e
  BY DEF Ready, QueueOK, Allowed
<1> QED
  BY <1>1, <1>2 DEF fill_window_size, MaxOf

\* With no room fill_window does nothing, and something is in flight.
LEMMA FillNothing ==
  ASSUME NEW flow, IsOutgoing(flow), NEW t, NEW e, Ready(flow, t, e), fill_window_size(t) = 0
  PROVE  fill_window(t) = t /\ t.segments_unackno # << >>
<1>1. t \in Senders(flow)
  BY DEF Ready
<1>2. t.bytes_in_flight \in Nat /\ t.bytes_in_flight # 0 /\ t.next_seqno \in Nat
  BY <1>1, FillSize DEF Senders
<1>3. t.set_syn = TRUE
  <2>1. t.set_syn = FALSE => t.next_seqno = 0
    BY DEF Ready, Numbered
  <2>2. t.bytes_in_flight <= t.next_seqno
    BY DEF Ready, QueueOK
  <2>3. t.set_syn \in BOOLEAN
    BY <1>1 DEF Senders
  <2> QED
    BY <1>2, <2>1, <2>2, <2>3, SMTT(30)
<1>4. fill_window(t) = [t EXCEPT !.set_syn = TRUE]
  BY Zenon DEF fill_window
<1>5. fill_window(t) = t
  BY <1>1, <1>3, <1>4 DEF Senders
<1>6. t.segments_unackno # << >>
  <2>1. Tiled(flow, t.segments_unackno, t.next_seqno - t.bytes_in_flight, t.next_seqno)
    BY DEF Ready, QueueOK
  <2> QED
    BY <1>2, <2>1 DEF Tiled
<1> QED
  BY <1>5, <1>6

\* What fill_window takes (the SYN, a number of bytes, the FIN) is such a choice.
LEMMA FillParts ==
  ASSUME NEW flow, IsOutgoing(flow), NEW t, NEW e, Ready(flow, t, e), fill_window_size(t) # 0
  PROVE  \E syn, bytes, fin \in Nat : Parts(t, syn, bytes, fin)
<1> DEFINE size == fill_window_size(t)
           l == Len(t.stream.buffer)
           syn == IF t.set_syn THEN 0 ELSE 1
           ends == ~t.set_fin /\ t.stream.input_end
           bytes == MinOf(size - syn, l)
           fin == IF ends /\ bytes = l /\ syn + bytes < size THEN 1 ELSE 0
<1>1. /\ t \in Senders(flow) /\ t.set_syn \in BOOLEAN /\ t.set_fin \in BOOLEAN
      /\ t.next_seqno \in Nat
      /\ t.stream \in ByteStreams(flow.byte)
  BY DEF Ready, Senders
<1>2. t.stream.input_end \in BOOLEAN /\ l \in Nat
  BY <1>1 DEF ByteStreams
<1>3. size \in Nat /\ size # 0
  BY FillSize
<1>4. syn \in 0 .. 1 /\ (syn = 1 <=> t.set_syn = FALSE)
  BY <1>1
<1>5. filling(t) = Filling(syn, bytes, fin)
  <2>1. fin = IF /\ ~t.set_fin /\ t.stream.input_end
                 /\ bytes = buffer_size(t.stream)
                 /\ syn + bytes < size
                THEN 1 ELSE 0
    BY Zenon DEF buffer_size
  <2> QED
    BY <2>1, Zenon DEF filling, Filling, Count, buffer_size
<1>6. ends \in BOOLEAN /\ (ends <=> t.set_fin = FALSE /\ t.stream.input_end = TRUE)
  BY <1>1, <1>2
<1> HIDE DEF size, l, syn, ends
<1>7. bytes \in 0 .. l /\ syn + bytes <= size /\ (bytes < l => syn + bytes = size)
  BY <1>2, <1>3, <1>4 DEF MinOf
<1> HIDE DEF bytes
<1>8. fin \in 0 .. 1 /\ (fin = 1 => ends /\ bytes = l /\ syn + bytes < size)
  OBVIOUS
<1>9. ends /\ fin = 0 => bytes < l \/ syn + bytes = size
  BY <1>2, <1>3, <1>4, <1>6, <1>7, SMTT(30)
<1> HIDE DEF fin
<1>10. syn \in Nat /\ bytes \in Nat /\ fin \in Nat
  BY <1>2, <1>4, <1>7, <1>8
<1>11. t.next_seqno + syn + bytes + fin <= t.next_seqno + size
  BY <1>1, <1>3, <1>7, <1>8, <1>10, SMTT(30)
<1>12. /\ bytes < l => syn + bytes + fin # 0
       /\ ends /\ fin = 0 => syn + bytes + fin # 0
  BY <1>3, <1>7, <1>9, <1>10
<1>13. Parts(t, syn, bytes, fin)
  BY <1>4, <1>5, <1>6, <1>7, <1>8, <1>11, <1>12, Zenon DEF Parts, size, l
<1> QED
  BY <1>10, <1>13, SMTT(30)

\* What was sent stays so while the sender sends more.
LEMMA SentLater ==
  ASSUME NEW flow, IsOutgoing(flow), NEW t \in Senders(flow), NEW u \in Senders(flow),
         Onward(t, u), NEW seg, Sent(flow, t, seg)
  PROVE  Sent(flow, u, seg)
<1>1. /\ t.stream.read \in Nat /\ u.stream.read \in Nat /\ t.stream.read <= u.stream.read
      /\ t.set_fin \in BOOLEAN /\ u.set_syn = TRUE
      /\ t.set_fin = TRUE => u.set_fin = TRUE /\ u.stream.read = t.stream.read
  BY DEF Senders, ByteStreams, Onward, Sent
<1>2. /\ Carries(flow, seg) /\ seg.fin \in BOOLEAN /\ End(flow, seg) \in Nat
      /\ Placed(flow, seg, t.stream.read + 1, Bit(t.set_fin))
  BY SegmentNumbers, SMTT(20) DEF Sent, Carries, Segs, Segments
<1>3. CASE seg.fin = TRUE
  <2>1. Bit(t.set_fin) = 1 /\ End(flow, seg) = (t.stream.read + 1) + 1 /\ seg.rst = FALSE
    BY <1>2, <1>3, Zenon DEF Placed
  <2>2. t.set_fin = TRUE
    BY <1>1, <2>1, BitNumber, SMTT(20)
  <2>3. Bit(u.set_fin) = 1
    BY <1>1, <2>2, BitNumber
  <2> QED
    BY <1>1, <1>2, <1>3, <2>1, <2>2, <2>3 DEF Placed, Sent
<1>4. CASE seg.fin = FALSE
  <2>1. End(flow, seg) <= u.stream.read + 1 /\ seg.rst = FALSE
    BY <1>1, <1>2, <1>4 DEF Placed
  <2> QED
    BY <1>1, <1>2, <1>4, <2>1 DEF Placed, Sent
<1> QED
  BY <1>2, <1>3, <1>4, Zenon

\* Otherwise it sends the parts.
LEMMA FillSomething ==
  ASSUME NEW flow, IsOutgoing(flow), NEW t, NEW e, Ready(flow, t, e), fill_window_size(t) # 0
  PROVE  Ready(flow, fill_window(t), e) /\ Busy(fill_window(t)) /\ Advanced(t, fill_window(t))
<1>1. PICK syn \in Nat, bytes \in Nat, fin \in Nat : Parts(t, syn, bytes, fin)
  BY FillParts
<1> DEFINE u == fill_window(t)
           segs == new_segments(t, Filling(syn, bytes, fin))
           l == Len(t.stream.buffer)
           rd == t.stream.read
           n == t.next_seqno
           q == t.segments_unackno
           len == syn + bytes + fin
           b == pop_output(t.stream, bytes)
           tm == IF segs # << >> /\ ~t.timer.running THEN timer_start(t.timer) ELSE t.timer
<1>2. /\ t \in Senders(flow) /\ t.isn = flow.isn /\ t.window_size \in flow.windows \cup {1}
      /\ StreamOK(flow, t.stream)
      /\ Numbered(t) /\ QueueOK(flow, t) /\ Allowed(t, e) /\ TimerOK(flow, t) /\ SentOK(flow, t)
  BY Zenon DEF Ready
<1>3. /\ n \in Nat /\ q \in Seq(Segs(flow)) /\ t.timer \in Timers
      /\ t.segments_out \in Seq(Segs(flow))
      /\ t.bytes_in_flight \in Nat /\ t.set_fin \in BOOLEAN /\ t.set_syn \in BOOLEAN
      /\ t.recv_ackno \in Nat /\ t.window_size \in Nat
  BY <1>2 DEF Senders
<1>4. /\ l \in Nat /\ rd \in Nat /\ t.stream.buffer = Bytes(flow, rd, l)
      /\ rd + l = t.stream.written
      /\ t.stream.written \in Nat /\ rd + l <= Len(flow.stream) /\ t.stream.input_end \in BOOLEAN
      /\ t.stream.buffer \in Seq(flow.byte) /\ (t.stream.buffer = << >> => l = 0)
  BY <1>2, SMTT(30) DEF StreamOK, ByteStreams
<1>5. /\ syn \in 0 .. 1 /\ fin \in 0 .. 1 /\ bytes \in 0 .. l
      /\ n + syn + bytes + fin <= n + fill_window_size(t)
      /\ syn = 1 <=> t.set_syn = FALSE
      /\ fin = 1 => t.set_fin = FALSE /\ t.stream.input_end = TRUE /\ bytes = l
      /\ bytes < l => len # 0
      /\ t.set_fin = FALSE /\ t.stream.input_end = TRUE /\ fin = 0 => len # 0
  BY <1>1, Zenon DEF Parts
<1>6. /\ t.set_fin = TRUE => /\ len = 0 /\ bytes = 0 /\ l = 0 /\ t.stream.input_end = TRUE
                             /\ n = t.stream.written + 2
      /\ t.set_fin = FALSE => n + syn = rd + 1 /\ Sendable(flow, n, rd, syn, bytes, fin)
  <2>1. CASE t.set_fin = TRUE
    <3>1. t.set_syn = TRUE /\ l = 0 /\ t.stream.input_end = TRUE /\ n = t.stream.written + 2
      BY <1>2, <1>3, <1>4, <2>1, SMTT(30) DEF Numbered
    <3>2. syn = 0 /\ fin = 0 /\ bytes = 0
      BY <1>5, <2>1, <3>1, SMTT(20)
    <3> QED
      BY <2>1, <3>1, <3>2, SMTT(30)
  <2>2. CASE t.set_fin = FALSE
    <3>1. \/ syn = 1 /\ n = 0 /\ rd = 0
          \/ syn = 0 /\ n = rd + 1
      BY <1>2, <1>3, <1>5, <2>2, SMTT(20) DEF Numbered
    <3>2. rd + bytes <= Len(flow.stream)
      BY <1>4, <1>5, SMTT(30)
    <3> QED
      BY <1>4, <2>2, <3>1, <3>2, SMTT(30) DEF Sendable
  <2> QED
    BY <1>3, <2>1, <2>2, Zenon
<1>7. /\ Tiled(flow, segs, n, n + syn + bytes + fin) /\ (segs = << >> <=> len = 0)
      /\ \A j \in 1 .. Len(segs) : Placed(flow, segs[j], n + syn + bytes, fin)
  <2>1. CanSend(flow, n, rd, syn, bytes, fin)
    BY <1>3, <1>6, SMTT(20) DEF CanSend
  <2>2. t.isn = flow.isn /\ t.next_seqno = n /\ t.stream.buffer = Bytes(flow, rd, l)
        /\ rd + l <= Len(flow.stream)
    BY <1>2, <1>4, SMTT(20)
  <2>3. n \in Nat /\ rd \in Nat /\ l \in Nat /\ syn \in 0 .. 1 /\ bytes \in 0 .. l /\ fin \in 0 .. 1
    BY <1>3, <1>4, <1>5, SMTT(30)
  <2> HIDE DEF n, rd, l
  <2>4. Covers(flow, segs, n, syn, bytes, fin)
    BY <2>1, <2>2, <2>3, NewSegments, Zenon
  <2> QED
    BY <2>4 DEF Covers
<1>8. /\ StreamOK(flow, b) /\ b.read = rd + bytes /\ b.written = t.stream.written
      /\ b.error = t.stream.error
      /\ b.input_end = t.stream.input_end /\ (b.buffer = << >> <=> bytes = l)
  BY <1>2, <1>5, PopOutput, SMTT(30)
<1>9. /\ tm \in Timers /\ tm.init_RTO = t.timer.init_RTO /\ tm.cur_RTO = t.timer.cur_RTO
      /\ tm.running = TRUE <=> t.timer.running = TRUE \/ segs # << >>
  <2>1. t.timer.running \in BOOLEAN
    BY <1>3 DEF Timers
  <2>2. CASE segs # << >> /\ t.timer.running = FALSE
    BY <1>3, <2>2, Zenon DEF Timers, timer_start
  <2>3. CASE segs = << >> \/ t.timer.running = TRUE
    BY <1>3, <2>1, <2>3, SMTT(30) DEF Timers
  <2> QED
    BY <2>1, <2>2, <2>3, Zenon
<1>10. u = [t EXCEPT !.set_syn = TRUE, !.set_fin = t.set_fin \/ fin = 1, !.stream = b,
                     !.segments_out = t.segments_out \o segs,
                     !.segments_unackno = q \o segs,
                     !.next_seqno = n + len, !.bytes_in_flight = t.bytes_in_flight + len,
                     !.timer = tm]
  <2>1. /\ filling(t) = Filling(syn, bytes, fin) /\ filling(t).fin = fin
        /\ filling(t).bytes = bytes /\ filling(t).syn = syn
    BY <1>1 DEF Parts, Filling
  <2> QED
    BY <2>1, Zenon DEF fill_window
<1> HIDE DEF u, segs, b, tm
<1>11. segs \in Seq(Segs(flow))
  BY <1>7, SMTT(30) DEF Tiled
<1>12. /\ u \in Senders(flow) /\ u.isn = flow.isn /\ u.set_syn = TRUE
       /\ u.segments_out = t.segments_out \o segs
       /\ u.stream = b /\ u.segments_unackno = q \o segs /\ u.next_seqno = n + len
       /\ u.bytes_in_flight = t.bytes_in_flight + len /\ u.timer = tm
       /\ u.recv_ackno = t.recv_ackno /\ u.window_size = t.window_size
       /\ u.consecutive_retransmissions = t.consecutive_retransmissions
       /\ u.set_fin = TRUE <=> t.set_fin = TRUE \/ fin = 1
       /\ u.set_fin \in BOOLEAN
  <2>1. b \in ByteStreams(flow.byte)
    BY <1>8 DEF StreamOK
  <2>2. n + len \in Nat /\ t.bytes_in_flight + len \in Nat
    BY <1>3
  <2>3. t.segments_out \o segs \in Seq(Segs(flow)) /\ q \o segs \in Seq(Segs(flow))
    BY <1>3, <1>11
  <2>4. PICK fin2 \in BOOLEAN : fin2 = (t.set_fin \/ fin = 1)
    BY Zenon
  <2>5. fin2 = TRUE <=> t.set_fin = TRUE \/ fin = 1
    BY <1>3, <2>4, Zenon
  <2> HIDE DEF n, q, len
  <2> QED
    BY <1>2, <1>9, <1>10, <2>1, <2>2, <2>3, <2>4, <2>5, Zenon DEF Senders
<1>13. Numbered(u)
  <2>1. CASE t.set_fin = TRUE
    <3>1. u.set_fin = TRUE /\ u.next_seqno = n /\ bytes = l
      BY <1>3, <1>6, <1>12, <2>1
    <3> QED
      BY <1>6, <1>8, <1>12, <2>1, <3>1, SMTT(20) DEF Numbered
  <2>2. CASE t.set_fin = FALSE /\ fin = 1
    <3>1. u.set_fin = TRUE /\ bytes = l /\ t.stream.input_end = TRUE
      BY <1>5, <1>12, <2>2
    <3>2. n + syn = rd + 1
      BY <1>6, <2>2, SMTT(30)
    <3>3. n + len = t.stream.written + 2
      <4>1. n \in Nat /\ rd \in Nat /\ n + len = n + (syn + bytes + 1)
        BY <1>3, <1>4, <2>2, SMTT(30)
      <4>2. rd + bytes = t.stream.written
        BY <1>4, <3>1, SMTT(30)
      <4> HIDE DEF n, rd, len
      <4> QED
        BY <3>2, <4>1, <4>2, SMTT(30)
    <3> QED
      BY <1>8, <1>12, <3>1, <3>3, SMTT(30) DEF Numbered
  <2>3. CASE t.set_fin = FALSE /\ fin = 0
    <3>1. u.set_fin = FALSE
      BY <1>12, <2>3, SMTT(20)
    <3>2. n + syn = rd + 1
      BY <1>6, <2>3, SMTT(30)
    <3>3. n + len = (rd + bytes) + 1
      <4>1. n \in Nat /\ rd \in Nat /\ n + len = n + (syn + bytes + 0)
        BY <1>3, <1>4, <2>3, SMTT(20)
      <4> HIDE DEF n, rd, len
      <4> QED
        BY <3>2, <4>1, SMTT(20)
    <3> QED
      BY <1>8, <1>12, <3>1, <3>3, SMTT(30) DEF Numbered
  <2>4. fin = 0 \/ fin = 1
    BY <1>5
  <2> QED
    BY <1>3, <2>1, <2>2, <2>3, <2>4, Zenon
<1>15. Allowed(u, e)
  <2>1. n + len <= e
    <3>1. fill_window_size(t) \in Nat /\ n + fill_window_size(t) <= e
      BY FillSize
    <3> QED
      BY <1>2, <1>3, <1>5, <3>1, SMTT(30) DEF Allowed
  <2> QED
    BY <1>2, <1>12, <2>1, SMTT(20) DEF Allowed
<1>16. q \o segs # << >> <=> q # << >> \/ segs # << >>
  BY <1>3, <1>11, SMTT(30)
<1>14. QueueOK(flow, u)
  <2>1. /\ t.bytes_in_flight <= n /\ n - t.bytes_in_flight <= t.recv_ackno /\ t.recv_ackno <= n
        /\ Tiled(flow, q, n - t.bytes_in_flight, n) /\ (q # << >> => t.recv_ackno < n)
    BY <1>2, SMTT(20) DEF QueueOK
  <2>2. Tiled(flow, q \o segs, n - t.bytes_in_flight, n + syn + bytes + fin)
    BY <1>7, <2>1, TiledConcat, SMTT(30)
  <2>3. /\ n + syn + bytes + fin = n + len
        /\ (n + len) - (t.bytes_in_flight + len) = n - t.bytes_in_flight
        /\ t.bytes_in_flight + len <= n + len /\ t.recv_ackno <= n + len
    BY <1>3, <2>1, SMTT(30)
  <2>4. len \in Nat /\ (q \o segs # << >> => q # << >> \/ len # 0)
    BY <1>7, <1>16
  <2>5. q \o segs # << >> => t.recv_ackno < n + len
    <3>1. t.recv_ackno \in Nat /\ n \in Nat /\ t.recv_ackno <= n
      BY <1>3, <2>1
    <3> HIDE DEF n, q, len
    <3> QED
      BY <2>1, <2>4, <3>1
  <2> HIDE DEF n, q, len
  <2> QED
    BY <1>12, <2>1, <2>2, <2>3, <2>5, Zenon DEF QueueOK
<1>17. TimerOK(flow, u)
  BY <1>2, <1>9, <1>12, <1>16, Zenon DEF TimerOK
<1>18. Busy(u)
  <2>1. SUFFICES ASSUME u.stream.buffer # << >> \/ (u.stream.input_end = TRUE /\ u.set_fin = FALSE)
                 PROVE  len # 0
    BY <1>7, <1>12, <1>16, Zenon DEF Busy
  <2>2. CASE u.stream.buffer # << >>
    BY <1>4, <1>5, <1>8, <1>12, <2>2, SMTT(30)
  <2>3. CASE u.stream.input_end = TRUE /\ u.set_fin = FALSE
    <3>1. fin = 0 \/ fin = 1
      BY <1>5
    <3>2. t.set_fin = FALSE /\ fin = 0 /\ t.stream.input_end = TRUE
      BY <1>3, <1>8, <1>12, <2>3, <3>1, SMTT(30)
    <3> QED
      BY <1>5, <3>2, SMTT(30)
  <2> QED
    BY <2>1, <2>2, <2>3, Zenon
<1>19. Advanced(t, u)
  <2>1. rd <= rd + bytes /\ n <= n + len
    BY <1>3, <1>4, SMTT(20)
  <2>2. t.set_fin = TRUE => rd + bytes = rd
    BY <1>4, <1>6
  <2> HIDE DEF n, rd, len
  <2> QED
    BY <1>8, <1>12, <2>1, <2>2, Zenon DEF Advanced, Onward, n, rd
<1>20. SentOK(flow, u)
  <2>1. ASSUME NEW j \in 1 .. Len(segs)
        PROVE  Sent(flow, u, segs[j])
    <3>1. segs # << >>
      BY <1>11, SMTT(20)
    <3>2. t.set_fin = FALSE
      BY <1>3, <1>6, <1>7, <3>1, SMTT(20)
    <3>3. (rd + bytes) + 1 = n + syn + bytes
      <4>1. n + syn = rd + 1 /\ n \in Nat /\ rd \in Nat
        BY <1>3, <1>4, <1>6, <3>2, Zenon
      <4> HIDE DEF n, rd
      <4> QED
        BY <4>1, SMTT(20)
    <3>4. Bit(u.set_fin) = fin
      BY <1>5, <1>12, <3>2, BitNumber, SMTT(20)
    <3>5. Carries(flow, segs[j]) /\ Placed(flow, segs[j], n + syn + bytes, fin)
      BY <1>7 DEF Tiled
    <3> QED
      BY <1>8, <1>12, <3>3, <3>4, <3>5, Zenon DEF Sent
  <2>2. ASSUME NEW seg, Sent(flow, t, seg)
        PROVE  Sent(flow, u, seg)
    BY <1>2, <1>12, <1>19, <2>2, SentLater, Zenon DEF Advanced
  <2>3. \A j \in 1 .. Len(q \o segs) : Sent(flow, u, (q \o segs)[j])
    <3> DEFINE P(seg) == Sent(flow, u, seg)
    <3>1. \A j \in 1 .. Len(q) : P(q[j])
      BY <1>2, <2>2 DEF SentOK
    <3>2. \A j \in 1 .. Len(segs) : P(segs[j])
      BY <2>1, SMTT(20)
    <3> HIDE DEF P, q
    <3>3. \A j \in 1 .. Len(q \o segs) : P((q \o segs)[j])
      BY <1>3, <1>11, <3>1, <3>2, SMTT(20)
    <3> QED
      BY <3>3 DEF P
  <2> DEFINE P(seg) == Sent(flow, u, seg) \/ Answer(flow, seg)
             out == t.segments_out
  <2>4. \A j \in 1 .. Len(out \o segs) : P((out \o segs)[j])
    <3>1. \A j \in 1 .. Len(out) : P(out[j])
      BY <1>2, <2>2 DEF SentOK
    <3>2. \A j \in 1 .. Len(segs) : P(segs[j])
      BY <2>1
    <3>3. out \in Seq(Segs(flow))
      BY <1>3
    <3> HIDE DEF P, out
    <3> QED
      BY <1>11, <3>1, <3>2, <3>3
  <2> QED
    BY <1>12, <2>3, <2>4, Zenon DEF SentOK
<1> QED
  BY <1>2, <1>8, <1>12, <1>13, <1>14, <1>15, <1>17, <1>18, <1>19, <1>20, Zenon DEF Ready, u

\* Whatever the window, fill_window keeps the invariant and leaves nothing waiting.
LEMMA FillWindow ==
  ASSUME NEW flow, IsOutgoing(flow), NEW t, NEW e, Ready(flow, t, e)
  PROVE  Ready(flow, fill_window(t), e) /\ Busy(fill_window(t)) /\ Advanced(t, fill_window(t))
<1>1. CASE fill_window_size(t) = 0
  <2>1. fill_window(t) = t /\ t.segments_unackno # << >>
    BY <1>1, FillNothing
  <2>2. t.stream.read \in Nat /\ t.next_seqno \in Nat
    BY DEF Ready, Senders, ByteStreams
  <2> QED
    BY <2>1, <2>2 DEF Busy, Advanced, Onward
<1>2. CASE fill_window_size(t) # 0
  BY <1>2, FillSomething
<1> QED
  BY <1>1, <1>2, SMTT(20)

-------------------------------------------------------------------------------
(***************************************************************************)
(* ack_received                                                            *)
(***************************************************************************)
\* The numbers in use stay within the limit.
LEMMA NextWithinLimit ==
  ASSUME NEW flow, IsOutgoing(flow), NEW t, NEW e, Ready(flow, t, e)
  PROVE  t.next_seqno \in Nat /\ t.next_seqno <= Limit(flow)
<1>1. /\ t.next_seqno \in Nat /\ t.set_syn \in BOOLEAN /\ t.set_fin \in BOOLEAN
      /\ t.stream.read \in Nat /\ t.stream.written \in Nat /\ Len(t.stream.buffer) \in Nat
      /\ t.stream.read + Len(t.stream.buffer) = t.stream.written
      /\ t.stream.written <= Len(flow.stream)
  BY SMTT(20) DEF Ready, Senders, StreamOK, ByteStreams
<1>2. t.next_seqno = 0 \/ t.next_seqno = t.stream.read + 1 \/ t.next_seqno = t.stream.written + 2
  BY <1>1 DEF Ready, Numbered
<1>3. ASSUME NEW n \in Nat, NEW r \in Nat, NEW l \in Nat, NEW w \in Nat,
             r + l = w, w <= Len(flow.stream), n = 0 \/ n = r + 1 \/ n = w + 2
      PROVE  n <= Limit(flow)
  BY <1>3, Constants, SMTT(20)
<1> QED
  BY <1>1, <1>2, <1>3, Zenon

\* The numbers the code recovers for a queued segment
LEMMA QueuedNumbers ==
  ASSUME NEW flow, IsOutgoing(flow), NEW t, NEW e, Ready(flow, t, e),
         NEW j \in 1 .. Len(t.segments_unackno)
  PROVE  LET seg == t.segments_unackno[j]
         IN  /\ segment_start(t, seg) = Start(flow, seg) /\ segment_end(t, seg) = End(flow, seg)
             /\ Start(flow, seg) \in Nat /\ End(flow, seg) \in Nat /\ Carries(flow, seg)
<1>1. Carries(flow, t.segments_unackno[j]) /\ t.isn = flow.isn
  BY SMTT(20) DEF Ready, QueueOK, Tiled
<1>2. t.next_seqno \in Nat /\ t.next_seqno <= Limit(flow)
  BY NextWithinLimit, SMTT(20)
<1> QED
  BY <1>1, <1>2, SegmentNumbers, SMTT(20) DEF segment_start, segment_end, End

\* The loop over the queue stops at the first segment that is not acknowledged in full.
LEMMA AckedCount ==
  ASSUME NEW flow, IsOutgoing(flow), NEW t, NEW e, Ready(flow, t, e), NEW abs \in Nat
  PROVE  LET n == acked_count(t, abs)
             q == t.segments_unackno
         IN  /\ n \in 0 .. Len(q)
             /\ \A j \in 1 .. n : End(flow, q[j]) <= abs
             /\ n < Len(q) => End(flow, q[n + 1]) > abs
<1> DEFINE q == t.segments_unackno
           T == {j \in Nat : j \in 1 .. Len(q) /\ End(flow, q[j]) > abs}
           P(n) == /\ \A j \in 1 .. n : segment_end(t, q[j]) <= abs
                   /\ n < Len(q) => segment_end(t, q[n + 1]) > abs
<1>1. Len(q) \in Nat
  BY DEF Ready, QueueOK, Tiled
<1>2. \A j \in 1 .. Len(q) : segment_end(t, q[j]) = End(flow, q[j]) /\ End(flow, q[j]) \in Nat
  BY QueuedNumbers
<1> HIDE DEF q
<1>3. \E n \in 0 .. Len(q) : P(n)
  <2>1. CASE T = {}
    <3>1. \A j \in 1 .. Len(q) : End(flow, q[j]) <= abs
      BY <1>1, <1>2, <2>1
    <3>2. P(Len(q))
      BY <1>1, <1>2, <3>1
    <3> QED
      BY <1>1, <3>2
  <2>2. CASE T # {}
    <3>1. T \subseteq Nat
      OBVIOUS
    <3>2. PICK g \in T : \A h \in T : g <= h
      BY <2>2, <3>1, LeastNumber, Zenon
    <3>3. g - 1 \in 0 .. Len(q) /\ (g - 1) + 1 = g /\ g \in 1 .. Len(q) /\ End(flow, q[g]) > abs
      BY <1>1, <3>2
    <3>4. ASSUME NEW j \in 1 .. g - 1 PROVE End(flow, q[j]) <= abs
      <4>1. j \in Nat /\ j \in 1 .. Len(q) /\ ~(g <= j)
        BY <1>1, <3>3
      <4>2. j \notin T
        BY <3>2, <4>1
      <4> QED
        BY <1>2, <4>1, <4>2
    <3>5. P(g - 1)
      BY <1>1, <1>2, <3>3, <3>4
    <3> QED
      BY <3>3, <3>5, Zenon
  <2> QED
    BY <2>1, <2>2
<1>4. acked_count(t, abs) = CHOOSE n \in 0 .. Len(q) : P(n)
  BY DEF acked_count, q
<1>5. acked_count(t, abs) \in 0 .. Len(q) /\ P(acked_count(t, abs))
  <2> HIDE DEF P
  <2> QED
    BY <1>3, <1>4
<1>6. ASSUME NEW j \in 1 .. acked_count(t, abs) PROVE End(flow, q[j]) <= abs
  <2>1. j \in 1 .. Len(q)
    BY <1>1, <1>5
  <2> QED
    BY <1>2, <1>5, <2>1
<1>7. ASSUME acked_count(t, abs) < Len(q)
      PROVE  End(flow, q[acked_count(t, abs) + 1]) > abs
  <2>1. acked_count(t, abs) + 1 \in 1 .. Len(q)
    BY <1>1, <1>5, <1>7
  <2> QED
    BY <1>2, <1>5, <1>7, <2>1, SMTT(20)
<1> QED
  BY <1>5, <1>6, <1>7 DEF q

\* The queue that is left covers what is not acknowledged in full.
LEMMA AckedQueue ==
  ASSUME NEW flow, IsOutgoing(flow), NEW t, NEW e, Ready(flow, t, e), NEW abs \in Nat,
         t.recv_ackno <= abs, abs <= t.next_seqno
  PROVE  LET n == acked_count(t, abs)
             q == t.segments_unackno
             d == NextStart(flow, q, n, t.next_seqno)
         IN  /\ Tiled(flow, SubSeq(q, n + 1, Len(q)), d, t.next_seqno)
             /\ SubSeq(q, n + 1, Len(q)) = << >> <=> n = Len(q)
             /\ d \in Nat /\ d <= abs
             /\ t.bytes_in_flight - acked_length(t, n) = t.next_seqno - d
             /\ SubSeq(q, n + 1, Len(q)) # << >> => abs < t.next_seqno
<1> DEFINE n == acked_count(t, abs)
           q == t.segments_unackno
           d == NextStart(flow, q, n, t.next_seqno)
           a == t.next_seqno - t.bytes_in_flight
<1>1. /\ t.next_seqno \in Nat /\ t.bytes_in_flight \in Nat /\ t.recv_ackno \in Nat
      /\ t.bytes_in_flight <= t.next_seqno /\ a <= t.recv_ackno /\ Tiled(flow, q, a, t.next_seqno)
      /\ Len(q) \in Nat
  <2>1. t \in Senders(flow) /\ QueueOK(flow, t)
    BY Zenon DEF Ready
  <2>2. q \in Seq(Segs(flow)) /\ t.next_seqno \in Nat /\ t.bytes_in_flight \in Nat
        /\ t.recv_ackno \in Nat
    BY <2>1 DEF Senders
  <2>3. Len(q) \in Nat
    BY <2>2, SMTT(20)
  <2> QED
    BY <2>1, <2>2, <2>3, Zenon DEF QueueOK
<1>2. /\ n \in 0 .. Len(q) /\ \A j \in 1 .. n : End(flow, q[j]) <= abs
      /\ n < Len(q) => End(flow, q[n + 1]) > abs
  BY AckedCount, SMTT(20)
<1> HIDE DEF n
<1>7. n # Len(q) => abs < t.next_seqno
  <2>1. SUFFICES ASSUME n # Len(q) PROVE abs < t.next_seqno
    BY Zenon
  <2>2. n < Len(q) /\ n + 1 \in 1 .. Len(q)
    BY <1>1, <1>2, <2>1, SMTT(20)
  <2>3. Carries(flow, q[n + 1])
    BY <1>1, <2>2 DEF Tiled
  <2>4. PICK x \in Nat : x = End(flow, q[n + 1])
    BY <2>3, SegmentNumbers, SMTT(20)
  <2>5. x > abs /\ x <= t.next_seqno
    BY <1>1, <1>2, <2>2, <2>4, TiledEnds, Zenon
  <2> QED
    BY <1>1, <2>5, SMTT(20)
<1>3. /\ Tiled(flow, SubSeq(q, n + 1, Len(q)), d, t.next_seqno)
      /\ n = 0 => d = a
      /\ n > 0 => d = End(flow, q[n]) /\ Start(flow, q[1]) = a
      /\ SubSeq(q, n + 1, Len(q)) = << >> <=> n = Len(q)
  BY <1>1, <1>2, TiledSuffix, Zenon
<1>4. CASE n = 0
  <2>1. d = a /\ acked_length(t, n) = 0
    BY <1>3, <1>4, SMTT(20) DEF acked_length
  <2> HIDE DEF d
  <2>2. d \in Nat /\ d <= abs /\ t.bytes_in_flight - acked_length(t, n) = t.next_seqno - d
    BY <1>1, <2>1, SMTT(30)
  <2> QED
    BY <1>3, <1>7, <2>2, SMTT(20) DEF n, d
<1>5. CASE n > 0
  <2>1. n \in 1 .. Len(q) /\ n \in 1 .. n /\ 1 \in 1 .. Len(q) /\ n # 0
    BY <1>1, <1>2, <1>5
  <2>2. segment_end(t, q[n]) = End(flow, q[n]) /\ End(flow, q[n]) \in Nat
    BY <2>1, QueuedNumbers, SMTT(20)
  <2>3. segment_start(t, q[1]) = Start(flow, q[1])
    BY <2>1, QueuedNumbers, SMTT(20)
  <2>4. d = End(flow, q[n]) /\ Start(flow, q[1]) = a
    BY <1>3, <1>5, SMTT(20)
  <2>5. acked_length(t, n) = d - a
    BY <2>1, <2>2, <2>3, <2>4, Zenon DEF acked_length
  <2>6. d <= abs /\ d \in Nat
    BY <1>2, <2>1, <2>2, <2>4, SMTT(20)
  <2> HIDE DEF d
  <2>7. t.bytes_in_flight - (d - a) = t.next_seqno - d
    BY <1>1, <2>6, SMTT(30)
  <2> QED
    BY <1>3, <1>7, <2>5, <2>6, <2>7, SMTT(20) DEF n, d
<1>6. n = 0 \/ n > 0
  BY <1>1, <1>2
<1> QED
  BY <1>4, <1>5, <1>6

\* The loop of ack_received and the assignments around it keep the invariant.
LEMMA AckedReady ==
  ASSUME NEW flow, IsOutgoing(flow), NEW t, NEW e, Ready(flow, t, e), NEW abs \in Nat,
         NEW win \in flow.windows,
         t.recv_ackno <= abs, abs <= t.next_seqno
  PROVE  StaysReady(flow, t, e, abs, win)
<1> DEFINE n == acked_count(t, abs)
           q == t.segments_unackno
           r == SubSeq(q, n + 1, Len(q))
           d == NextStart(flow, q, n, t.next_seqno)
           fl == t.bytes_in_flight - acked_length(t, n)
           tm == IF n > 0 THEN timer_start(timer_reset(t.timer)) ELSE t.timer
           cr == IF n > 0 THEN 0 ELSE t.consecutive_retransmissions
           tn == IF r = << >> THEN timer_stop(tm) ELSE tm
           u == Acked(t, abs, win)
           e2 == MaxOf(e, abs + MaxOf(win, 1))
<1>1. /\ t \in Senders(flow) /\ t.isn = flow.isn /\ StreamOK(flow, t.stream) /\ Numbered(t)
      /\ Allowed(t, e) /\ TimerOK(flow, t) /\ SentOK(flow, t)
  BY Zenon DEF Ready
<1>2. /\ t.next_seqno \in Nat /\ t.timer \in Timers /\ t.consecutive_retransmissions \in Nat
      /\ q \in Seq(Segs(flow)) /\ Len(q) \in Nat /\ win \in Nat
  <2>1. /\ t.next_seqno \in Nat /\ t.timer \in Timers /\ t.consecutive_retransmissions \in Nat
        /\ q \in Seq(Segs(flow))
    BY <1>1 DEF Senders
  <2>2. Len(q) \in Nat
    BY <2>1, SMTT(20)
  <2>3. win \in Nat
    BY Constants, ZenonT(40)
  <2> QED
    BY <2>1, <2>2, <2>3, Zenon
<1>3. n \in 0 .. Len(q)
  BY AckedCount, SMTT(20)
<1>4. /\ Tiled(flow, r, d, t.next_seqno) /\ (r = << >> <=> n = Len(q)) /\ d \in Nat /\ d <= abs
      /\ fl = t.next_seqno - d /\ (r # << >> => abs < t.next_seqno)
  BY AckedQueue, SMTT(20)
<1>5. u = [t EXCEPT !.recv_ackno = abs, !.segments_unackno = r, !.bytes_in_flight = fl,
                    !.consecutive_retransmissions = cr, !.timer = tn, !.window_size = win]
  BY Zenon DEF Acked
<1> HIDE DEF n, r, d, fl, u
<1>6. fl \in Nat /\ fl <= t.next_seqno /\ t.next_seqno - fl = d
  BY <1>2, <1>4, SMTT(30)
<1>7. r \in Seq(Segs(flow))
  BY <1>4 DEF Tiled
<1>8. /\ tm \in Timers /\ tm.init_RTO = flow.rto /\ cr \in Nat /\ tm.cur_RTO = flow.rto * Pow2[cr]
      /\ n > 0 => tm.running = TRUE
      /\ n = 0 => tm.running = t.timer.running
  <2>1. t.timer.init_RTO = flow.rto
        /\ t.timer.cur_RTO = flow.rto * Pow2[t.consecutive_retransmissions]
    BY <1>1, SMTT(20) DEF TimerOK
  <2>2. CASE n > 0
    <3>1. tm = timer_start(timer_reset(t.timer)) /\ cr = 0 /\ n # 0
      BY <1>2, <1>3, <2>2
    <3>2. timer_reset(t.timer) \in Timers /\ timer_reset(t.timer).init_RTO = flow.rto
          /\ timer_reset(t.timer).cur_RTO = flow.rto
      BY <1>2, <2>1, SMTT(20) DEF timer_reset, Timers
    <3> HIDE DEF tm, cr
    <3>3. tm \in Timers /\ tm.init_RTO = flow.rto /\ tm.cur_RTO = flow.rto /\ tm.running = TRUE
      BY <3>1, <3>2, Zenon DEF timer_start, Timers
    <3>4. flow.rto * Pow2[cr] = flow.rto
      <4>1. PICK x \in Nat : x = flow.rto
        BY Constants, SMTT(20)
      <4>2. Pow2[cr] = 1
        BY <3>1, Powers
      <4>3. x * 1 = x
        BY <4>1
      <4> QED
        BY <4>1, <4>2, <4>3, Zenon
    <3> QED
      BY <3>1, <3>3, <3>4
  <2>3. CASE ~(n > 0)
    <3>1. tm = t.timer /\ cr = t.consecutive_retransmissions
      BY <2>3
    <3> QED
      BY <1>2, <2>1, <2>3, <3>1
  <2> QED
    BY <2>2, <2>3, Zenon
<1> HIDE DEF tm, cr
<1>9. /\ tn \in Timers /\ tn.init_RTO = flow.rto /\ tn.cur_RTO = flow.rto * Pow2[cr]
      /\ tn.running = TRUE <=> r # << >>
  <2>1. CASE r = << >>
    BY <1>8, <2>1, Zenon DEF timer_stop, Timers
  <2>2. CASE r # << >>
    <3>1. tn = tm
      BY <2>2, SMTT(20)
    <3>2. tm.running = TRUE
      <4>1. CASE n = 0
        <5>1. q # << >>
          BY <1>2, <1>4, <2>2, <4>1, SMTT(20)
        <5> QED
          BY <1>1, <1>8, <4>1, <5>1 DEF TimerOK
      <4>2. CASE n # 0
        BY <1>2, <1>3, <1>8, <4>2
      <4> QED
        BY <4>1, <4>2, Zenon
    <3> QED
      BY <1>8, <2>2, <3>1, <3>2
  <2> QED
    BY <2>1, <2>2, Zenon
<1> HIDE DEF tn
<1>10. /\ u \in Senders(flow) /\ u.isn = flow.isn /\ u.stream = t.stream /\ u.set_syn = t.set_syn
       /\ u.set_fin = t.set_fin /\ u.next_seqno = t.next_seqno /\ u.recv_ackno = abs
       /\ u.segments_unackno = r /\ u.bytes_in_flight = fl /\ u.window_size = win
       /\ u.consecutive_retransmissions = cr /\ u.timer = tn
       /\ u.segments_out = t.segments_out
  BY <1>1, <1>2, <1>5, <1>6, <1>7, <1>8, <1>9, Zenon DEF Senders
<1>11. Numbered(u)
  BY <1>1, <1>10, Zenon DEF Numbered
<1>12. QueueOK(flow, u)
  BY <1>4, <1>6, <1>10, SMTT(20) DEF QueueOK
<1>13. Allowed(u, e2)
  <2>1. e \in Nat /\ t.next_seqno <= e
    BY <1>1 DEF Allowed
  <2>2. e2 \in Nat /\ t.next_seqno <= e2 /\ abs + win <= e2 /\ abs + 1 <= e2
    BY <1>2, <2>1 DEF MaxOf
  <2> HIDE DEF e2
  <2> QED
    BY <1>10, <2>2 DEF Allowed
<1>14. TimerOK(flow, u)
  BY <1>9, <1>10, Zenon DEF TimerOK
<1>15. Onward(t, u)
  <2>1. t.stream.read \in Nat
    BY <1>1 DEF StreamOK, ByteStreams
  <2>2. t.stream.read <= t.stream.read /\ t.next_seqno <= t.next_seqno
    BY <1>2, <2>1
  <2> QED
    BY <1>10, <2>2, Zenon DEF Onward
<1>16. SentOK(flow, u)
  <2>1. ASSUME NEW seg, Sent(flow, t, seg)
        PROVE  Sent(flow, u, seg)
    BY <1>1, <1>10, <1>15, <2>1, SentLater, Zenon
  <2>2. ASSUME NEW j \in 1 .. Len(r)
        PROVE  Sent(flow, t, r[j])
    <3>1. n + j \in 1 .. Len(q) /\ r[j] = q[n + j]
      BY <1>2, <1>3, SMTT(30) DEF r
    <3> QED
      BY <1>1, <3>1, Zenon DEF SentOK
  <2> HIDE DEF q
  <2> QED
    BY <1>1, <1>10, <2>1, <2>2, Zenon DEF SentOK
<1>17. u.window_size \in flow.windows \cup {1}
  BY <1>10, Zenon
<1>18. StreamOK(flow, u.stream)
  BY <1>1, <1>10, Zenon
<1>19. Ready(flow, u, e2)
  BY <1>10, <1>11, <1>12, <1>13, <1>14, <1>16, <1>17, <1>18, Zenon DEF Ready
<1> QED
  BY <1>10, <1>15, <1>19, Zenon DEF StaysReady, u

-------------------------------------------------------------------------------
(***************************************************************************)
(* The other calls                                                         *)
(***************************************************************************)
\* A change of the stream that leaves what was read alone, and all of it once the FIN has
\* been sent, does not disturb the rest.
LEMMA NewStream ==
  ASSUME NEW flow, IsOutgoing(flow), NEW t, NEW e, Ready(flow, t, e),
         NEW bs, StreamOK(flow, bs), bs.read = t.stream.read,
         \/ t.stream.input_end = FALSE
         \/ /\ bs.input_end = t.stream.input_end /\ bs.buffer = t.stream.buffer
            /\ bs.written = t.stream.written
  PROVE  Ready(flow, [t EXCEPT !.stream = bs], e)
<1> DEFINE u == [t EXCEPT !.stream = bs]
<1>1. t \in Senders(flow) /\ bs \in ByteStreams(flow.byte)
  BY DEF Ready, StreamOK
<1>2. /\ u \in Senders(flow) /\ u.isn = t.isn /\ u.stream = bs /\ u.set_syn = t.set_syn
      /\ u.set_fin = t.set_fin /\ u.next_seqno = t.next_seqno /\ u.recv_ackno = t.recv_ackno
      /\ u.segments_unackno = t.segments_unackno /\ u.bytes_in_flight = t.bytes_in_flight
      /\ u.window_size = t.window_size /\ u.timer = t.timer /\ u.segments_out = t.segments_out
      /\ u.consecutive_retransmissions = t.consecutive_retransmissions
  BY <1>1, ZenonT(40) DEF Senders
<1> HIDE DEF u
<1>3. Numbered(u)
  <2>1. CASE t.stream.input_end = FALSE
    <3>1. t.set_fin # TRUE
      BY <2>1, Zenon DEF Ready, Numbered
    <3> QED
      BY <1>2, <3>1 DEF Ready, Numbered
  <2>2. CASE /\ bs.input_end = t.stream.input_end /\ bs.buffer = t.stream.buffer
             /\ bs.written = t.stream.written
    BY <1>2, <2>2, Zenon DEF Ready, Numbered
  <2> QED
    BY <2>1, <2>2, ZenonT(40)
<1>4. QueueOK(flow, u)
  BY <1>2, Zenon DEF Ready, QueueOK
<1>5. Allowed(u, e)
  BY <1>2, Zenon DEF Ready, Allowed
<1>6. TimerOK(flow, u)
  BY <1>2, Zenon DEF Ready, TimerOK
<1>7. SentOK(flow, u)
  BY <1>2, Zenon DEF Ready, SentOK, Sent
<1>8. Ready(flow, u, e)
  BY <1>2, <1>3, <1>4, <1>5, <1>6, <1>7, Zenon DEF Ready
<1> QED
  BY <1>8 DEF u

\* A sender that differs only in its timer, its counter and the segments it puts out is
\* ready if these are in order.
LEMMA SameReady ==
  ASSUME NEW flow, IsOutgoing(flow), NEW t, NEW e, Ready(flow, t, e),
         NEW u \in Senders(flow), SameNumbers(t, u), u.stream = t.stream, TimerOK(flow, u),
         \A j \in 1 .. Len(u.segments_out) :
           Sent(flow, t, u.segments_out[j]) \/ Answer(flow, u.segments_out[j])
  PROVE  /\ Ready(flow, u, e) /\ Onward(t, u)
         /\ Busy(t) => Busy(u)
<1>1. Numbered(u)
  BY Zenon DEF Ready, Numbered, SameNumbers
<1>2. QueueOK(flow, u)
  BY Zenon DEF Ready, QueueOK, SameNumbers
<1>3. Allowed(u, e)
  BY Zenon DEF Ready, Allowed, SameNumbers
<1>4. ASSUME NEW seg, Sent(flow, t, seg) PROVE Sent(flow, u, seg)
  BY <1>4, Zenon DEF Sent, SameNumbers
<1>5. SentOK(flow, u)
  BY <1>4, Zenon DEF Ready, SentOK, SameNumbers
<1>6. Busy(t) => Busy(u)
  BY ZenonT(40) DEF Busy, SameNumbers
<1>7. Onward(t, u)
  <2>1. t.stream.read \in Nat /\ t.next_seqno \in Nat
    BY DEF Ready, Senders, ByteStreams
  <2>2. t.stream.read <= t.stream.read /\ t.next_seqno <= t.next_seqno
    BY <2>1
  <2> QED
    BY <2>2, Zenon DEF Onward, SameNumbers
<1>8. Ready(flow, u, e)
  BY <1>1, <1>2, <1>3, <1>5, Zenon DEF Ready, SameNumbers
<1> QED
  BY <1>6, <1>7, <1>8

\* One sender after another
LEMMA OnwardOnward ==
  ASSUME NEW flow, NEW t \in Senders(flow), NEW u \in Senders(flow), NEW v \in Senders(flow),
         Onward(t, u), Onward(u, v)
  PROVE  Onward(t, v)
<1>1. /\ t.stream.read \in Nat /\ u.stream.read \in Nat /\ v.stream.read \in Nat
      /\ t.next_seqno \in Nat /\ u.next_seqno \in Nat /\ v.next_seqno \in Nat
  <2>1. ASSUME NEW x \in Senders(flow)
        PROVE  x.stream.read \in Nat /\ x.next_seqno \in Nat
    <3>1. x.stream \in ByteStreams(flow.byte) /\ x.next_seqno \in Nat
      BY <2>1 DEF Senders
    <3> QED
      BY <3>1, SMTT(20) DEF ByteStreams
  <2> QED
    BY <2>1, Zenon
<1>2. t.stream.read <= v.stream.read /\ t.next_seqno <= v.next_seqno
  <2>1. ASSUME NEW a \in Nat, NEW b \in Nat, NEW c \in Nat, a <= b, b <= c
        PROVE  a <= c
    BY <2>1, SMTT(20)
  <2> QED
    BY <1>1, <2>1, Zenon DEF Onward
<1> QED
  BY <1>2, ZenonT(40) DEF Onward

\* The connection takes the segments out.
LEMMA Taken ==
  ASSUME NEW flow, IsOutgoing(flow), NEW t, NEW e, Ready(flow, t, e)
  PROVE  LET u == [t EXCEPT !.segments_out = << >>]
         IN  /\ Ready(flow, u, e) /\ Onward(t, u) /\ SameNumbers(t, u) /\ u.stream = t.stream
             /\ u.consecutive_retransmissions = t.consecutive_retransmissions
             /\ u.segments_out = << >>
             /\ Busy(t) => Busy(u)
<1> DEFINE u == [t EXCEPT !.segments_out = << >>]
<1>1. t \in Senders(flow) /\ << >> \in Seq(Segs(flow)) /\ Len(<< >>) = 0
  BY DEF Ready
<1>2. /\ u \in Senders(flow) /\ u.isn = t.isn /\ u.stream = t.stream /\ u.set_syn = t.set_syn
      /\ u.set_fin = t.set_fin /\ u.next_seqno = t.next_seqno /\ u.recv_ackno = t.recv_ackno
      /\ u.segments_unackno = t.segments_unackno /\ u.bytes_in_flight = t.bytes_in_flight
      /\ u.window_size = t.window_size /\ u.timer = t.timer /\ u.segments_out = << >>
      /\ u.consecutive_retransmissions = t.consecutive_retransmissions
  BY <1>1, Zenon DEF Senders
<1> HIDE DEF u
<1>3. SameNumbers(t, u)
  BY <1>2, Zenon DEF SameNumbers
<1>4. TimerOK(flow, u)
  BY <1>2, Zenon DEF Ready, TimerOK
<1>5. ASSUME NEW j \in 1 .. Len(u.segments_out) PROVE FALSE
  BY <1>1, <1>2
<1>6. Ready(flow, u, e) /\ Onward(t, u) /\ (Busy(t) => Busy(u))
  BY <1>2, <1>3, <1>4, <1>5, SameReady, Zenon
<1> QED
  BY <1>2, <1>3, <1>6, Zenon DEF u

\* send_empty_segment puts an answer out.
LEMMA Answered ==
  ASSUME NEW flow, IsOutgoing(flow), NEW t, NEW e, Ready(flow, t, e)
  PROVE  LET u == send_empty_segment(t)
         IN  /\ Ready(flow, u, e) /\ Onward(t, u) /\ SameNumbers(t, u) /\ u.stream = t.stream
             /\ u.consecutive_retransmissions = t.consecutive_retransmissions
             /\ Busy(t) => Busy(u)
<1> DEFINE s == wrap(t.next_seqno, t.isn)
           seg == EmptySegment(s)
           out == Append(t.segments_out, seg)
           u == [t EXCEPT !.segments_out = out]
<1>1. /\ t \in Senders(flow) /\ t.segments_out \in Seq(Segs(flow)) /\ t.isn = flow.isn
      /\ SentOK(flow, t)
  BY Zenon DEF Ready, Senders
<1>2. s \in WrappingInt32
  <2>1. PICK l \in Nat : t.next_seqno \in Nat /\ t.next_seqno <= l /\ l < SeqMod
    BY NextWithinLimit, StreamLimit, SMTT(20)
  <2>2. t.next_seqno \in Nat /\ t.next_seqno < SeqMod
    BY <2>1, Modulus
  <2> QED
    BY <1>1, <2>2, WrapStart, SMTT(20)
<1> HIDE DEF s
<1>3. Answer(flow, seg)
  <2>1. 0 \in WrappingInt32
    BY SeqModAssumption DEF WrappingInt32
  <2> QED
    BY <1>2, <2>1 DEF Answer, EmptySegment, Segs, Segments
<1> HIDE DEF seg
<1>4. seg \in Segs(flow)
  BY <1>3 DEF Answer
<1>5. /\ out \in Seq(Segs(flow)) /\ Len(out) = Len(t.segments_out) + 1
      /\ \A j \in 1 .. Len(out) :
           (j \in 1 .. Len(t.segments_out) /\ out[j] = t.segments_out[j]) \/ out[j] = seg
  <2>1. ASSUME NEW B, NEW q \in Seq(B), NEW x \in B
        PROVE  /\ Append(q, x) \in Seq(B) /\ Len(Append(q, x)) = Len(q) + 1
               /\ \A j \in 1 .. Len(Append(q, x)) :
                    (j \in 1 .. Len(q) /\ Append(q, x)[j] = q[j]) \/ Append(q, x)[j] = x
    BY <2>1
  <2> QED
    BY <1>1, <1>4, <2>1, Zenon
<1> HIDE DEF out
<1>6. ASSUME NEW j \in 1 .. Len(out)
      PROVE  Sent(flow, t, out[j]) \/ Answer(flow, out[j])
  BY <1>1, <1>3, <1>5, Zenon DEF SentOK
<1>7. /\ u \in Senders(flow) /\ u.isn = t.isn /\ u.stream = t.stream /\ u.set_syn = t.set_syn
      /\ u.set_fin = t.set_fin /\ u.next_seqno = t.next_seqno /\ u.recv_ackno = t.recv_ackno
      /\ u.segments_unackno = t.segments_unackno /\ u.bytes_in_flight = t.bytes_in_flight
      /\ u.window_size = t.window_size /\ u.timer = t.timer /\ u.segments_out = out
      /\ u.consecutive_retransmissions = t.consecutive_retransmissions
  BY <1>1, <1>5, Zenon DEF Senders
<1>8. u = send_empty_segment(t)
  BY Zenon DEF send_empty_segment, out, seg, s
<1> HIDE DEF u
<1>9. SameNumbers(t, u)
  BY <1>7, Zenon DEF SameNumbers
<1>10. TimerOK(flow, u)
  BY <1>7, Zenon DEF Ready, TimerOK
<1>11. Ready(flow, u, e) /\ Onward(t, u) /\ (Busy(t) => Busy(u))
  BY <1>6, <1>7, <1>9, <1>10, SameReady, Zenon
<1> QED
  BY <1>7, <1>8, <1>9, <1>11, Zenon

\* A write of k of the n bytes offered stays within the stream.
LEMMA PartFits ==
  ASSUME NEW rd \in Nat, NEW l \in Nat, NEW wr \in Nat, NEW n \in Nat, NEW k \in 0 .. n,
         NEW len \in Nat, rd + l = wr, wr + n <= len
  PROVE  Fits(rd, l, wr, k, len)
BY DEF Fits

\* write takes the bytes of the stream that follow the ones already written.
LEMMA StreamWrite ==
  ASSUME NEW flow, IsOutgoing(flow), NEW bs, StreamOK(flow, bs), bs.input_end = FALSE,
         NEW n \in Nat,
         bs.written + n <= Len(flow.stream)
  PROVE  Wrote(flow, bs, stream_write(bs, Bytes(flow, bs.written, n)))
<1> DEFINE l == Len(bs.buffer)
           k == MinOf(n, bs.capacity - l)
           w == stream_write(bs, Bytes(flow, bs.written, n))
<1>1. /\ bs \in ByteStreams(flow.byte) /\ bs.buffer \in Seq(flow.byte) /\ l \in Nat
      /\ bs.read \in Nat
      /\ bs.written \in Nat /\ bs.capacity \in Nat /\ l <= bs.capacity
      /\ bs.read + l = bs.written /\ bs.buffer = Bytes(flow, bs.read, l)
  BY DEF StreamOK, ByteStreams
<1>2. Len(Bytes(flow, bs.written, n)) = n
  BY <1>1, StreamBytes
<1>3. k \in 0 .. n /\ l + k <= bs.capacity
  BY <1>1, SMTT(20) DEF MinOf
<1>4. bytes_accepted(bs, Bytes(flow, bs.written, n)) = k
  BY <1>2, Zenon DEF bytes_accepted, remaining_capacity
<1> HIDE DEF k, l
<1>5. SubSeq(Bytes(flow, bs.written, n), 1, k) = Bytes(flow, bs.written, k)
  <2>1. 0 \in 0 .. n /\ k \in 0 .. n /\ 0 + 1 = 1 /\ bs.written + 0 = bs.written /\ k - 0 = k
    BY <1>1, <1>3
  <2>2. SubSeq(Bytes(flow, bs.written, n), 0 + 1, k) = Bytes(flow, bs.written + 0, k - 0)
    <3>1. Cuts(flow, bs.written, n)
      BY <1>1, StreamCut, Zenon
    <3> QED
      BY <2>1, <3>1, Zenon DEF Cuts
  <2> QED
    BY <2>1, <2>2
<1>6. /\ k \in Nat /\ l + k \in Nat /\ bs.read + l + k <= Len(flow.stream)
      /\ bs.read + (l + k) <= Len(flow.stream) /\ bs.written + k \in Nat
      /\ bs.read + (l + k) = bs.written + k /\ bs.written + k <= Len(flow.stream)
  <2>1. /\ bs.read \in Nat /\ l \in Nat /\ k \in 0 .. n /\ bs.written \in Nat
        /\ bs.read + l = bs.written /\ Len(flow.stream) \in Nat
    BY <1>1, <1>3, Constants
  <2>2. Fits(bs.read, l, bs.written, k, Len(flow.stream))
    BY <2>1, PartFits, Zenon
  <2> QED
    BY <2>2, Zenon DEF Fits
<1>7. bs.buffer \o Bytes(flow, bs.written, k) = Bytes(flow, bs.read, l + k)
  <2>1. bs.read \in Nat /\ l \in Nat /\ k \in Nat /\ bs.read + l + k <= Len(flow.stream)
    BY <1>1, <1>6, SMTT(30)
  <2>2. Bytes(flow, bs.read, l) \o Bytes(flow, bs.read + l, k) = Bytes(flow, bs.read, l + k)
    BY <2>1, StreamJoin, ZenonT(40)
  <2> QED
    BY <1>1, <2>2, Zenon
<1>8. Bytes(flow, bs.read, l + k) \in Seq(flow.byte) /\ Len(Bytes(flow, bs.read, l + k)) = l + k
  BY <1>1, <1>6, StreamBytes, SMTT(30)
<1>9. w = [bs EXCEPT !.buffer = Bytes(flow, bs.read, l + k), !.written = bs.written + k]
  BY <1>4, <1>5, <1>7, Zenon DEF stream_write
<1> HIDE DEF w
<1>10. /\ w \in ByteStreams(flow.byte) /\ w.buffer = Bytes(flow, bs.read, l + k) /\ w.read = bs.read
       /\ w.written = bs.written + k /\ w.capacity = bs.capacity
       /\ w.input_end = bs.input_end /\ w.error = bs.error
  BY <1>1, <1>6, <1>8, <1>9, Zenon DEF ByteStreams
<1>11. StreamOK(flow, w)
  <2>1. Len(w.buffer) = l + k
    BY <1>8, <1>10
  <2> QED
    BY <1>3, <1>6, <1>10, <2>1, SMTT(20) DEF StreamOK
<1>12. bs.written <= bs.written + k
  BY <1>1, <1>6
<1> QED
  BY <1>10, <1>11, <1>12, Zenon DEF w, Wrote

\* A retransmission doubles the timeout and counts one more.
LEMMA Doubled ==
  ASSUME NEW flow, IsOutgoing(flow), NEW c \in Nat
  PROVE  2 * (flow.rto * Pow2[c]) = flow.rto * Pow2[c + 1] /\ flow.rto * Pow2[c] \in Nat
<1>1. Pow2[c] \in Nat /\ Pow2[c + 1] = 2 * Pow2[c] /\ flow.rto \in Nat
  BY Powers, Constants, Zenon
<1>2. ASSUME NEW r \in Nat, NEW p \in Nat
      PROVE  2 * (r * p) = r * (2 * p) /\ r * p \in Nat
  OBVIOUS
<1> QED
  BY <1>1, <1>2, Zenon

\* The passage of time, with or without a retransmission
LEMMA Ticked ==
  ASSUME NEW flow, IsOutgoing(flow), NEW t, NEW e, Ready(flow, t, e), NEW ms \in Nat
  PROVE  LET u == sender_tick(t, ms)
         IN  /\ Ready(flow, u, e) /\ Onward(t, u) /\ SameNumbers(t, u) /\ u.stream = t.stream
             /\ Busy(t) => Busy(u)
<1> DEFINE q == t.segments_unackno
           tt == timer_tick(t.timer, ms)
           u == sender_tick(t, ms)
           cr == t.consecutive_retransmissions
           out == t.segments_out
<1>1. t \in Senders(flow) /\ TimerOK(flow, t) /\ SentOK(flow, t)
  BY Zenon DEF Ready
<1>2. /\ t.timer \in Timers /\ cr \in Nat /\ t.window_size \in Nat
      /\ q \in Seq(Segs(flow)) /\ out \in Seq(Segs(flow))
  BY <1>1 DEF Senders
<1>3. /\ tt \in Timers /\ tt.init_RTO = flow.rto /\ tt.running = t.timer.running
      /\ tt.cur_RTO = flow.rto * Pow2[cr]
  <2>1. t.timer.init_RTO = flow.rto /\ t.timer.cur_RTO = flow.rto * Pow2[cr]
    BY <1>1, Zenon DEF TimerOK
  <2> HIDE DEF cr
  <2>2. CASE t.timer.running
    <3>1. t.timer.elapsed_time + ms \in Nat
      BY <1>2 DEF Timers
    <3>2. tt = [t.timer EXCEPT !.elapsed_time = t.timer.elapsed_time + ms]
      BY <2>2, Zenon DEF timer_tick
    <3> HIDE DEF tt
    <3> QED
      BY <1>2, <2>1, <3>1, <3>2, Zenon DEF Timers
  <2>3. CASE ~t.timer.running
    <3>1. tt = t.timer
      BY <2>3, Zenon DEF timer_tick
    <3> QED
      BY <1>2, <2>1, <3>1, Zenon
  <2> QED
    BY <2>2, <2>3, Zenon
<1> HIDE DEF tt
<1> DEFINE Kept(v, so, c, tm) ==
             /\ v \in Senders(flow) /\ v.isn = t.isn /\ v.stream = t.stream
             /\ v.set_syn = t.set_syn /\ v.set_fin = t.set_fin /\ v.next_seqno = t.next_seqno
             /\ v.recv_ackno = t.recv_ackno /\ v.segments_unackno = q
             /\ v.bytes_in_flight = t.bytes_in_flight /\ v.window_size = t.window_size
             /\ v.timer = tm /\ v.consecutive_retransmissions = c /\ v.segments_out = so
<1>4. ASSUME NEW v, NEW so, NEW c \in Nat, NEW tm \in Timers, Kept(v, so, c, tm),
             tm.init_RTO = flow.rto, tm.cur_RTO = flow.rto * Pow2[c],
             tm.running = TRUE <=> q # << >>,
             \A j \in 1 .. Len(so) : Sent(flow, t, so[j]) \/ Answer(flow, so[j])
      PROVE  /\ Ready(flow, v, e) /\ Onward(t, v) /\ SameNumbers(t, v) /\ v.stream = t.stream
             /\ Busy(t) => Busy(v)
  <2>1. SameNumbers(t, v)
    BY <1>4, Zenon DEF SameNumbers
  <2>2. TimerOK(flow, v)
    BY <1>4, Zenon DEF TimerOK
  <2> QED
    BY <1>4, <2>1, <2>2, SameReady, Zenon
<1>5. tt.running = TRUE <=> q # << >>
  BY <1>1, <1>3, Zenon DEF TimerOK
<1>6. CASE check_expired(tt) /\ q # << >>
  <2> DEFINE backoff == t.window_size > 0
             so == Append(out, Head(q))
             c == IF backoff THEN cr + 1 ELSE cr
             td == IF backoff THEN timer_reset_double(tt) ELSE tt
             tm == timer_start(td)
  <2>1. u = [t EXCEPT !.segments_out = so, !.consecutive_retransmissions = c, !.timer = tm]
    BY <1>6, Zenon DEF sender_tick, tt
  <2>2. /\ so \in Seq(Segs(flow))
        /\ \A j \in 1 .. Len(so) : (j \in 1 .. Len(out) /\ so[j] = out[j]) \/ so[j] = q[1]
        /\ 1 \in 1 .. Len(q)
    <3>1. ASSUME NEW B, NEW o \in Seq(B), NEW p \in Seq(B), p # << >>
          PROVE  /\ Append(o, Head(p)) \in Seq(B) /\ 1 \in 1 .. Len(p)
                 /\ \A j \in 1 .. Len(Append(o, Head(p))) :
                      \/ j \in 1 .. Len(o) /\ Append(o, Head(p))[j] = o[j]
                      \/ Append(o, Head(p))[j] = p[1]
      BY <3>1
    <3> QED
      BY <1>2, <1>6, <3>1, ZenonT(40)
  <2>3. c \in Nat /\ td \in Timers /\ td.init_RTO = flow.rto /\ td.cur_RTO = flow.rto * Pow2[c]
    <3> HIDE DEF cr
    <3>1. CASE backoff
      <4>1. td = timer_reset_double(tt) /\ c = cr + 1 /\ cr + 1 \in Nat
        BY <1>2, <3>1, SMTT(20)
      <4>2. 2 * tt.cur_RTO = flow.rto * Pow2[cr + 1] /\ 2 * tt.cur_RTO \in Nat
        <5>1. 2 * (flow.rto * Pow2[cr]) = flow.rto * Pow2[cr + 1]
          BY <1>2, Doubled, Zenon
        <5>2. tt.cur_RTO \in Nat
          BY <1>3 DEF Timers
        <5>3. 2 * tt.cur_RTO \in Nat
          BY <5>2, SMTT(30)
        <5> QED
          BY <1>3, <5>1, <5>3, Zenon
      <4> HIDE DEF td
      <4>3. td \in Timers /\ td.init_RTO = flow.rto /\ td.cur_RTO = 2 * tt.cur_RTO
        BY <1>3, <4>1, <4>2, Zenon DEF timer_reset_double, Timers
      <4> QED
        BY <4>1, <4>2, <4>3, Zenon
    <3>2. CASE ~backoff
      BY <1>2, <1>3, <3>2, Zenon
    <3> QED
      BY <3>1, <3>2, Zenon
  <2> HIDE DEF so, c, td, u
  <2>4. /\ tm \in Timers /\ tm.init_RTO = flow.rto /\ tm.cur_RTO = flow.rto * Pow2[c]
        /\ tm.running = TRUE
    BY <2>3, Zenon DEF timer_start, Timers
  <2> HIDE DEF tm
  <2>5. Kept(u, so, c, tm)
    BY <1>1, <2>1, <2>2, <2>3, <2>4, Zenon DEF Senders
  <2>6. \A j \in 1 .. Len(so) : Sent(flow, t, so[j]) \/ Answer(flow, so[j])
    BY <1>1, <2>2, Zenon DEF SentOK
  <2> HIDE DEF Kept, q
  <2>7. /\ Ready(flow, u, e) /\ Onward(t, u) /\ SameNumbers(t, u) /\ u.stream = t.stream
        /\ Busy(t) => Busy(u)
    BY <1>4, <1>6, <2>3, <2>4, <2>5, <2>6, Zenon
  <2> QED
    BY <2>7 DEF u
<1>7. CASE ~(check_expired(tt) /\ q # << >>)
  <2>1. u = [t EXCEPT !.timer = tt]
    BY <1>7, Zenon DEF sender_tick, tt
  <2> HIDE DEF u
  <2>2. Kept(u, out, cr, tt)
    BY <1>1, <1>3, <2>1, Zenon DEF Senders
  <2>3. \A j \in 1 .. Len(out) : Sent(flow, t, out[j]) \/ Answer(flow, out[j])
    BY <1>1, Zenon DEF SentOK
  <2> HIDE DEF Kept, q, out
  <2>4. /\ Ready(flow, u, e) /\ Onward(t, u) /\ SameNumbers(t, u) /\ u.stream = t.stream
        /\ Busy(t) => Busy(u)
    BY <1>2, <1>3, <1>4, <1>5, <2>2, <2>3, Zenon
  <2> QED
    BY <2>4 DEF u
<1> QED
  BY <1>6, <1>7, Zenon

\* The sender as it is constructed
LEMMA NewSender ==
  ASSUME NEW flow, IsOutgoing(flow), NEW capacity \in Nat
  PROVE  LET t == new_TCPSender(capacity, flow.rto, flow.isn)
         IN  /\ Ready(flow, t, 1) /\ Busy(t) /\ t.segments_out = << >>
             /\ t.stream = new_ByteStream(capacity) /\ t.set_syn = FALSE
             /\ t.recv_ackno = 0 /\ t.next_seqno = 0
<1> DEFINE t == new_TCPSender(capacity, flow.rto, flow.isn)
           bs == new_ByteStream(capacity)
           tm == new_Timer(flow.rto)
<1>1. flow.isn \in WrappingInt32 /\ flow.rto \in Nat
  BY Constants, Zenon
<1>2. /\ bs \in ByteStreams(flow.byte) /\ bs.buffer = << >> /\ bs.read = 0 /\ bs.written = 0
      /\ bs.capacity = capacity /\ bs.input_end = FALSE
  BY DEF new_ByteStream, ByteStreams
<1>3. tm \in Timers /\ tm.init_RTO = flow.rto /\ tm.cur_RTO = flow.rto /\ tm.running = FALSE
  BY <1>1, SMTT(20) DEF new_Timer, Timers
<1> HIDE DEF bs, tm
<1>4. t = [isn |-> flow.isn, segments_out |-> << >>, stream |-> bs,
           next_seqno |-> 0, recv_ackno |-> 0, set_syn |-> FALSE, set_fin |-> FALSE,
           timer |-> tm, consecutive_retransmissions |-> 0,
           window_size |-> 1, bytes_in_flight |-> 0, segments_unackno |-> << >>]
  BY Zenon DEF new_TCPSender, bs, tm
<1>5. << >> \in Seq(Segs(flow)) /\ Len(<< >>) = 0
  OBVIOUS
<1> HIDE DEF t
<1>6. /\ t \in Senders(flow) /\ t.isn = flow.isn /\ t.stream = bs /\ t.next_seqno = 0
      /\ t.recv_ackno = 0 /\ t.set_syn = FALSE /\ t.set_fin = FALSE /\ t.timer = tm
      /\ t.consecutive_retransmissions = 0 /\ t.window_size = 1 /\ t.bytes_in_flight = 0
      /\ t.segments_unackno = << >> /\ t.segments_out = << >>
  BY <1>1, <1>2, <1>3, <1>4, <1>5, SMTT(30) DEF Senders
<1>7. StreamOK(flow, bs)
  <2>1. Bytes(flow, 0, 0) = << >>
    BY StreamNothing, Zenon
  <2>2. PICK l \in Nat : l = Len(flow.stream)
    BY Constants, SMTT(20)
  <2> QED
    BY <1>2, <1>5, <2>1, <2>2 DEF StreamOK
<1>8. Numbered(t)
  BY <1>2, <1>6, SMTT(20) DEF Numbered
<1>9. QueueOK(flow, t)
  BY <1>6, SMTT(30) DEF QueueOK, Tiled
<1>10. Allowed(t, 1)
  BY <1>6 DEF Allowed
<1>11. TimerOK(flow, t)
  <2>1. PICK x \in Nat : x = flow.rto
    BY <1>1
  <2>2. x * 1 = x /\ Pow2[0] = 1
    BY <2>1, Powers, SMTT(20)
  <2>3. flow.rto * Pow2[0] = flow.rto
    BY <2>1, <2>2, Zenon
  <2> QED
    BY <1>3, <1>6, <2>3, Zenon DEF TimerOK
<1>12. Busy(t)
  BY <1>6, SMTT(20) DEF Busy
<1>13. SentOK(flow, t)
  BY <1>5, <1>6 DEF SentOK
<1>14. Ready(flow, t, 1)
  BY <1>6, <1>7, <1>8, <1>9, <1>10, <1>11, <1>13, SMTT(30) DEF Ready
<1> QED
  BY <1>6, <1>12, <1>14, Zenon DEF t, bs

\* An acknowledgment, whichever it is
LEMMA AckOutcome ==
  ASSUME NEW flow, IsOutgoing(flow), NEW t, NEW e, Ready(flow, t, e),
         NEW a \in Nat, a < SeqMod, NEW win \in flow.windows
  PROVE  AckEffect(flow, t, e, a, win, ack_received(t, wrap(a, flow.isn), win))
<1> DEFINE u == ack_received(t, wrap(a, flow.isn), win)
           v == Acked(t, a, win)
           e2 == MaxOf(e, a + MaxOf(win, 1))
<1>1. t.isn = flow.isn /\ t \in Senders(flow)
  BY Zenon DEF Ready
<1>2. t.next_seqno \in Nat /\ t.recv_ackno \in Nat /\ t.recv_ackno <= Limit(flow)
  <2>1. t.next_seqno \in Nat /\ t.next_seqno <= Limit(flow)
    BY NextWithinLimit, SMTT(20)
  <2>2. t.recv_ackno \in Nat /\ t.recv_ackno <= t.next_seqno
    BY SMTT(20) DEF Ready, QueueOK, Senders
  <2>3. PICK l \in Nat : l = Limit(flow)
    BY StreamLimit
  <2>4. t.recv_ackno <= l
    BY <2>1, <2>2, <2>3
  <2> QED
    BY <2>1, <2>2, <2>3, <2>4, ZenonT(40)
<1>3. unwrap(wrap(a, flow.isn), t.isn, t.recv_ackno) = a
  <2>1. wrap(a, flow.isn) \in WrappingInt32 /\ (wrap(a, flow.isn) - flow.isn) % SeqMod = a
    BY WrapStart
  <2>2. unwrap(wrap(a, flow.isn), flow.isn, t.recv_ackno) = (wrap(a, flow.isn) - flow.isn) % SeqMod
    BY <1>2, <2>1, UnwrapStart, Zenon
  <2> QED
    BY <1>1, <2>1, <2>2, Zenon
<1>4. CASE acceptable(t, a)
  <2>1. t.recv_ackno <= a /\ a <= t.next_seqno
    BY <1>2, <1>4 DEF acceptable
  <2>2. u = fill_window(v)
    BY <1>3, <1>4, Zenon DEF ack_received, Acked
  <2>3. Ready(flow, v, e2) /\ Onward(t, v) /\ v.recv_ackno = a
    <3>1. StaysReady(flow, t, e, a, win)
      BY <2>1, AckedReady, Zenon
    <3> QED
      BY <3>1, Zenon DEF StaysReady
  <2> HIDE DEF u, v, e2
  <2>4. Ready(flow, u, e2) /\ Busy(u) /\ Advanced(v, u)
    BY <2>2, <2>3, FillWindow, Zenon
  <2>5. Onward(t, u) /\ u.recv_ackno = a
    <3>1. v \in Senders(flow) /\ u \in Senders(flow)
      BY <2>3, <2>4, Zenon DEF Ready
    <3> QED
      BY <1>1, <2>3, <2>4, <3>1, OnwardOnward, Zenon DEF Advanced
  <2> QED
    BY <1>4, <2>1, <2>4, <2>5, Zenon DEF AckEffect, u, e2
<1>5. CASE ~acceptable(t, a)
  <2>1. u = t
    BY <1>3, <1>5, Zenon DEF ack_received
  <2> QED
    BY <1>5, <2>1, Zenon DEF AckEffect
<1> QED
  BY <1>4, <1>5, Zenon

\* end_input and set_error change nothing but their flags.
LEMMA StreamFlags ==
  ASSUME NEW flow, NEW bs, StreamOK(flow, bs)
  PROVE  Ended(flow, bs, end_input(bs)) /\ Failed(flow, bs, set_error(bs))
<1>1. bs \in ByteStreams(flow.byte)
  BY DEF StreamOK
<1>2. PICK b, c : b = end_input(bs) /\ c = set_error(bs)
  BY Zenon
<1>3. /\ b \in ByteStreams(flow.byte) /\ b.buffer = bs.buffer /\ b.read = bs.read
      /\ b.written = bs.written /\ b.capacity = bs.capacity /\ b.error = bs.error
      /\ b.input_end = TRUE
  BY <1>1, <1>2, Zenon DEF end_input, ByteStreams
<1>4. /\ c \in ByteStreams(flow.byte) /\ c.buffer = bs.buffer /\ c.read = bs.read
      /\ c.written = bs.written /\ c.capacity = bs.capacity /\ c.input_end = bs.input_end
      /\ c.error = TRUE
  BY <1>1, <1>2, Zenon DEF set_error, ByteStreams
<1>5. StreamOK(flow, b) /\ StreamOK(flow, c)
  BY <1>3, <1>4, Zenon DEF StreamOK
<1>6. Ended(flow, bs, b)
  BY <1>3, <1>5, Zenon DEF Ended
<1>7. Failed(flow, bs, c)
  BY <1>4, <1>5, Zenon DEF Failed
<1> QED
  BY <1>2, <1>6, <1>7, Zenon

-------------------------------------------------------------------------------
(***************************************************************************)
(* A sender in a connection, whose application ends the stream where the   *)
(* flow ends                                                               *)
(***************************************************************************)
\* The edge is one that the invariant holds for, whichever is known.
LEMMA AnyEdge ==
  ASSUME NEW flow, NEW t, NEW e, Ready(flow, t, e)
  PROVE  Ready(flow, t, Edge(t))
<1>1. t \in Senders(flow)
  BY Zenon DEF Ready
<1>2. t.next_seqno \in Nat /\ t.recv_ackno \in Nat /\ t.window_size \in Nat
  BY <1>1 DEF Senders
<1>3. Allowed(t, Edge(t))
  BY <1>2, SMTT(20) DEF Allowed, Edge
<1> QED
  BY <1>3, Zenon DEF Ready

\* What a sender between two calls knows of its numbers
LEMMA StandsStood ==
  ASSUME NEW flow, IsOutgoing(flow), NEW t, Stands(flow, t)
  PROVE  Stood(flow, t)
<1>1. /\ t \in Senders(flow) /\ StreamOK(flow, t.stream) /\ Numbered(t) /\ QueueOK(flow, t)
      /\ t.stream.input_end = TRUE => t.stream.written = Len(flow.stream)
  BY Zenon DEF Stands, Ready
<1>2. /\ t.next_seqno \in Nat /\ t.recv_ackno \in Nat /\ t.bytes_in_flight \in Nat
      /\ t.set_syn \in BOOLEAN /\ t.set_fin \in BOOLEAN
  BY <1>1, SMTT(20) DEF Senders
<1>3. /\ t.stream.read \in Nat /\ t.stream.written \in Nat /\ t.stream.input_end \in BOOLEAN
      /\ t.stream.read + Len(t.stream.buffer) = t.stream.written
      /\ t.stream.buffer \in Seq(flow.byte) /\ t.stream.written <= Len(flow.stream)
  BY <1>1, SMTT(20) DEF StreamOK, ByteStreams
<1>4. Len(t.stream.buffer) \in Nat /\ (t.stream.buffer = << >> => Len(t.stream.buffer) = 0)
  BY <1>3
<1>5. t.stream.read <= t.stream.written
      /\ (t.stream.buffer = << >> => t.stream.read = t.stream.written)
  BY <1>3, <1>4
<1>6. t.recv_ackno <= t.next_seqno /\ t.next_seqno <= t.recv_ackno + t.bytes_in_flight
  BY <1>1, <1>2, SMTT(20) DEF QueueOK
<1>7. t.segments_unackno # << >> => t.recv_ackno < t.next_seqno
  BY <1>1, Zenon DEF QueueOK
<1>8. t.set_fin = TRUE => /\ t.stream.input_end = TRUE /\ t.stream.buffer = << >>
                          /\ t.stream.read = Len(flow.stream)
                          /\ t.stream.written = Len(flow.stream)
                          /\ t.next_seqno = Len(flow.stream) + 2
  <2>1. t.set_fin = TRUE => /\ t.stream.input_end = TRUE /\ t.stream.buffer = << >>
                            /\ t.next_seqno = t.stream.written + 2
    BY <1>1, Zenon DEF Numbered
  <2> QED
    BY <1>1, <1>5, <2>1
<1> QED
  BY <1>1, <1>2, <1>3, <1>5, <1>6, <1>7, <1>8, Zenon DEF Stood, Numbered

\* A segment that was sent stays one of those the sender may have sent.
LEMMA SentFollows ==
  ASSUME NEW flow, IsOutgoing(flow), NEW t, NEW u, Stands(flow, t), Stands(flow, u), Follows(t, u),
         NEW seg, Sent(flow, t, seg)
  PROVE  Sent(flow, u, seg)
<1>1. t.stream.read \in Nat /\ u.stream.read \in Nat /\ t.set_fin \in BOOLEAN
  BY StandsStood, Zenon DEF Stood
<1>2. End(flow, seg) \in Nat
  BY SegmentNumbers, ZenonT(40) DEF Sent
<1>3. seg.fin \in BOOLEAN
  BY SMTT(20) DEF Sent, Carries, Segs, Segments
<1>4. CASE seg.fin = FALSE
  <2>1. End(flow, seg) <= t.stream.read + 1 /\ t.stream.read <= u.stream.read
    BY <1>4, Zenon DEF Sent, Placed, Follows
  <2>2. End(flow, seg) <= u.stream.read + 1
    BY <1>1, <1>2, <2>1, SMTT(20)
  <2> QED
    BY <1>4, <2>2, SMTT(20) DEF Sent, Placed, Follows
<1>5. CASE seg.fin = TRUE
  <2>1. Bit(t.set_fin) = 1
    BY <1>5, Zenon DEF Sent, Placed
  <2>2. t.set_fin = TRUE
    BY <1>1, <2>1, BitNumber, SMTT(20)
  <2>3. u.set_fin = TRUE /\ u.stream.read = t.stream.read /\ u.set_syn = TRUE
    BY <2>2, Zenon DEF Follows, Sent
  <2> QED
    BY <2>2, <2>3, Zenon DEF Sent
<1> QED
  BY <1>3, <1>4, <1>5, Zenon

\* One call after another
LEMMA FollowsOn ==
  ASSUME NEW flow, IsOutgoing(flow), NEW t, NEW u, NEW v, Stands(flow, t), Stands(flow, u),
         Stands(flow, v), Follows(t, u), Follows(u, v)
  PROVE  Follows(t, v)
<1>1. Stood(flow, t) /\ Stood(flow, u) /\ Stood(flow, v)
  BY StandsStood, Zenon
<1>2. /\ t.stream.read \in Nat /\ u.stream.read \in Nat /\ v.stream.read \in Nat
      /\ t.recv_ackno \in Nat /\ u.recv_ackno \in Nat /\ v.recv_ackno \in Nat
  BY <1>1, Zenon DEF Stood
<1>3. t.stream.read <= v.stream.read /\ t.recv_ackno <= v.recv_ackno
  BY <1>2 DEF Follows
<1> QED
  BY <1>3, Zenon DEF Follows

\* and two calls in neither of which the application is at work
LEMMA ProceedsOn ==
  ASSUME NEW flow, IsOutgoing(flow), NEW t, NEW u, NEW v,
         Stands(flow, t), Proceeds(flow, t, u), Proceeds(flow, u, v)
  PROVE  Proceeds(flow, t, v)
<1>1. Follows(t, v)
  BY FollowsOn, Zenon DEF Proceeds
<1> QED
  BY <1>1, Zenon DEF Proceeds, SameInput

\* A call that leaves what the sender counts alone
LEMMA ProceedsSame ==
  ASSUME NEW flow, IsOutgoing(flow), NEW t, Stands(flow, t), NEW u, NEW e, Ready(flow, u, e),
         Onward(t, u), u.recv_ackno = t.recv_ackno \/ t.recv_ackno <= u.recv_ackno
  PROVE  Proceeds(flow, t, u)
<1>1. Ready(flow, u, Edge(u))
  BY AnyEdge, Zenon
<1>2. t.recv_ackno <= u.recv_ackno
  <2>1. t.recv_ackno \in Nat
    BY StandsStood, Zenon DEF Stood
  <2> QED
    BY <2>1
<1> QED
  BY <1>1, <1>2, Zenon DEF Proceeds, Stands, Onward, Follows, SameInput

\* fill_window
LEMMA FillProceeds ==
  ASSUME NEW flow, IsOutgoing(flow), NEW t, Stands(flow, t)
  PROVE  /\ Proceeds(flow, t, fill_window(t))
         /\ fill_window(t).recv_ackno = t.recv_ackno
         /\ fill_window(t).consecutive_retransmissions = t.consecutive_retransmissions
<1>1. Ready(flow, fill_window(t), Edge(t)) /\ Advanced(t, fill_window(t))
  BY FillWindow, Zenon DEF Stands
<1> QED
  BY <1>1, ProceedsSame, Zenon DEF Advanced

\* send_empty_segment
LEMMA AnswerProceeds ==
  ASSUME NEW flow, IsOutgoing(flow), NEW t, Stands(flow, t)
  PROVE  Proceeds(flow, t, send_empty_segment(t)) /\ send_empty_segment(t).recv_ackno = t.recv_ackno
<1>1. /\ Ready(flow, send_empty_segment(t), Edge(t)) /\ Onward(t, send_empty_segment(t))
      /\ SameNumbers(t, send_empty_segment(t))
  BY Answered, Zenon DEF Stands
<1> QED
  BY <1>1, ProceedsSame, Zenon DEF SameNumbers

\* tick never counts down.
LEMMA TickCounts ==
  ASSUME NEW flow, NEW t \in Senders(flow), NEW ms
  PROVE  CountsUp(t, sender_tick(t, ms))
<1> DEFINE u == sender_tick(t, ms)
           cr == t.consecutive_retransmissions
<1>1. cr \in Nat
  BY DEF Senders
<1>2. ASSUME NEW so, NEW c, NEW tm
      PROVE  [t EXCEPT !.segments_out = so, !.consecutive_retransmissions = c,
                       !.timer = tm].consecutive_retransmissions = c
  BY DEF Senders
<1>3. ASSUME NEW tm
      PROVE  [t EXCEPT !.timer = tm].consecutive_retransmissions = cr
  BY DEF Senders
<1>4. u.consecutive_retransmissions = cr \/ u.consecutive_retransmissions = cr + 1
  <2>1. CASE check_expired(timer_tick(t.timer, ms)) /\ t.segments_unackno # << >>
    <3> DEFINE backoff == t.window_size > 0
               c == IF backoff THEN cr + 1 ELSE cr
               tt == timer_tick(t.timer, ms)
               so == Append(t.segments_out, Head(t.segments_unackno))
               tm == timer_start(IF backoff THEN timer_reset_double(tt) ELSE tt)
    <3>1. u = [t EXCEPT !.segments_out = so, !.consecutive_retransmissions = c, !.timer = tm]
      BY <2>1, Zenon DEF sender_tick
    <3>2. c = cr \/ c = cr + 1
      OBVIOUS
    <3> HIDE DEF so, c, tm, u
    <3>3. u.consecutive_retransmissions = c
      BY <1>2, <3>1, Zenon
    <3> QED
      BY <3>2, <3>3, Zenon
  <2>2. CASE ~(check_expired(timer_tick(t.timer, ms)) /\ t.segments_unackno # << >>)
    <3>1. PICK tm : u = [t EXCEPT !.timer = tm]
      BY <2>2, Zenon DEF sender_tick
    <3> QED
      BY <1>3, <3>1, Zenon
  <2> QED
    BY <2>1, <2>2, Zenon
<1> HIDE DEF u
<1> QED
  BY <1>1, <1>4 DEF CountsUp, u

\* tick
LEMMA TickProceeds ==
  ASSUME NEW flow, IsOutgoing(flow), NEW t, Stands(flow, t), NEW ms \in Nat
  PROVE  /\ Proceeds(flow, t, sender_tick(t, ms)) /\ sender_tick(t, ms).recv_ackno = t.recv_ackno
         /\ CountsUp(t, sender_tick(t, ms))
<1>1. /\ Ready(flow, sender_tick(t, ms), Edge(t)) /\ Onward(t, sender_tick(t, ms))
      /\ SameNumbers(t, sender_tick(t, ms))
  BY Ticked, Zenon DEF Stands
<1>2. CountsUp(t, sender_tick(t, ms))
  BY TickCounts, Zenon DEF Stands, Ready
<1> QED
  BY <1>1, <1>2, ProceedsSame, Zenon DEF SameNumbers

\* The queue is emptied.
LEMMA TakenProceeds ==
  ASSUME NEW flow, IsOutgoing(flow), NEW t, Stands(flow, t)
  PROVE  LET u == [t EXCEPT !.segments_out = << >>]
         IN  /\ Proceeds(flow, t, u) /\ SameNumbers(t, u) /\ u.stream = t.stream
             /\ u.segments_out = << >>
             /\ u.consecutive_retransmissions = t.consecutive_retransmissions
<1> DEFINE u == [t EXCEPT !.segments_out = << >>]
<1>1. /\ Ready(flow, u, Edge(t)) /\ Onward(t, u) /\ SameNumbers(t, u) /\ u.stream = t.stream
      /\ u.segments_out = << >>
      /\ u.consecutive_retransmissions = t.consecutive_retransmissions
  BY Taken, Zenon DEF Stands
<1> HIDE DEF u
<1>3. Proceeds(flow, t, u)
  BY <1>1, ProceedsSame, Zenon DEF SameNumbers
<1> QED
  BY <1>1, <1>3, Zenon DEF u

\* ack_received
LEMMA AckProceeds ==
  ASSUME NEW flow, IsOutgoing(flow), NEW t, Stands(flow, t),
         NEW a \in Nat, a < SeqMod, NEW win \in flow.windows
  PROVE  Acknowledges(flow, t, a, ack_received(t, wrap(a, flow.isn), win))
<1> DEFINE u == ack_received(t, wrap(a, flow.isn), win)
<1>1. AckEffect(flow, t, Edge(t), a, win, u)
  BY AckOutcome, Zenon DEF Stands
<1> HIDE DEF u
<1>2. t.recv_ackno \in Nat /\ t.next_seqno \in Nat /\ t.stream.read \in Nat
  BY StandsStood, Zenon DEF Stood
<1>3. CASE u = t /\ ~acceptable(t, a)
  <2>1. ~(t.recv_ackno <= a /\ a <= t.next_seqno)
    BY <1>2, <1>3 DEF acceptable
  <2>2. t.recv_ackno <= t.recv_ackno /\ t.stream.read <= t.stream.read
    BY <1>2
  <2> QED
    BY <1>3, <2>1, <2>2, Zenon DEF u, Proceeds, Follows, SameInput, Acknowledges
<1>4. CASE /\ t.recv_ackno <= a /\ Ready(flow, u, MaxOf(Edge(t), a + MaxOf(win, 1)))
           /\ Onward(t, u) /\ u.recv_ackno = a
  <2>1. Proceeds(flow, t, u)
    BY <1>4, ProceedsSame, Zenon
  <2> QED
    BY <1>4, <2>1, Zenon DEF u, Acknowledges
<1> QED
  BY <1>1, <1>3, <1>4, Zenon DEF AckEffect

\* The application's stream changes at its end, or gets its error flag.
LEMMA StreamReplaced ==
  ASSUME NEW flow, IsOutgoing(flow), NEW t, Stands(flow, t),
         NEW bs, StreamOK(flow, bs), bs.read = t.stream.read,
         bs.input_end = TRUE => bs.written = Len(flow.stream),
         \/ t.stream.input_end = FALSE
         \/ /\ bs.input_end = t.stream.input_end /\ bs.buffer = t.stream.buffer
            /\ bs.written = t.stream.written
  PROVE  Exchanged(flow, t, bs, [t EXCEPT !.stream = bs])
<1> DEFINE u == [t EXCEPT !.stream = bs]
<1>1. Ready(flow, u, Edge(t))
  BY NewStream, Zenon DEF Stands
<1>2. t \in Senders(flow)
  BY Zenon DEF Stands, Ready
<1>3. /\ u.stream = bs /\ u.segments_out = t.segments_out /\ SameNumbers(t, u)
      /\ u.consecutive_retransmissions = t.consecutive_retransmissions
  BY <1>2 DEF Senders, SameNumbers
<1> HIDE DEF u
<1>4. Ready(flow, u, Edge(u))
  BY <1>1, AnyEdge, Zenon
<1>5. t.stream.read \in Nat /\ t.recv_ackno \in Nat
  BY StandsStood, Zenon DEF Stood
<1>6. t.stream.read <= t.stream.read /\ t.recv_ackno <= t.recv_ackno
  BY <1>5
<1> QED
  BY <1>3, <1>4, <1>6, Zenon DEF u, Stands, Follows, SameNumbers, Exchanged

\* The application writes, and fill_window follows.
LEMMA WriteProceeds ==
  ASSUME NEW flow, IsOutgoing(flow), NEW t, Stands(flow, t), t.stream.input_end = FALSE,
         NEW n \in Nat, t.stream.written + n <= Len(flow.stream)
  PROVE  Extends(flow, t, fill_window([t EXCEPT !.stream =
                            stream_write(@, Bytes(flow, t.stream.written, n))]), FALSE)
<1> DEFINE bs == stream_write(t.stream, Bytes(flow, t.stream.written, n))
           v == [t EXCEPT !.stream = bs]
           u == fill_window(v)
<1>1. Wrote(flow, t.stream, bs)
  BY StreamWrite, Zenon DEF Stands, Ready
<1>2. /\ StreamOK(flow, bs) /\ bs.read = t.stream.read /\ bs.input_end = FALSE
      /\ t.stream.written <= bs.written
  BY <1>1, Zenon DEF Wrote
<1> HIDE DEF bs
<1>3. Stands(flow, v) /\ Follows(t, v) /\ v.stream = bs /\ v.recv_ackno = t.recv_ackno
  <2>1. Exchanged(flow, t, bs, v)
    BY <1>2, StreamReplaced, Zenon
  <2> QED
    BY <2>1, Zenon DEF Exchanged, SameNumbers
<1> HIDE DEF v
<1>4. Proceeds(flow, v, u) /\ u.recv_ackno = v.recv_ackno
  BY <1>3, FillProceeds, Zenon
<1>5. Stands(flow, u) /\ Follows(v, u) /\ SameInput(v, u)
  BY <1>4, Zenon DEF Proceeds
<1> HIDE DEF u
<1>6. Follows(t, u)
  BY <1>3, <1>5, FollowsOn, Zenon
<1> QED
  BY <1>2, <1>3, <1>4, <1>5, <1>6, Zenon DEF u, v, bs, SameInput, Extends

\* The application ends its stream, and fill_window follows.
LEMMA EndProceeds ==
  ASSUME NEW flow, IsOutgoing(flow), NEW t, Stands(flow, t), t.stream.input_end = FALSE,
         t.stream.written = Len(flow.stream)
  PROVE  Extends(flow, t, fill_window([t EXCEPT !.stream = end_input(@)]), TRUE)
<1> DEFINE bs == end_input(t.stream)
           v == [t EXCEPT !.stream = bs]
           u == fill_window(v)
<1>1. Ended(flow, t.stream, bs)
  BY StreamFlags, Zenon DEF Stands, Ready
<1>2. /\ StreamOK(flow, bs) /\ bs.read = t.stream.read /\ bs.input_end = TRUE
      /\ bs.written = t.stream.written
  BY <1>1, Zenon DEF Ended
<1> HIDE DEF bs
<1>3. Stands(flow, v) /\ Follows(t, v) /\ v.stream = bs /\ v.recv_ackno = t.recv_ackno
  <2>1. Exchanged(flow, t, bs, v)
    BY <1>2, StreamReplaced, Zenon
  <2> QED
    BY <2>1, Zenon DEF Exchanged, SameNumbers
<1> HIDE DEF v
<1>4. Proceeds(flow, v, u) /\ u.recv_ackno = v.recv_ackno
  BY <1>3, FillProceeds, Zenon
<1>5. Stands(flow, u) /\ Follows(v, u) /\ SameInput(v, u)
  BY <1>4, Zenon DEF Proceeds
<1> HIDE DEF u
<1>6. Follows(t, u)
  BY <1>3, <1>5, FollowsOn, Zenon
<1>7. t.stream.written <= u.stream.written
  <2>1. t.stream.written \in Nat
    BY StandsStood, Zenon DEF Stood
  <2> QED
    BY <1>2, <1>3, <1>5, <2>1 DEF SameInput
<1> QED
  BY <1>2, <1>3, <1>4, <1>5, <1>6, <1>7, Zenon DEF u, v, bs, SameInput, Extends

\* set_shutdown sets the error flag of the stream.
LEMMA ErrorProceeds ==
  ASSUME NEW flow, IsOutgoing(flow), NEW t, Stands(flow, t)
  PROVE  LET u == [t EXCEPT !.stream = set_error(@)]
         IN  /\ Proceeds(flow, t, u) /\ SameNumbers(t, u) /\ u.segments_out = t.segments_out
             /\ u.consecutive_retransmissions = t.consecutive_retransmissions
<1> DEFINE bs == set_error(t.stream)
           u == [t EXCEPT !.stream = bs]
<1>1. Failed(flow, t.stream, bs)
  BY StreamFlags, Zenon DEF Stands, Ready
<1>2. /\ StreamOK(flow, bs) /\ bs.read = t.stream.read /\ bs.input_end = t.stream.input_end
      /\ bs.written = t.stream.written /\ bs.buffer = t.stream.buffer
  BY <1>1, Zenon DEF Failed
<1> HIDE DEF bs
<1>3. /\ Stands(flow, u) /\ Follows(t, u) /\ u.stream = bs /\ SameNumbers(t, u)
      /\ u.segments_out = t.segments_out
      /\ u.consecutive_retransmissions = t.consecutive_retransmissions
  <2>1. Exchanged(flow, t, bs, u)
    BY <1>2, StreamReplaced, Zenon DEF Stands
  <2> QED
    BY <2>1, Zenon DEF Exchanged
<1> HIDE DEF u
<1> QED
  BY <1>2, <1>3, Zenon DEF u, bs, Proceeds, SameInput

\* The constructor
LEMMA NewStands ==
  ASSUME NEW flow, IsOutgoing(flow), NEW capacity \in Nat
  PROVE  LET t == new_TCPSender(capacity, flow.rto, flow.isn)
         IN  /\ Stands(flow, t) /\ t.segments_out = << >>
             /\ t.stream = new_ByteStream(capacity) /\ t.recv_ackno = 0
             /\ t.set_syn = FALSE
<1> DEFINE t == new_TCPSender(capacity, flow.rto, flow.isn)
<1>1. /\ Ready(flow, t, 1) /\ t.segments_out = << >> /\ t.stream = new_ByteStream(capacity)
      /\ t.recv_ackno = 0 /\ t.set_syn = FALSE
  BY NewSender, Zenon
<1>2. t.stream.input_end = FALSE
  BY <1>1 DEF new_ByteStream
<1> HIDE DEF t
<1>3. Ready(flow, t, Edge(t))
  BY <1>1, AnyEdge, Zenon
<1> QED
  BY <1>1, <1>2, <1>3, Zenon DEF t, Stands

-------------------------------------------------------------------------------
(***************************************************************************)
(* What the segments of a sender are to its peer                           *)
(***************************************************************************)
\* The fields that say what has been received do not change what is sent.
LEMMA StampedSays ==
  ASSUME NEW flow, NEW t, NEW seg, NEW p \in Segs(flow), Stamped(seg, p), Says(flow, t, seg)
  PROVE  Says(flow, t, p)
<1>1. Start(flow, p) = Start(flow, seg)
      /\ length_in_sequence_space(p) = length_in_sequence_space(seg)
  BY Zenon DEF Start, length_in_sequence_space, Stamped
<1>2. End(flow, p) = End(flow, seg)
  BY <1>1, Zenon DEF End
<1>3. Sent(flow, t, seg) => Sent(flow, t, p)
  BY <1>1, <1>2, Zenon DEF Sent, Carries, Placed, Stamped
<1>4. Answer(flow, seg) => Answer(flow, p)
  BY Zenon DEF Answer, Stamped
<1> QED
  BY <1>3, <1>4, Zenon DEF Says, Stamped

\* A segment on its way stays one when its sender goes on.
LEMMA SaysFollows ==
  ASSUME NEW flow, IsOutgoing(flow), NEW t, NEW u, Stands(flow, t), Stands(flow, u), Follows(t, u),
         NEW seg, Says(flow, t, seg)
  PROVE  Says(flow, u, seg)
BY SentFollows, Zenon DEF Says

\* The sequence number whose place in the flow is 0
LEMMA StartZero ==
  ASSUME NEW isn \in WrappingInt32, NEW s \in WrappingInt32, (s - isn) % SeqMod = 0
  PROVE  s = isn
<1>1. /\ isn \in Nat /\ isn < SeqMod /\ s \in Nat /\ s < SeqMod /\ SeqMod \in Nat /\ SeqMod > 0
  BY Modulus, SMTT(20) DEF WrappingInt32
<1>2. CASE s >= isn
  <2>1. (s - isn) % SeqMod = s - isn
    BY <1>1, <1>2, Reduced, SMTT(20)
  <2> QED
    BY <1>1, <2>1
<1>3. CASE s < isn
  <2>1. s - isn + SeqMod \in Int /\ 0 <= s - isn + SeqMod /\ s - isn + SeqMod < SeqMod
        /\ s - isn \in Int
        /\ s - isn = (s - isn + SeqMod) - SeqMod
    BY <1>1, <1>3
  <2>2. (s - isn) % SeqMod = s - isn + SeqMod
    BY <1>1, <2>1, Reduced, SMTT(20)
  <2> QED
    BY <1>1, <1>3, <2>2
<1> QED
  BY <1>1, <1>2, <1>3, SMTT(20)

\* The receiver finds the bytes of a segment at their place.
LEMMA SegmentIndex ==
  ASSUME NEW flow, IsOutgoing(flow), NEW t, Stands(flow, t), NEW seg, Sent(flow, t, seg)
  PROVE  /\ \E i, k \in Nat : FallsAt(flow, t, seg, i, k) /\ IndexedAt(flow, seg, i)
         /\ seg.syn = TRUE => seg.seqno = flow.isn
<1> DEFINE a == Start(flow, seg)
           k == Len(seg.payload)
           i == IF seg.syn THEN 0 ELSE a - 1
<1>1. /\ Carries(flow, seg) /\ Placed(flow, seg, t.stream.read + 1, Bit(t.set_fin))
  BY Zenon DEF Sent
<1>2. /\ seg.seqno \in WrappingInt32 /\ seg.syn \in BOOLEAN /\ seg.fin \in BOOLEAN
      /\ seg.payload \in Seq(flow.byte) /\ flow.isn \in WrappingInt32
      /\ seg.syn <=> a = 0
      /\ seg.payload = Bytes(flow, i, k)
  <2>1. seg \in Segs(flow) /\ (seg.syn <=> a = 0) /\ seg.payload = Bytes(flow, i, k)
    BY <1>1, Zenon DEF Carries
  <2> HIDE DEF a, i, k
  <2> QED
    BY <2>1, Constants, SMTT(20) DEF Segs, Segments
<1>3. a \in Nat /\ k \in Nat
  BY <1>1, <1>2, SegmentNumbers, SMTT(20)
<1>4. \A c \in Nat : c <= Limit(flow) => unwrap(seg.seqno, flow.isn, c) = a
  BY <1>1, SegmentNumbers, Zenon
<1>5. End(flow, seg) = a + k + Bit(seg.syn) + Bit(seg.fin)
  <2>1. End(flow, seg) = a + (k + Bit(seg.syn) + Bit(seg.fin))
    BY LengthBits, Zenon DEF End
  <2>2. Bit(seg.syn) \in Nat /\ Bit(seg.fin) \in Nat
    BY <1>2, BitNumber
  <2> HIDE DEF a, k
  <2> QED
    BY <1>3, <2>1, <2>2, SMTT(20)
<1> HIDE DEF a, k
<1>6. i \in Nat /\ i + k + 1 = a + k + Bit(seg.syn)
  BY <1>2, <1>3, BitNumber, SMTT(20)
<1> HIDE DEF i
<1>7. t.stream.read \in Nat /\ t.set_fin \in BOOLEAN
  BY StandsStood, Zenon DEF Stood
<1>8. ASSUME seg.fin = FALSE
      PROVE  FallsAt(flow, t, seg, i, k)
  <2>1. End(flow, seg) <= t.stream.read + 1 /\ Bit(seg.fin) = 0
    BY <1>1, <1>8, BitNumber, SMTT(20) DEF Placed
  <2>2. i + k <= t.stream.read
    BY <1>2, <1>3, <1>5, <1>6, <1>7, <2>1, BitNumber, SMTT(20)
  <2> QED
    BY <1>2, <1>8, <2>2 DEF FallsAt
<1>9. ASSUME seg.fin = TRUE
      PROVE  FallsAt(flow, t, seg, i, k)
  <2>1. End(flow, seg) = (t.stream.read + 1) + 1 /\ Bit(seg.fin) = 1 /\ Bit(t.set_fin) = 1
    BY <1>1, <1>9, BitNumber, SMTT(20) DEF Placed
  <2>2. i + k = t.stream.read
    BY <1>2, <1>3, <1>5, <1>6, <1>7, <2>1, BitNumber, SMTT(20)
  <2>3. t.set_fin = TRUE
    BY <1>7, <2>1, BitNumber
  <2>4. i + k <= t.stream.read
    BY <1>7, <2>2, SMTT(20)
  <2> QED
    BY <1>2, <2>2, <2>3, <2>4, Zenon DEF FallsAt
<1>10. FallsAt(flow, t, seg, i, k)
  BY <1>2, <1>8, <1>9, Zenon
<1>11. ASSUME NEW c \in Nat, c <= Limit(flow)
       PROVE  IndexFrom(flow.isn, seg, c) = i
  <2>1. unwrap(seg.seqno, flow.isn, c) = a
    BY <1>4, <1>11, SMTT(20)
  <2> QED
    BY <1>2, <1>3, <2>1, SMTT(20) DEF IndexFrom, SizeSub, i
<1>12. seg.syn = TRUE => seg.seqno = flow.isn
  <2>1. seg.syn = TRUE => (seg.seqno - flow.isn) % SeqMod = 0
    BY <1>2, Zenon DEF a, Start
  <2> QED
    BY <1>2, <2>1, StartZero, Zenon
<1> QED
  BY <1>3, <1>6, <1>10, <1>11, <1>12, Zenon DEF IndexedAt

\* An answer may be found at any place; it has no bytes.
LEMMA AnswerIndex ==
  ASSUME NEW flow, IsOutgoing(flow), NEW seg, Answer(flow, seg), NEW c \in Nat, c <= Limit(flow)
  PROVE  IndexFrom(flow.isn, seg, c) \in Nat
<1>1. seg.seqno \in WrappingInt32 /\ seg.syn = FALSE
  BY SMTT(20) DEF Answer, Segs, Segments
<1>2. unwrap(seg.seqno, flow.isn, c) = (seg.seqno - flow.isn) % SeqMod
  BY <1>1, UnwrapStart, Zenon
<1>3. (seg.seqno - flow.isn) % SeqMod \in Nat
  <2>1. seg.seqno - flow.isn \in Int /\ SeqMod \in Nat /\ SeqMod > 0
    BY <1>1, Constants, Modulus, SMTT(20) DEF WrappingInt32
  <2> QED
    BY <2>1, Division, SMTT(20)
<1> QED
  BY <1>1, <1>2, <1>3, SizeMaxAssumption, SMTT(20) DEF IndexFrom, SizeSub

\* The segment that send_rst_segment sends
LEMMA RstSays ==
  ASSUME NEW flow, IsOutgoing(flow), NEW t, Stands(flow, t), NEW u
  PROVE  Says(flow, u, [EmptySegment(wrap(t.next_seqno, t.isn)) EXCEPT !.rst = TRUE])
<1>1. t.isn = flow.isn
  BY Zenon DEF Stands, Ready
<1>2. t.next_seqno \in Nat /\ t.next_seqno < SeqMod
  <2>1. t.next_seqno \in Nat /\ t.next_seqno <= Limit(flow)
    BY NextWithinLimit, Zenon DEF Stands
  <2> QED
    BY <2>1, Constants, SMTT(20)
<1>3. PICK s \in WrappingInt32 : s = wrap(t.next_seqno, t.isn)
  BY <1>1, <1>2, WrapStart, Zenon
<1>4. 0 \in WrappingInt32
  BY Modulus DEF WrappingInt32
<1>5. ASSUME NEW B
      PROVE  << >> \in Seq(B)
  OBVIOUS
<1>6. [EmptySegment(s) EXCEPT !.rst = TRUE] \in Segs(flow)
  <2>1. 0 \in Nat /\ << >> \in Seq(flow.byte)
    BY <1>5
  <2>2. EmptySegment(s) \in Segs(flow)
    BY <1>4, <2>1 DEF EmptySegment, Segs, Segments
  <2> QED
    BY <2>2, Zenon DEF Segs, Segments
<1>7. [EmptySegment(s) EXCEPT !.rst = TRUE].rst = TRUE
  BY DEF EmptySegment
<1> QED
  BY <1>3, <1>6, <1>7, Zenon DEF Says
===============================================================================
