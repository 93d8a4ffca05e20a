--------------------------- MODULE ConnectionLemmas ---------------------------
(***************************************************************************)
(* The lemmas about a connection and its peer: each call on the connection *)
(* keeps what the invariant says of the two, whatever segment it is given. *)
(* Rules stands for what the connection relies on in its sender and its    *)
(* reassembler.                                                            *)
(***************************************************************************)
EXTENDS ConnectionFlow, TLAPS

\* Assignments to the fields of a receiver
LEMMA RxChange ==
  ASSUME NEW rx, NEW r, NEW capacity, NEW syn, NEW fin, NEW isn, NEW x,
         IsRx(rx, r, capacity, syn, fin, isn)
  PROVE  /\ IsRx([rx EXCEPT !.reassembler = x], x, capacity, syn, fin, isn)
         /\ IsRx([rx EXCEPT !.set_syn = x], r, capacity, x, fin, isn)
         /\ IsRx([rx EXCEPT !.set_fin = x], r, capacity, syn, x, isn)
         /\ IsRx([rx EXCEPT !.isn = x], r, capacity, syn, fin, x)
         /\ IsRx([rx EXCEPT !.reassembler.output = x],
                 [r EXCEPT !.output = x], capacity, syn, fin, isn)
BY DEF IsRx

\* and its fields
LEMMA RxFields ==
  ASSUME NEW rx, NEW r, NEW capacity, NEW syn, NEW fin, NEW isn,
         IsRx(rx, r, capacity, syn, fin, isn)
  PROVE  /\ rx.reassembler = r /\ rx.capacity = capacity /\ rx.set_syn = syn
         /\ rx.set_fin = fin /\ rx.isn = isn
BY DEF IsRx

\* and to those of a connection
LEMMA NodeChange ==
  ASSUME NEW c, NEW rx, NEW tx, NEW out, NEW l, NEW tm, NEW a, NEW x,
         IsNode(c, rx, tx, out, l, tm, a)
  PROVE  /\ IsNode([c EXCEPT !.receiver = x], x, tx, out, l, tm, a)
         /\ IsNode([c EXCEPT !.sender = x], rx, x, out, l, tm, a)
         /\ IsNode([c EXCEPT !.segments_out = x], rx, tx, x, l, tm, a)
         /\ IsNode([c EXCEPT !.linger = x], rx, tx, out, x, tm, a)
         /\ IsNode([c EXCEPT !.time_since_last_segment = x], rx, tx, out, l, x, a)
         /\ IsNode([c EXCEPT !.active = x], rx, tx, out, l, tm, x)
         /\ IsNode([c EXCEPT !.sender.segments_out = x],
                   rx, [tx EXCEPT !.segments_out = x], out, l, tm, a)
         /\ IsNode([c EXCEPT !.sender.stream = x], rx, [tx EXCEPT !.stream = x], out, l, tm, a)
         /\ IsNode([c EXCEPT !.receiver.reassembler.output = x],
                   [rx EXCEPT !.reassembler.output = x], tx, out, l, tm, a)
BY SMTT(20) DEF IsNode

\* and its fields
LEMMA NodeFields ==
  ASSUME NEW c, NEW rx, NEW tx, NEW out, NEW l, NEW tm, NEW a,
         IsNode(c, rx, tx, out, l, tm, a)
  PROVE  /\ c.receiver = rx /\ c.sender = tx /\ c.segments_out = out
         /\ c.linger = l /\ c.time_since_last_segment = tm /\ c.active = a
BY DEF IsNode

\* A receiver is never ahead of the sender.
LEMMA ReceivingNumbers ==
  ASSUME Rules, NEW flow, IsOutgoing(flow), NEW t, Stands(flow, t), NEW rx, Receiving(flow, t, rx)
  PROVE  Behind(flow, t, rx) /\ Assembled(flow, t.stream.read, rx.reassembler, t.set_fin)
<1> DEFINE bs == rx.reassembler.output
           n == t.stream.read
<1>1. Stood(flow, t) /\ IsFlow(flow)
  BY Zenon DEF Rules, StandingRule, FlowRule
<1>2. /\ n \in Nat /\ t.next_seqno \in Nat /\ t.set_syn \in BOOLEAN /\ t.set_fin \in BOOLEAN
      /\ n <= t.stream.written /\ t.stream.written \in Nat /\ t.stream.written <= Len(flow.stream)
      /\ t.set_syn = FALSE => t.next_seqno = 0
      /\ t.set_syn = TRUE /\ t.set_fin = FALSE => t.next_seqno = n + 1
      /\ t.set_fin = TRUE => n = Len(flow.stream) /\ t.next_seqno = Len(flow.stream) + 2
  BY <1>1, Zenon DEF Stood
<1>3. Len(flow.stream) \in Nat /\ Limit(flow) = Len(flow.stream) + 2 /\ n \in 0 .. Len(flow.stream)
  BY <1>1, <1>2, SMTT(20) DEF IsFlow, Limit
<1>4. Assembled(flow, n, rx.reassembler, t.set_fin)
  BY <1>1, <1>3, Zenon DEF Receiving, Rules, OutputRule
<1>5. /\ bs.written \in Nat /\ bs.input_end \in BOOLEAN /\ bs.written <= n
      /\ rx.reassembler.eof_index # SizeMax => t.set_fin = TRUE
      /\ bs.input_end = TRUE <=> rx.reassembler.eof_index # SizeMax /\ bs.written = n
  BY <1>4, SMTT(20) DEF Assembled, ByteStreams
<1>6. rx.set_syn \in BOOLEAN /\ (rx.set_syn = TRUE => t.set_syn = TRUE)
  BY Zenon DEF Receiving
<1>7. /\ rx.set_syn = FALSE => Rcvd(rx) = 0
      /\ rx.set_syn = TRUE /\ bs.input_end = FALSE => Rcvd(rx) = bs.written + 1
      /\ rx.set_syn = TRUE /\ bs.input_end = TRUE => Rcvd(rx) = bs.written + 2
  BY <1>5 DEF Rcvd, has_ackno, abs_ackno, stream_out
<1> HIDE DEF bs, n
<1>8. Behind(flow, t, rx)
  <2>1. bs = stream_out(rx) /\ n = t.stream.read
        /\ (HasAll(rx) <=> rx.set_syn = TRUE /\ bs.input_end = TRUE)
    BY Zenon DEF bs, n, HasAll, stream_out
  <2>2. /\ Rcvd(rx) \in Nat /\ Rcvd(rx) <= t.next_seqno /\ t.next_seqno <= Limit(flow)
        /\ Rcvd(rx) <= Limit(flow) /\ bs.written + 1 <= Limit(flow)
        /\ bs.input_end = TRUE => t.set_fin = TRUE /\ bs.written = Len(flow.stream)
        /\ Rcvd(rx) = Limit(flow) => rx.set_syn = TRUE /\ bs.input_end = TRUE
        /\ rx.set_syn = TRUE /\ bs.input_end = TRUE => Rcvd(rx) = Limit(flow) /\ t.set_fin = TRUE
    BY <1>2, <1>3, <1>5, <1>6, <1>7, SMTT(20)
  <2>3. Rcvd(rx) < SeqMod
    BY <1>3, <2>2 DEF Rules, SpaceRule
  <2> QED
    BY <1>5, <2>1, <2>2, <2>3, Zenon DEF Behind
<1> QED
  BY <1>4, <1>8, Zenon DEF n
\* A receiver that has taken in more of the stream has received more.
LEMMA ReceivingMore ==
  ASSUME Rules, NEW flow, IsOutgoing(flow), NEW t, Stands(flow, t), NEW rx, Receiving(flow, t, rx),
         NEW q, Receiving(flow, t, q), rx.set_syn = TRUE => q.set_syn = TRUE,
         stream_out(rx).written <= stream_out(q).written,
         stream_out(rx).input_end = TRUE => stream_out(q).input_end = TRUE
  PROVE  Grows(rx, q)
<1>1. Behind(flow, t, rx) /\ Behind(flow, t, q)
  BY ReceivingNumbers, Zenon
<1>2. /\ Rcvd(q) \in Nat /\ stream_out(rx).written \in Nat /\ stream_out(q).written \in Nat
  BY <1>1, Zenon DEF Behind
<1>3. Rcvd(rx) <= Rcvd(q)
  BY <1>2 DEF Rcvd, has_ackno, abs_ackno, Receiving
<1> QED
  BY <1>3, Zenon DEF Grows, HasAll, stream_out

\* q is rx after segment seg.
TakesIn(rx, q, seg) ==
    /\ Grows(rx, q) /\ stream_out(q).error = stream_out(rx).error
    /\ q.reassembler.eof_index # SizeMax => rx.reassembler.eof_index # SizeMax \/ seg.fin = TRUE

\* The index that receiver_segment_received computes is that of the bytes of the segment,
\* which the reassembler takes in.
LEMMA ReceiverPush ==
  ASSUME Rules, NEW flow, IsOutgoing(flow), NEW t, Stands(flow, t), NEW rx, Receiving(flow, t, rx),
         NEW seg, Sent(flow, t, seg) \/ (Answer(flow, seg) /\ rx.set_syn = TRUE)
  PROVE  LET q == push_substring(rx.reassembler, seg.payload,
                                 stream_index(rx, seg, flow.isn), seg.fin)
         IN  /\ Assembling(flow, t.stream.read, q, t.set_fin) /\ Fed(rx.reassembler, q, seg.fin)
<1> DEFINE c == stream_out(rx).written + 1
           n == t.stream.read
           r == rx.reassembler
<1>1. IsFlow(flow) /\ Behind(flow, t, rx) /\ Stood(flow, t) /\ Assembling(flow, n, r, t.set_fin)
  BY ReceivingNumbers, Zenon DEF Receiving, Rules, FlowRule, StandingRule
<1>2. c \in Nat /\ c <= Limit(flow) /\ n \in 0 .. Len(flow.stream)
  <2>1. stream_out(rx).written \in Nat /\ c <= Limit(flow)
    BY <1>1, Zenon DEF Behind
  <2>2. n \in Nat /\ n <= t.stream.written /\ t.stream.written <= Len(flow.stream)
        /\ t.stream.written \in Nat /\ flow.stream \in Seq(flow.byte)
    BY <1>1, Zenon DEF Stood, IsFlow
  <2> QED
    BY <2>1, <2>2, SMTT(20)
<1>3. stream_index(rx, seg, flow.isn) = IndexFrom(flow.isn, seg, c)
  BY Zenon DEF stream_index, IndexFrom
<1> HIDE DEF c, n, r
<1>4. CASE Sent(flow, t, seg)
  <2>1. PICK i \in Nat, k \in Nat : FallsAt(flow, t, seg, i, k) /\ IndexedAt(flow, seg, i)
    BY <1>4, Zenon DEF Rules, PlaceRule
  <2>2. /\ seg.payload = Bytes(flow, i, k) /\ i + k <= n
        /\ seg.fin = TRUE => t.set_fin = TRUE /\ i + k = n
    BY <2>1, Zenon DEF FallsAt, n
  <2>3. seg.fin \in BOOLEAN
    BY <1>4 DEF Sent, Carries, Segs, Segments
  <2>4. stream_index(rx, seg, flow.isn) = i
    BY <1>2, <1>3, <2>1, Zenon DEF IndexedAt
  <2>5. /\ Assembling(flow, n, push_substring(r, Bytes(flow, i, k), i, seg.fin), t.set_fin)
        /\ Fed(r, push_substring(r, Bytes(flow, i, k), i, seg.fin), seg.fin)
    <3>1. Holds(n, t.set_fin, i, k, seg.fin)
      BY <2>2, <2>3, Zenon DEF Holds
    <3> QED
      BY <1>1, <1>2, <3>1, Zenon DEF Rules, PushRule, Feeds
  <2> QED
    BY <2>2, <2>4, <2>5, Zenon DEF r, n
<1>5. CASE Answer(flow, seg) /\ rx.set_syn = TRUE
  <2>1. IndexFrom(flow.isn, seg, c) \in Nat
    BY <1>2, <1>5, Zenon DEF Rules, AnswerPlaceRule
  <2>2. seg.payload = << >> /\ seg.fin = FALSE
    BY <1>5, Zenon DEF Answer
  <2> QED
    BY <1>1, <1>2, <1>3, <2>1, <2>2, Zenon DEF r, n, Rules, PushNothingRule, Feeds
<1> QED
  BY <1>4, <1>5, Zenon

\* receiver_segment_received
LEMMA ReceiverTakes ==
  ASSUME Rules, NEW flow, IsOutgoing(flow), NEW t, Stands(flow, t), NEW rx, Receiving(flow, t, rx),
         NEW seg, Says(flow, t, seg), seg.rst = FALSE
  PROVE  LET q == receiver_segment_received(rx, seg)
         IN  Receiving(flow, t, q) /\ TakesIn(rx, q, seg)
<1> DEFINE u == receiver_segment_received(rx, seg)
           q == push_substring(rx.reassembler, seg.payload,
                               stream_index(rx, seg, flow.isn), seg.fin)
<1>1. /\ Sent(flow, t, seg) \/ Answer(flow, seg)
      /\ seg.syn \in BOOLEAN /\ seg.fin \in BOOLEAN /\ rx.set_syn \in BOOLEAN
  <2>1. seg \in Segs(flow)
    BY Zenon DEF Says
  <2> QED
    BY <2>1, SMTT(20) DEF Says, Segs, Segments, Receiving
<1>2. CASE rx.set_syn = FALSE /\ seg.syn = FALSE
  <2>1. u = rx
    BY <1>2, Zenon DEF receiver_segment_received
  <2>2. Grows(rx, rx)
    <3>0. stream_out(rx).written \in Nat
      BY ReceivingNumbers, Zenon DEF Behind
    <3>1. stream_out(rx).written <= stream_out(rx).written
      BY <3>0, SMTT(20)
    <3> QED
      BY <3>1, ReceivingMore, Zenon
  <2> QED
    BY <2>1, <2>2, Zenon DEF TakesIn
<1>3. CASE rx.set_syn = TRUE \/ seg.syn = TRUE
  <2>1. Sent(flow, t, seg) \/ (Answer(flow, seg) /\ rx.set_syn = TRUE)
    BY <1>1, <1>3, Zenon DEF Answer
  <2>2. t.set_syn = TRUE /\ (IF rx.set_syn THEN rx.isn ELSE seg.seqno) = flow.isn
    <3>1. rx.set_syn = TRUE => rx.isn = flow.isn /\ t.set_syn = TRUE
      BY Zenon DEF Receiving
    <3>2. Sent(flow, t, seg) => t.set_syn = TRUE
      BY Zenon DEF Sent
    <3>3. Sent(flow, t, seg) /\ seg.syn = TRUE => seg.seqno = flow.isn
      BY Zenon DEF Rules, PlaceRule
    <3> QED
      BY <1>1, <1>3, <2>1, <3>1, <3>2, <3>3, Zenon
  <2>3. Assembling(flow, t.stream.read, q, t.set_fin) /\ Fed(rx.reassembler, q, seg.fin)
    BY <2>1, ReceiverPush, Zenon
  <2>4. u = [rx EXCEPT !.set_syn = TRUE, !.isn = flow.isn, !.set_fin = @ \/ seg.fin, !.reassembler = q]
    BY <1>1, <1>3, <2>2, Zenon DEF receiver_segment_received
  <2> HIDE DEF q
  <2>5. IsRx(u, q, flow.capacity, TRUE, rx.set_fin \/ seg.fin, flow.isn)
    <3>1. PICK y, z : y = TRUE /\ z = (rx.set_fin \/ seg.fin)
      BY Zenon
    <3>2. IsRx([rx EXCEPT !.set_syn = y, !.isn = flow.isn],
               rx.reassembler, flow.capacity, y, rx.set_fin, flow.isn)
      BY RxChange, ZenonT(40) DEF Receiving
    <3>3. IsRx([rx EXCEPT !.set_syn = y, !.isn = flow.isn, !.set_fin = z, !.reassembler = q],
               q, flow.capacity, y, z, flow.isn)
      BY <3>2, RxChange, Zenon
    <3> QED
      BY <2>4, <3>1, <3>3, Zenon
  <2>6. /\ u.reassembler = q /\ u.set_syn = TRUE /\ u.isn = flow.isn
        /\ u.set_fin = (rx.set_fin \/ seg.fin)
    BY <2>5, RxFields, ZenonT(40)
  <2> HIDE DEF u
  <2>7. Receiving(flow, t, u)
    BY <2>2, <2>3, <2>5, <2>6, Zenon DEF Receiving
  <2>8. Grows(rx, u)
    BY <2>3, <2>6, <2>7, ReceivingMore, Zenon DEF Fed, stream_out
  <2> QED
    BY <2>3, <2>6, <2>7, <2>8, Zenon DEF TakesIn, Fed, u, stream_out
<1> QED
  BY <1>1, <1>2, <1>3, Zenon
-------------------------------------------------------------------------------
(***************************************************************************)
(* One connection and its peer                                             *)
(***************************************************************************)
\* assembled fills in the fields for the peer.
LEMMA AssembledSegment ==
  ASSUME Rules, NEW f, NEW g, IsOutgoing(g), NEW tp, Stands(g, tp), NEW c,
         Receiving(g, tp, c.receiver),
         NEW seg \in Segs(f)
  PROVE  /\ assembled(c, seg) \in Segs(f) /\ Stamped(seg, assembled(c, seg))
         /\ Stamps(c.receiver, assembled(c, seg))
<1> DEFINE rx == c.receiver
           h == has_ackno(rx)
           k == IF h THEN ackno(rx) ELSE seg.ackno
           w == MinOf(WinMax, window_size(rx))
<1>1. Behind(g, tp, rx) /\ Assembled(g, tp.stream.read, rx.reassembler, tp.set_fin)
  BY ReceivingNumbers, Zenon
<1>2. h \in BOOLEAN /\ h = rx.set_syn
      /\ (h = TRUE => ackno(rx) = wrap(Rcvd(rx), rx.isn) /\ rx.isn = g.isn)
  BY DEF Receiving, has_ackno, ackno, Rcvd
<1>3. seg.ackno \in WrappingInt32
  BY DEF Segs, Segments
<1>4. Rcvd(rx) \in Nat /\ Rcvd(rx) < SeqMod
  BY <1>1, Zenon DEF Behind
<1>5. wrap(Rcvd(rx), g.isn) \in WrappingInt32
  BY <1>4, Zenon DEF Rules, WrapRule
<1>6. k \in WrappingInt32 /\ (rx.set_syn = TRUE => k = wrap(Rcvd(rx), rx.isn))
  BY <1>2, <1>3, <1>5, Zenon
<1>7. w \in Nat
  <2>1. Len(rx.reassembler.output.buffer) \in Nat /\ Len(rx.reassembler.output.buffer) <= g.capacity
    BY <1>1 DEF Assembled, ByteStreams
  <2>2. rx.capacity = g.capacity /\ g.capacity \in Nat
    BY RxFields DEF Receiving, IsFlow, Rules, FlowRule
  <2> QED
    BY <2>1, <2>2, ConnectionAssumption, SMTT(20) DEF window_size, stream_out, buffer_size, MinOf
<1>8. assembled(c, seg) = [seg EXCEPT !.ack = h, !.ackno = k, !.win = w]
  BY Zenon DEF assembled
<1> HIDE DEF h, k, w
<1>9. PICK p : p = [seg EXCEPT !.ack = h, !.ackno = k, !.win = w]
  BY Zenon
<1>10. p \in Segs(f) /\ p.ack = h /\ p.ackno = k /\ Stamped(seg, p)
  BY <1>2, <1>6, <1>7, <1>9, Zenon DEF Segs, Segments, Stamped
<1>11. Stamps(rx, p)
  BY <1>2, <1>6, <1>10, Zenon DEF Stamps
<1> QED
  BY <1>8, <1>9, <1>10, <1>11, Zenon

\* segment_assemble_send
LEMMA AssembleSend ==
  ASSUME Rules, NEW f, NEW u, NEW g, IsOutgoing(g), NEW tp, Stands(g, tp), NEW rx,
         Receiving(g, tp, rx),
         NEW tx, NEW q \in Seq(Segs(f)), tx.segments_out = q, NEW b,
         \A j \in 1 .. Len(q) : Says(f, u, q[j]) /\ q[j].rst = b,
         NEW c, NEW l, NEW tm, NEW a, IsNode(c, rx, tx, << >>, l, tm, a)
  PROVE  \E s \in Seq(Segs(f)) :
           /\ IsNode(segment_assemble_send(c), rx, [tx EXCEPT !.segments_out = << >>], s, l, tm, a)
           /\ Queued(f, u, rx, s, b)
<1> DEFINE s == [j \in 1 .. Len(q) |-> assembled(c, q[j])]
<1>1. c.receiver = rx /\ c.sender = tx /\ c.segments_out = << >>
  BY NodeFields, Zenon
<1>2. \A j \in 1 .. Len(q) : q[j] \in Segs(f)
  BY SMTT(20)
<1>3. \A j \in 1 .. Len(q) : /\ assembled(c, q[j]) \in Segs(f) /\ Stamped(q[j], assembled(c, q[j]))
                            /\ Stamps(rx, assembled(c, q[j]))
  BY <1>1, <1>2, AssembledSegment, Zenon
<1>4. s \in Seq(Segs(f)) /\ Len(s) = Len(q)
  BY <1>3
<1>5. << >> \o s = s
  <2> HIDE DEF s
  <2> QED
    BY <1>4
<1>6. ASSUME NEW j \in 1 .. Len(s)
      PROVE  Says(f, u, s[j]) /\ Stamps(rx, s[j]) /\ s[j].rst = b
  <2>1. j \in 1 .. Len(q) /\ s[j] = assembled(c, q[j])
    BY <1>4, Zenon
  <2> HIDE DEF s
  <2> QED
    BY <1>3, <2>1, ZenonT(40) DEF Stamped, Rules, StampRule
<1>7. segment_assemble_send(c) = [c EXCEPT !.sender.segments_out = << >>, !.segments_out = << >> \o s]
  BY <1>1, Zenon DEF segment_assemble_send
<1>8. IsNode(segment_assemble_send(c), rx, [tx EXCEPT !.segments_out = << >>], s, l, tm, a)
  <2> HIDE DEF s
  <2>1. IsNode([c EXCEPT !.sender.segments_out = << >>], rx, [tx EXCEPT !.segments_out = << >>],
               << >>, l, tm, a)
    BY NodeChange, Zenon
  <2>2. IsNode([c EXCEPT !.sender.segments_out = << >>, !.segments_out = s],
               rx, [tx EXCEPT !.segments_out = << >>], s, l, tm, a)
    BY <2>1, NodeChange, Zenon
  <2> QED
    BY <1>5, <1>7, <2>2, Zenon
<1> QED
  BY <1>4, <1>6, <1>8, Zenon DEF Queued
\* A call that has not done anything yet
LEMMA MovedStart ==
  ASSUME Rules, NEW f, NEW g, NEW c, NEW p, Both(f, g, c, p)
  PROVE  Moved(f, g, c, p, c.receiver, c.sender, c.linger)
<1>1. Stands(f, c.sender) /\ Stands(g, p.sender) /\ Receiving(g, p.sender, c.receiver)
      /\ IsOutgoing(f) /\ IsOutgoing(g)
  BY Zenon DEF Both, SideOK
<1>2. c.sender.recv_ackno \in Nat /\ c.sender.stream.read \in Nat
  BY <1>1, Zenon DEF Stood, Rules, StandingRule
<1>3. stream_out(c.receiver).written \in Nat
  BY <1>1, ReceivingNumbers, Zenon DEF Behind
<1>4. /\ c.sender.recv_ackno <= c.sender.recv_ackno /\ c.sender.stream.read <= c.sender.stream.read
      /\ stream_out(c.receiver).written <= stream_out(c.receiver).written
  BY <1>2, <1>3
<1>5. Grows(c.receiver, c.receiver)
  BY <1>1, <1>4, ReceivingMore, Zenon
<1>6. Follows(c.sender, c.sender)
  BY <1>4, Zenon DEF Follows
<1> QED
  BY <1>5, <1>6, Zenon DEF Moved, Both, SideOK, Dead

\* The sender goes on.
LEMMA MovedOn ==
  ASSUME Rules, NEW f, NEW g, NEW c, NEW p, Both(f, g, c, p), NEW rx, NEW t, NEW l,
         Moved(f, g, c, p, rx, t, l),
         NEW u, Stands(f, u), Follows(t, u), u.recv_ackno = t.recv_ackno,
         \/ c.active = TRUE \/ u.consecutive_retransmissions = t.consecutive_retransmissions
         \/ Spent(t) => Spent(u)
  PROVE  Moved(f, g, c, p, rx, u, l)
<1>2. Dead(c) => Spent(u)
  <2>1. Dead(c) => Spent(t) /\ ~(c.active = TRUE)
    BY DEF Moved, Dead
  <2> QED
    BY <2>1, Zenon DEF Spent
<1>1. Follows(c.sender, u)
  BY Zenon DEF Both, SideOK, Moved, Rules, FollowingRule
<1> QED
  BY <1>1, <1>2, Zenon DEF Moved, Released

\* An acknowledgment for everything stays.
LEMMA StaysComplete ==
  ASSUME Rules, NEW f, IsOutgoing(f), NEW t, Stands(f, t), NEW u, Stands(f, u), Follows(t, u),
         t.recv_ackno = Limit(f)
  PROVE  u.recv_ackno = Limit(f)
<1>1. Stood(f, u) /\ u.next_seqno <= Limit(f)
  BY Zenon DEF Stands, Rules, StandingRule, LimitRule
<1>2. u.recv_ackno \in Nat /\ u.next_seqno \in Nat /\ u.recv_ackno <= u.next_seqno
      /\ Limit(f) \in Nat
  BY <1>1, Zenon DEF Stood, Rules, SpaceRule
<1>3. Limit(f) <= u.recv_ackno
  BY Zenon DEF Follows
<1> QED
  BY <1>1, <1>2, <1>3, SMTT(20)

\* The call ends with receiver rx and with what sender tx has queued on its way out.
SendsOff(f, g, c, p, rx, tx, u) ==
    /\ CallOK(f, g, c, p, u, FALSE) /\ u.active = c.active /\ u.receiver = rx
    /\ u.sender.stream = tx.stream
    /\ u.sender.consecutive_retransmissions = tx.consecutive_retransmissions

\* The last part of most calls: what the sender has queued goes out.
LEMMA Sends ==
  ASSUME Rules, NEW f, NEW g, NEW c, NEW p, Both(f, g, c, p), NEW rx, NEW tx, NEW l, NEW tm, NEW d,
         Moved(f, g, c, p, rx, tx, l), IsNode(d, rx, tx, << >>, l, tm, c.active),
         stream_out(rx).error = stream_out(c.receiver).error
  PROVE  SendsOff(f, g, c, p, rx, tx, segment_assemble_send(d))
<1> DEFINE u == segment_assemble_send(d)
           v == [tx EXCEPT !.segments_out = << >>]
<1>1. /\ IsOutgoing(f) /\ IsOutgoing(g) /\ SideOK(f, g, c, p) /\ Stands(g, p.sender)
      /\ Stands(f, tx) /\ Receiving(g, p.sender, rx)
  BY Zenon DEF Both, SideOK, Moved
<1>2. /\ Stands(f, v) /\ Follows(tx, v) /\ v.recv_ackno = tx.recv_ackno /\ v.segments_out = << >>
      /\ v.stream = tx.stream
      /\ v.consecutive_retransmissions = tx.consecutive_retransmissions
  BY <1>1, Zenon DEF Proceeds, SameNumbers, Rules, TakeRule
<1>3. Moved(f, g, c, p, rx, v, l)
  BY <1>2, MovedOn, Zenon
<1>4. tx.segments_out \in Seq(Segs(f)) /\ SentOK(f, tx)
  BY <1>1, SMTT(20) DEF Stands, Ready, Senders
<1>5. ASSUME NEW j \in 1 .. Len(tx.segments_out)
      PROVE  Says(f, v, tx.segments_out[j]) /\ tx.segments_out[j].rst = FALSE
  <2>1. Sent(f, tx, tx.segments_out[j]) \/ Answer(f, tx.segments_out[j])
    BY <1>4, Zenon DEF SentOK
  <2>2. Says(f, tx, tx.segments_out[j])
    BY <2>1, Zenon DEF Says, Sent, Carries, Answer
  <2> QED
    BY <1>1, <1>2, <2>1, <2>2, Zenon DEF Sent, Placed, Answer, Rules, SayingRule
<1>6. PICK s \in Seq(Segs(f)) : IsNode(u, rx, v, s, l, tm, c.active) /\ Queued(f, v, rx, s, FALSE)
  BY <1>1, <1>4, <1>5, AssembleSend, Zenon
<1> HIDE DEF u, v
<1>7. /\ u.receiver = rx /\ u.sender = v /\ u.segments_out = s /\ u.linger = l
      /\ u.time_since_last_segment = tm /\ u.active = c.active
  BY <1>6, SMTT(20) DEF IsNode
<1>8. Status(f, rx, v, c.active)
  <2>1. Follows(c.sender, v) /\ Stands(f, c.sender) /\ Status(f, c.receiver, c.sender, c.active)
    BY <1>1, <1>3, Zenon DEF Moved, SideOK
  <2>2. c.sender.recv_ackno = Limit(f) => v.recv_ackno = Limit(f)
    BY <1>1, <1>2, <2>1, StaysComplete, Zenon
  <2> QED
    BY <2>1, <2>2, Zenon DEF Status, Moved, Grows
<1>9. Dead(c) => Dead(u)
  BY <1>3, <1>7, Zenon DEF Dead, Moved
<1>10. c.active \in BOOLEAN
  BY <1>1, Zenon DEF SideOK
<1>11. CallOK(f, g, c, p, u, FALSE)
  BY <1>2, <1>3, <1>6, <1>7, <1>8, <1>9, <1>10, Zenon DEF CallOK
<1> QED
  BY <1>2, <1>7, <1>11, Zenon DEF u, SendsOff

\* fill_window has been called, after a change to the stream perhaps.
LEMMA SendsOn ==
  ASSUME Rules, NEW f, NEW g, NEW c, NEW p, Both(f, g, c, p), NEW tx, Stands(f, tx),
         Follows(c.sender, tx),
         tx.recv_ackno = c.sender.recv_ackno,
         \/ c.active = TRUE
         \/ tx.consecutive_retransmissions = c.sender.consecutive_retransmissions
  PROVE  SendsOff(f, g, c, p, c.receiver, tx, segment_assemble_send([c EXCEPT !.sender = tx]))
<1>1. IsNode([c EXCEPT !.sender = tx], c.receiver, tx, << >>, c.linger, c.time_since_last_segment, c.active)
  BY NodeChange, Zenon DEF Both, SideOK
<1>2. Moved(f, g, c, p, c.receiver, tx, c.linger)
  BY MovedStart, MovedOn, Zenon
<1> QED
  BY <1>1, <1>2, Sends, Zenon

\* connect
LEMMA Connects ==
  ASSUME Rules, NEW f, NEW g, NEW c, NEW p, Both(f, g, c, p)
  PROVE  /\ CallOK(f, g, c, p, connect(c), FALSE) /\ connect(c).receiver = c.receiver
         /\ SameInput(c.sender, connect(c).sender)
<1>1. /\ Proceeds(f, c.sender, fill_window(c.sender))
      /\ fill_window(c.sender).recv_ackno = c.sender.recv_ackno
      /\ fill_window(c.sender).consecutive_retransmissions = c.sender.consecutive_retransmissions
  BY Zenon DEF Both, SideOK, Rules, FillRule
<1>2. SendsOff(f, g, c, p, c.receiver, fill_window(c.sender), connect(c))
  BY <1>1, SendsOn, Zenon DEF connect, Proceeds
<1> QED
  BY <1>1, <1>2, Zenon DEF SendsOff, Proceeds, SameInput

\* write
LEMMA Writes ==
  ASSUME Rules, NEW f, NEW g, NEW c, NEW p, Both(f, g, c, p), c.active = TRUE,
         c.sender.stream.input_end = FALSE, NEW n \in Nat,
         c.sender.stream.written + n <= Len(f.stream)
  PROVE  Extended(f, g, c, p, connection_write(c, Bytes(f, c.sender.stream.written, n)), FALSE)
<1> DEFINE tx == fill_window([c.sender EXCEPT !.stream =
                                stream_write(@, Bytes(f, c.sender.stream.written, n))])
           d == connection_write(c, Bytes(f, c.sender.stream.written, n))
<1>1. Extends(f, c.sender, tx, FALSE)
  BY Zenon DEF Both, SideOK, Rules, WriteRule
<1>2. d = segment_assemble_send([c EXCEPT !.sender = tx])
  BY Zenon DEF connection_write
<1> HIDE DEF tx, d
<1>3. SendsOff(f, g, c, p, c.receiver, tx, d)
  BY <1>1, <1>2, SendsOn, Zenon DEF Extends
<1> QED
  BY <1>1, <1>3, Zenon DEF Extends, Extended, SendsOff, d

\* end_input_stream
LEMMA EndsInput ==
  ASSUME Rules, NEW f, NEW g, NEW c, NEW p, Both(f, g, c, p), c.active = TRUE,
         c.sender.stream.input_end = FALSE, c.sender.stream.written = Len(f.stream)
  PROVE  Extended(f, g, c, p, end_input_stream(c), TRUE)
<1> DEFINE tx == fill_window([c.sender EXCEPT !.stream = end_input(@)])
<1>1. Extends(f, c.sender, tx, TRUE)
  BY Zenon DEF Both, SideOK, Rules, EndRule
<1>2. end_input_stream(c) = segment_assemble_send([c EXCEPT !.sender = tx])
  BY Zenon DEF end_input_stream
<1> HIDE DEF tx
<1>3. Stands(f, tx) /\ Follows(c.sender, tx) /\ tx.recv_ackno = c.sender.recv_ackno
  BY <1>1, Zenon DEF Extends
<1>4. SendsOff(f, g, c, p, c.receiver, tx, segment_assemble_send([c EXCEPT !.sender = tx]))
  BY <1>3, SendsOn, Zenon
<1> QED
  BY <1>1, <1>2, <1>4, Zenon DEF Extends, Extended, SendsOff

\* A receiver that is finished, and a sender for which everything is acknowledged, in the
\* words of TCPState
LEMMA Summaries ==
  ASSUME Rules, NEW f, IsOutgoing(f), NEW t, Stands(f, t), NEW g, IsOutgoing(g), NEW tp,
         Stands(g, tp),
         NEW rx, Receiving(g, tp, rx)
  PROVE  /\ receiver_summary(rx) = "FIN_RECV" => HasAll(rx)
         /\ sender_summary(t) = "FIN_ACKED" => t.recv_ackno = Limit(f)
         /\ sender_summary(t) = "SYN_ACKED" => t.set_fin = FALSE
<1>1. /\ rx.set_syn \in BOOLEAN /\ rx.reassembler.output.input_end \in BOOLEAN
  <2>1. Assembled(g, tp.stream.read, rx.reassembler, tp.set_fin)
    BY ReceivingNumbers, Zenon
  <2> QED
    BY <2>1 DEF Assembled, ByteStreams, Receiving
<1>2. receiver_summary(rx) = "FIN_RECV" => HasAll(rx)
  BY <1>1, SMTT(20) DEF receiver_summary, HasAll, has_ackno, stream_out
<1>3. Stood(f, t) /\ t.next_seqno <= Limit(f) /\ Len(f.stream) \in Nat
      /\ Limit(f) = Len(f.stream) + 2
  BY Zenon DEF Stands, Rules, StandingRule, LimitRule, SpaceRule
<1>4. /\ t.next_seqno \in Nat /\ t.recv_ackno \in Nat /\ t.bytes_in_flight \in Nat
      /\ t.set_fin \in BOOLEAN /\ t.stream.input_end \in BOOLEAN /\ t.stream.written \in Nat
      /\ t.recv_ackno <= t.next_seqno /\ t.next_seqno <= t.recv_ackno + t.bytes_in_flight
      /\ t.set_fin = TRUE => /\ t.stream.input_end = TRUE /\ t.stream.buffer = << >>
                             /\ t.stream.written = Len(f.stream)
                             /\ t.next_seqno = Len(f.stream) + 2
  BY <1>3, Zenon DEF Stood
<1>5. t.stream.input_end = TRUE => t.stream.written = Len(f.stream)
  BY Zenon DEF Stands
<1>6. sender_summary(t) = "FIN_ACKED" =>
        /\ t.stream.input_end = TRUE /\ ~(t.next_seqno < t.stream.written + 2)
        /\ ~(t.bytes_in_flight > 0)
  BY <1>4, SMTT(20) DEF sender_summary, stream_eof
<1>7. sender_summary(t) = "FIN_ACKED" => t.recv_ackno = Limit(f)
  BY <1>3, <1>4, <1>5, <1>6, SMTT(20)
<1>8. sender_summary(t) = "SYN_ACKED" => ~stream_eof(t.stream) \/ t.next_seqno < t.stream.written + 2
  BY DEF sender_summary
<1>9. sender_summary(t) = "SYN_ACKED" => t.set_fin = FALSE
  BY <1>3, <1>4, <1>8 DEF stream_eof
<1> QED
  BY <1>2, <1>7, <1>9, SMTT(20)

\* Connections close when everything has been exchanged.
LEMMA Closes ==
  ASSUME Rules, NEW f, NEW g, NEW c, NEW p, Both(f, g, c, p), NEW d, CallOK(f, g, c, p, d, FALSE)
  PROVE  LET u == close_if_done(d)
         IN  CallOK(f, g, c, p, u, FALSE) /\ u.receiver = d.receiver /\ u.sender = d.sender
<1> DEFINE u == [d EXCEPT !.active = FALSE]
<1>1. CASE close_if_done(d) = d
  BY <1>1, Zenon
<1>2. CASE /\ close_if_done(d) = u
           /\ receiver_summary(d.receiver) = "FIN_RECV" /\ sender_summary(d.sender) = "FIN_ACKED"
  <2>1. HasAll(d.receiver) /\ d.sender.recv_ackno = Limit(f)
    BY <1>2, Summaries, Zenon DEF Both, SideOK, CallOK, Moved
  <2>2. PICK a : a = FALSE
    BY Zenon
  <2>3. IsNode([d EXCEPT !.active = a], d.receiver, d.sender, d.segments_out, d.linger,
               d.time_since_last_segment, a)
    BY NodeChange, Zenon DEF CallOK
  <2>4. IsNode(u, d.receiver, d.sender, d.segments_out, d.linger, d.time_since_last_segment, FALSE)
    BY <2>2, <2>3, Zenon
  <2> HIDE DEF u
  <2>5. /\ u.receiver = d.receiver /\ u.sender = d.sender /\ u.segments_out = d.segments_out
        /\ u.linger = d.linger /\ u.time_since_last_segment = d.time_since_last_segment
        /\ u.active = FALSE
    BY <2>4, SMTT(20) DEF IsNode
  <2>6. Status(f, u.receiver, u.sender, u.active)
    BY <2>1, <2>5, Zenon DEF Status
  <2>7. CallOK(f, g, c, p, u, FALSE)
    BY <2>4, <2>5, <2>6, Zenon DEF CallOK, Dead, Status
  <2> QED
    BY <1>2, <2>5, <2>7, Zenon
<1> QED
  BY <1>1, <1>2, Zenon DEF close_if_done, set_shutdown

\* The two streams of a connection that is shut down uncleanly
FailRx(rx) == [rx EXCEPT !.reassembler.output = set_error(@)]
FailTx(tx) == [tx EXCEPT !.stream = set_error(@)]

\* set_shutdown sets the error flags of both streams.
LEMMA Shutdown ==
  ASSUME NEW c, NEW rx, NEW tx, NEW out, NEW l, NEW tm, NEW a, IsNode(c, rx, tx, out, l, tm, a)
  PROVE  IsNode(set_shutdown(c, FALSE), FailRx(rx), FailTx(tx), out, l, tm, FALSE)
<1>1. PICK x, y, z : x = FALSE /\ y = set_error(tx.stream) /\ z = set_error(rx.reassembler.output)
  BY Zenon
<1>2. IsNode([c EXCEPT !.active = x, !.sender.stream = y], rx, [tx EXCEPT !.stream = y], out, l, tm, x)
  BY NodeChange, Zenon
<1>3. IsNode([c EXCEPT !.active = x, !.sender.stream = y, !.receiver.reassembler.output = z],
             [rx EXCEPT !.reassembler.output = z], [tx EXCEPT !.stream = y], out, l, tm, x)
  BY <1>2, NodeChange, Zenon
<1>4. c.sender.stream = tx.stream /\ c.receiver.reassembler.output = rx.reassembler.output
  BY NodeFields, ZenonT(40)
<1>5. set_shutdown(c, FALSE) =
        [c EXCEPT !.active = x, !.sender.stream = y, !.receiver.reassembler.output = z]
  BY <1>1, <1>4, Zenon DEF set_shutdown
<1> QED
  BY <1>1, <1>3, <1>5, Zenon DEF FailRx, FailTx

\* What is shut down keeps everything else.
Failing(tx, u) ==
    /\ SameInput(tx, u) /\ u.segments_out = tx.segments_out
    /\ u.consecutive_retransmissions = tx.consecutive_retransmissions

\* A call may shut the connection down.
LEMMA Fails ==
  ASSUME Rules, NEW f, NEW g, NEW c, NEW p, Both(f, g, c, p),
         NEW rx, NEW tx, NEW l, Moved(f, g, c, p, rx, tx, l)
  PROVE  /\ Moved(f, g, c, p, FailRx(rx), FailTx(tx), l)
         /\ stream_out(FailRx(rx)).error = TRUE /\ Failing(tx, FailTx(tx))
<1> DEFINE q == FailRx(rx)
           u == FailTx(tx)
           r == [rx.reassembler EXCEPT !.output = set_error(@)]
<1>1. /\ IsOutgoing(f) /\ IsOutgoing(g) /\ Stands(g, p.sender) /\ Stands(f, tx)
      /\ Receiving(g, p.sender, rx) /\ Receiving(g, p.sender, c.receiver)
      /\ Assembling(g, p.sender.stream.read, rx.reassembler, p.sender.set_fin)
  BY Zenon DEF Both, SideOK, Moved, Receiving
<1>2. IsFlow(g) /\ Stood(g, p.sender)
  BY <1>1, Zenon DEF Rules, FlowRule, StandingRule
<1>3. p.sender.stream.read \in 0 .. Len(g.stream)
  BY <1>2, SMTT(20) DEF Stood, IsFlow
<1>4. /\ Assembling(g, p.sender.stream.read, r, p.sender.set_fin) /\ SameExtent(rx.reassembler, r)
      /\ r.output.error = TRUE
  BY <1>1, <1>2, <1>3, Zenon DEF Remains, Rules, OutputErrorRule
<1>5. q.reassembler = r /\ IsRx(q, r, g.capacity, rx.set_syn, rx.set_fin, rx.isn)
  <2>1. IsRx(q, r, g.capacity, rx.set_syn, rx.set_fin, rx.isn)
    BY <1>1, RxChange, Zenon DEF Receiving, FailRx
  <2> QED
    BY <2>1, RxFields, ZenonT(40)
<1> HIDE DEF r, q
<1>6. q.set_syn = rx.set_syn /\ q.set_fin = rx.set_fin /\ q.isn = rx.isn
  BY <1>5, RxFields, ZenonT(40)
<1>7. Receiving(g, p.sender, q)
  BY <1>1, <1>4, <1>5, <1>6, Zenon DEF Receiving
<1>8. Grows(c.receiver, q) /\ (HasAll(rx) => HasAll(q))
  <2>1. /\ stream_out(q).written = stream_out(rx).written
        /\ stream_out(q).input_end = stream_out(rx).input_end
    BY <1>4, <1>5, Zenon DEF SameExtent, stream_out
  <2>2. c.receiver.set_syn = TRUE => rx.set_syn = TRUE
    <3>1. Behind(g, p.sender, c.receiver) /\ Behind(g, p.sender, rx)
      BY <1>1, ReceivingNumbers, Zenon
    <3>2. /\ rx.set_syn \in BOOLEAN /\ stream_out(c.receiver).written \in Nat
          /\ Rcvd(c.receiver) <= Rcvd(rx)
      BY <1>1, <3>1, Zenon DEF Moved, Grows, Behind, Receiving
    <3>3. c.receiver.set_syn = TRUE => Rcvd(c.receiver) > 0
      BY <3>2 DEF Rcvd, has_ackno, abs_ackno
    <3>4. rx.set_syn = FALSE => Rcvd(rx) = 0
      BY DEF Rcvd, has_ackno
    <3>5. Rcvd(c.receiver) \in Nat /\ Rcvd(rx) \in Nat
      BY <3>1, Zenon DEF Behind
    <3> QED
      BY <3>2, <3>3, <3>4, <3>5
  <2> QED
    BY <1>1, <1>6, <1>7, <2>1, <2>2, ReceivingMore, Zenon DEF Moved, Grows, HasAll, stream_out
<1>9. Proceeds(f, tx, u) /\ SameNumbers(tx, u) /\ Failing(tx, u)
  BY <1>1, Zenon DEF FailTx, Failing, Proceeds, Rules, SenderErrorRule
<1> HIDE DEF u
<1>10. Moved(f, g, c, p, rx, u, l)
  BY <1>9, MovedOn, Zenon DEF Proceeds, SameNumbers, Failing
<1>11. Released(f, q, u, p)
  BY <1>4, <1>5, <1>10, Zenon DEF Moved, Released, SameExtent
<1>12. Moved(f, g, c, p, q, u, l)
  BY <1>7, <1>8, <1>10, <1>11, Zenon DEF Moved
<1> QED
  BY <1>4, <1>5, <1>9, <1>12, Zenon DEF q, u, stream_out

\* give_up shuts the connection down and sends a RST.
LEMMA GivesUp ==
  ASSUME Rules, NEW f, NEW g, NEW c, NEW p, Both(f, g, c, p),
         NEW rx, NEW tx, NEW l, NEW tm, NEW a, NEW d, Moved(f, g, c, p, rx, tx, l),
         IsNode(d, rx, tx, << >>, l, tm, a), Spent(tx)
  PROVE  CallOK(f, g, c, p, give_up(d), FALSE) /\ SameInput(tx, give_up(d).sender)
<1> DEFINE v == [tx EXCEPT !.segments_out = << >>]
           rst == [EmptySegment(wrap(FailTx(v).next_seqno, FailTx(v).isn)) EXCEPT !.rst = TRUE]
           w == set_shutdown([d EXCEPT !.sender.segments_out = << >>], FALSE)
           y == [FailTx(v) EXCEPT !.segments_out = <<rst>>]
           z == [y EXCEPT !.segments_out = << >>]
<1>1. IsOutgoing(f) /\ IsOutgoing(g) /\ Stands(g, p.sender) /\ Stands(f, tx)
  BY Zenon DEF Both, SideOK, Moved
<1>2. /\ Proceeds(f, tx, v) /\ SameNumbers(tx, v) /\ v.segments_out = << >>
      /\ v.consecutive_retransmissions = tx.consecutive_retransmissions
  BY <1>1, Zenon DEF Rules, TakeRule
<1>3. IsNode(w, FailRx(rx), FailTx(v), << >>, l, tm, FALSE)
  <2>1. IsNode([d EXCEPT !.sender.segments_out = << >>], rx, v, << >>, l, tm, a)
    BY NodeChange, Zenon
  <2> QED
    BY <2>1, Shutdown, Zenon
<1> HIDE DEF v, w
<1>4. Moved(f, g, c, p, rx, v, l)
  BY <1>2, MovedOn, Zenon DEF Proceeds, SameNumbers
<1>5. /\ Moved(f, g, c, p, FailRx(rx), FailTx(v), l) /\ stream_out(FailRx(rx)).error = TRUE
      /\ Failing(v, FailTx(v))
  BY <1>4, Fails, Zenon
<1>6. PICK x : x = FailTx(v)
  BY Zenon
<1>7. /\ Stands(f, x) /\ x.segments_out = << >> /\ SameInput(tx, x)
      /\ x.consecutive_retransmissions = tx.consecutive_retransmissions
  BY <1>2, <1>5, <1>6, Zenon DEF Moved, Failing, Proceeds, SameInput
<1>8. /\ y = send_empty_rst(x) /\ y.segments_out = <<rst>> /\ z = [x EXCEPT !.segments_out = << >>]
  <2>1. x \in Senders(f)
    BY <1>7, Zenon DEF Stands, Ready
  <2>2. Append(<< >>, rst) = <<rst>>
    <3> HIDE DEF rst
    <3> QED
      BY SMTT(20)
  <2>3. y = send_empty_rst(x)
    BY <1>6, <1>7, <2>2, Zenon DEF send_empty_rst
  <2>4. ASSUME NEW q
        PROVE  [x EXCEPT !.segments_out = q].segments_out = q
    BY <2>1, SMTT(20) DEF Senders
  <2>5. ASSUME NEW q
        PROVE  [[x EXCEPT !.segments_out = q] EXCEPT !.segments_out = << >>]
                 = [x EXCEPT !.segments_out = << >>]
    BY <2>1, Zenon DEF Senders
  <2> HIDE DEF rst
  <2>6. y = [x EXCEPT !.segments_out = <<rst>>]
    BY <1>6, Zenon
  <2> QED
    BY <2>3, <2>4, <2>5, <2>6, Zenon
<1>9. /\ Proceeds(f, x, z) /\ SameNumbers(x, z) /\ z.segments_out = << >>
      /\ z.consecutive_retransmissions = x.consecutive_retransmissions
  <2> HIDE DEF y, z
  <2>1. PICK t : t = [x EXCEPT !.segments_out = << >>]
    BY Zenon
  <2>2. /\ Proceeds(f, x, t) /\ SameNumbers(x, t) /\ t.segments_out = << >>
        /\ t.consecutive_retransmissions = x.consecutive_retransmissions
    BY <1>1, <1>7, <2>1, Zenon DEF Rules, TakeRule
  <2> QED
    BY <1>8, <2>1, <2>2, Zenon
<1>10. Says(f, z, rst)
  BY <1>1, <1>6, <1>7, Zenon DEF Rules, RstRule
<1>11. rst.rst = TRUE
  BY SMTT(20) DEF EmptySegment
<1> HIDE DEF rst, y, z
<1>12. <<rst>> \in Seq(Segs(f)) /\ \A j \in 1 .. Len(<<rst>>) : <<rst>>[j] = rst
  <2>1. rst \in Segs(f)
    BY <1>10, Zenon DEF Says
  <2> QED
    BY <2>1, SMTT(20)
<1>13. IsNode([w EXCEPT !.sender = y], FailRx(rx), y, << >>, l, tm, FALSE) /\ w.sender = x
  <2>1. w.sender = x
    BY <1>3, <1>6, SMTT(20) DEF IsNode
  <2> QED
    BY <1>3, <2>1, NodeChange, Zenon
<1>14. give_up(d) = segment_assemble_send([w EXCEPT !.sender = y])
  BY <1>8, <1>13, Zenon DEF give_up, send_rst_segment, w
<1>15. Moved(f, g, c, p, FailRx(rx), z, l)
  BY <1>5, <1>6, <1>9, MovedOn, Zenon DEF Proceeds, SameNumbers
<1>16. PICK s \in Seq(Segs(f)) :
         IsNode(give_up(d), FailRx(rx), z, s, l, tm, FALSE) /\ Queued(f, z, FailRx(rx), s, TRUE)
  <2>1. Receiving(g, p.sender, FailRx(rx))
    BY <1>5, Zenon DEF Moved
  <2>2. \A j \in 1 .. Len(<<rst>>) : Says(f, z, <<rst>>[j]) /\ <<rst>>[j].rst = TRUE
    BY <1>10, <1>11, <1>12, Zenon
  <2>3. PICK e : e = [w EXCEPT !.sender = y]
    BY Zenon
  <2>4. \E s \in Seq(Segs(f)) :
          /\ IsNode(segment_assemble_send(e), FailRx(rx), [y EXCEPT !.segments_out = << >>],
                    s, l, tm, FALSE)
          /\ Queued(f, z, FailRx(rx), s, TRUE)
    BY <1>1, <1>8, <1>12, <1>13, <2>1, <2>2, <2>3, AssembleSend, Zenon
  <2> QED
    BY <1>14, <2>3, <2>4, Zenon DEF z
<1>17. PICK u : u = give_up(d)
  BY Zenon
<1>18. /\ u.receiver = FailRx(rx) /\ u.sender = z /\ u.segments_out = s /\ u.linger = l
       /\ u.time_since_last_segment = tm /\ u.active = FALSE
  BY <1>16, <1>17, SMTT(20) DEF IsNode
<1>19. Dead(u)
  BY <1>7, <1>9, <1>18, Zenon DEF Dead, Spent
<1>20. CallOK(f, g, c, p, u, FALSE)
  BY <1>5, <1>9, <1>15, <1>16, <1>17, <1>18, <1>19, Zenon DEF CallOK, Status
<1> QED
  BY <1>7, <1>9, <1>17, <1>18, <1>20, Zenon DEF Proceeds, SameInput

\* tick
LEMMA Ticks ==
  ASSUME Rules, NEW f, NEW g, NEW c, NEW p, Both(f, g, c, p), NEW ms \in Nat
  PROVE  CallOK(f, g, c, p, tick(c, ms), FALSE) /\ SameInput(c.sender, tick(c, ms).sender)
<1> DEFINE tx == sender_tick(c.sender, ms)
           tm == MinOf(c.time_since_last_segment + ms, LingerTime)
           d == [c EXCEPT !.sender = tx, !.time_since_last_segment = tm]
           u == segment_assemble_send(d)
<1>1. /\ Proceeds(f, c.sender, tx) /\ tx.recv_ackno = c.sender.recv_ackno
      /\ CountsUp(c.sender, tx)
  BY Zenon DEF Both, SideOK, Rules, TickRule
<1>2. tick(c, ms) = IF MaxRetxAttempts < tx.consecutive_retransmissions
                     THEN give_up(d) ELSE close_if_done(u)
  <2>1. d.sender = tx
    <3> HIDE DEF tx, tm
    <3>1. IsNode(c, c.receiver, c.sender, << >>, c.linger, c.time_since_last_segment, c.active)
      BY Zenon DEF Both, SideOK
    <3> QED
      BY <3>1 DEF IsNode
  <2> QED
    BY <2>1, Zenon DEF tick
<1> HIDE DEF tx, tm
<1>3. IsNode(d, c.receiver, tx, << >>, c.linger, tm, c.active)
  <2>1. IsNode(c, c.receiver, c.sender, << >>, c.linger, c.time_since_last_segment, c.active)
    BY Zenon DEF Both, SideOK
  <2>2. IsNode([c EXCEPT !.sender = tx], c.receiver, tx, << >>, c.linger,
               c.time_since_last_segment, c.active)
    BY <2>1, NodeChange, Zenon
  <2> QED
    BY <2>2, NodeChange, Zenon
<1> HIDE DEF d
<1>4. Moved(f, g, c, p, c.receiver, tx, c.linger)
  <2>1. Spent(c.sender) => Spent(tx)
    BY <1>1, ConnectionAssumption DEF CountsUp, Spent
  <2> QED
    BY <1>1, <2>1, MovedStart, MovedOn, Zenon DEF Proceeds
<1>5. CASE MaxRetxAttempts < tx.consecutive_retransmissions
  <2>1. Spent(tx)
    BY <1>5 DEF Spent
  <2>2. CallOK(f, g, c, p, give_up(d), FALSE) /\ SameInput(tx, give_up(d).sender)
    BY <1>3, <1>4, <2>1, GivesUp, Zenon
  <2> QED
    BY <1>1, <1>2, <1>5, <2>2, Zenon DEF Proceeds, SameInput
<1>6. CASE ~(MaxRetxAttempts < tx.consecutive_retransmissions)
  <2>1. SendsOff(f, g, c, p, c.receiver, tx, u)
    BY <1>3, <1>4, Sends, Zenon
  <2> HIDE DEF u
  <2>2. CallOK(f, g, c, p, close_if_done(u), FALSE) /\ close_if_done(u).sender = u.sender
    <3>1. CallOK(f, g, c, p, u, FALSE)
      BY <2>1, Zenon DEF SendsOff
    <3> QED
      BY <3>1, Closes, Zenon
  <2> QED
    BY <1>1, <1>2, <1>6, <2>1, <2>2, Zenon DEF SendsOff, Proceeds, SameInput
<1> QED
  BY <1>5, <1>6, Zenon

\* A call that sends nothing
LEMMA SendsNothing ==
  ASSUME NEW f, NEW g, NEW c, NEW p, NEW rx, NEW tx, NEW l, NEW tm, NEW a \in BOOLEAN, NEW b, NEW d,
         Moved(f, g, c, p, rx, tx, l), IsNode(d, rx, tx, << >>, l, tm, a), tx.segments_out = << >>,
         Status(f, rx, tx, a), Dead(c) => a = FALSE,
         stream_out(rx).error = TRUE => stream_out(c.receiver).error = TRUE \/ b = TRUE
  PROVE  CallOK(f, g, c, p, d, b)
<1>1. /\ d.receiver = rx /\ d.sender = tx /\ d.segments_out = << >> /\ d.linger = l
      /\ d.time_since_last_segment = tm /\ d.active = a
  BY DEF IsNode
<1>2. Queued(f, tx, rx, << >>, FALSE)
  BY SMTT(20) DEF Queued
<1>3. Dead(c) => Dead(d)
  BY <1>1, Zenon DEF Dead, Moved
<1> QED
  BY <1>1, <1>2, <1>3, ZenonT(40) DEF CallOK

\* The segment is given to the receiver, its acknowledgment to the sender.
LEMMA TakesSegment ==
  ASSUME Rules, NEW f, NEW g, NEW c, NEW p, Both(f, g, c, p), c.active = TRUE, f.windows = Nat,
         NEW seg, SegOK(f, g, p, seg), seg.rst = FALSE
  PROVE  LET q == receiver_segment_received(c.receiver, seg)
             u == IF seg.ack THEN ack_received(c.sender, seg.ackno, seg.win) ELSE c.sender
         IN  /\ Moved(f, g, c, p, q, u, c.linger) /\ SameInput(c.sender, u)
             /\ stream_out(q).error = stream_out(c.receiver).error
<1> DEFINE q == receiver_segment_received(c.receiver, seg)
           u == IF seg.ack THEN ack_received(c.sender, seg.ackno, seg.win) ELSE c.sender
<1>1. /\ IsOutgoing(f) /\ IsOutgoing(g) /\ Stands(f, c.sender) /\ Stands(g, p.sender)
      /\ Receiving(f, c.sender, p.receiver) /\ Receiving(g, p.sender, c.receiver)
      /\ Says(g, p.sender, seg) /\ c.sender.recv_ackno <= Rcvd(p.receiver)
      /\ p.linger = FALSE => HasAll(p.receiver)
      /\ c.linger = FALSE => HasAll(c.receiver)
      /\ c.linger \in BOOLEAN /\ Released(f, c.receiver, c.sender, p)
  BY Zenon DEF Both, SideOK, SegOK
<1>2. Receiving(g, p.sender, q) /\ TakesIn(c.receiver, q, seg)
  BY <1>1, ReceiverTakes, Zenon
<1>3. Behind(f, c.sender, p.receiver) /\ Stood(f, c.sender)
  BY <1>1, ReceivingNumbers, Zenon DEF Rules, StandingRule
<1>4. /\ Rcvd(p.receiver) \in Nat /\ Rcvd(p.receiver) <= c.sender.next_seqno
      /\ c.sender.next_seqno <= Limit(f) /\ Rcvd(p.receiver) < SeqMod
      /\ HasAll(p.receiver) => Rcvd(p.receiver) = Limit(f)
      /\ c.sender.next_seqno \in Nat /\ c.sender.recv_ackno \in Nat /\ c.sender.stream.read \in Nat
  BY <1>3, Zenon DEF Behind, Stood
<1>5. seg.win \in f.windows /\ seg.ack \in BOOLEAN
  <2>1. seg \in Segs(g)
    BY <1>1, ZenonT(40) DEF Says
  <2> QED
    BY <2>1, SMTT(20) DEF Segs, Segments
<1>6. Limit(f) \in Nat /\ Limit(f) < SeqMod /\ SeqMod \in Nat
  BY <1>1, SMTT(20) DEF Rules, SpaceRule
<1> HIDE DEF q
<1>7. /\ Proceeds(f, c.sender, u) /\ u.recv_ackno <= Rcvd(p.receiver)
      /\ seg.ack = TRUE /\ seg.ackno = wrap(Limit(f), f.isn) /\ Rcvd(p.receiver) = Limit(f) =>
           u.recv_ackno = Limit(f)
  <2>1. CASE seg.ack = TRUE
    <3>1. u = ack_received(c.sender, seg.ackno, seg.win)
      BY <2>1, SMTT(20)
    <3>2. PICK a \in 0 .. Rcvd(p.receiver) : seg.ackno = wrap(a, f.isn)
      BY <2>1, Zenon DEF SegOK
    <3>3. a \in Nat /\ a < SeqMod /\ a <= Rcvd(p.receiver)
      BY <1>4, <1>6
    <3>4. Proceeds(f, c.sender, u) /\ (u.recv_ackno = c.sender.recv_ackno \/ u.recv_ackno = a)
      <4>1. Acknowledges(f, c.sender, a, ack_received(c.sender, wrap(a, f.isn), seg.win))
        BY <1>1, <1>5, <3>3, Zenon DEF Rules, AckRule
      <4>2. Acknowledges(f, c.sender, a, u)
        BY <3>1, <3>2, <4>1, Zenon
      <4> HIDE DEF u
      <4> QED
        BY <4>2, Zenon DEF Acknowledges
    <3>5. u.recv_ackno <= Rcvd(p.receiver)
      BY <1>1, <3>3, <3>4, Zenon
    <3>6. ASSUME seg.ackno = wrap(Limit(f), f.isn), Rcvd(p.receiver) = Limit(f)
          PROVE  u.recv_ackno = Limit(f)
      <4>1. c.sender.recv_ackno <= Limit(f) /\ Limit(f) <= c.sender.next_seqno
        BY <1>1, <1>4, <3>6, SMTT(20)
      <4>2. Acknowledges(f, c.sender, Limit(f), ack_received(c.sender, wrap(Limit(f), f.isn), seg.win))
        BY <1>1, <1>5, <1>6, Zenon DEF Rules, AckRule
      <4>3. Acknowledges(f, c.sender, Limit(f), u)
        BY <3>1, <3>6, <4>2, Zenon
      <4> HIDE DEF u
      <4> QED
        BY <4>1, <4>3, Zenon DEF Acknowledges
    <3> QED
      BY <3>4, <3>5, <3>6, Zenon
  <2>2. CASE seg.ack = FALSE
    <3>1. u = c.sender
      BY <2>2, SMTT(20)
    <3>2. c.sender.recv_ackno <= c.sender.recv_ackno /\ c.sender.stream.read <= c.sender.stream.read
      BY <1>4
    <3> QED
      BY <1>1, <2>2, <3>1, <3>2, Zenon DEF Proceeds, Follows, SameInput
  <2> QED
    BY <1>5, <2>1, <2>2, Zenon
<1> HIDE DEF u
<1>8. Stands(f, u) /\ Follows(c.sender, u) /\ SameInput(c.sender, u)
  BY <1>7, Zenon DEF Proceeds
<1>9. Released(f, q, u, p)
  <2>1. SUFFICES ASSUME p.linger = FALSE, q.reassembler.eof_index # SizeMax
                 PROVE  u.recv_ackno = Limit(f)
    BY Zenon DEF Released
  <2>2. CASE c.receiver.reassembler.eof_index # SizeMax
    BY <1>1, <1>8, <2>1, <2>2, StaysComplete, Zenon DEF Released
  <2>3. CASE seg.fin = TRUE
    BY <1>1, <1>4, <1>7, <2>1, <2>3, Zenon DEF SegOK
  <2> QED
    BY <1>2, <2>1, <2>2, <2>3, Zenon DEF TakesIn
<1>10. Grows(c.receiver, q) /\ (HasAll(c.receiver) => HasAll(q))
       /\ stream_out(q).error = stream_out(c.receiver).error
  BY <1>2, Zenon DEF TakesIn, Grows
<1>11. Moved(f, g, c, p, q, u, c.linger)
  BY <1>1, <1>2, <1>7, <1>8, <1>9, <1>10, Zenon DEF Moved, Dead
<1> QED
  BY <1>8, <1>10, <1>11, Zenon DEF q, u

\* The connection in the middle of segment_received
UnderWay(f, g, c, p, d) ==
    /\ IsNode(d, d.receiver, d.sender, << >>, d.linger, d.time_since_last_segment, c.active)
    /\ Moved(f, g, c, p, d.receiver, d.sender, d.linger) /\ SameInput(c.sender, d.sender)
    /\ stream_out(d.receiver).error = stream_out(c.receiver).error

\* A method of the sender is called.
LEMMA SenderStep ==
  ASSUME Rules, NEW f, NEW g, NEW c, NEW p, Both(f, g, c, p), c.active = TRUE,
         NEW d, UnderWay(f, g, c, p, d), NEW u, Proceeds(f, d.sender, u),
         u.recv_ackno = d.sender.recv_ackno
  PROVE  UnderWay(f, g, c, p, [d EXCEPT !.sender = u])
<1>1. PICK e : e = [d EXCEPT !.sender = u]
  BY Zenon
<1>2. IsNode(e, d.receiver, u, << >>, d.linger, d.time_since_last_segment, c.active)
  BY <1>1, NodeChange, Zenon DEF UnderWay
<1>3. /\ e.receiver = d.receiver /\ e.sender = u /\ e.linger = d.linger
      /\ e.time_since_last_segment = d.time_since_last_segment
  BY <1>2 DEF IsNode
<1>4. Moved(f, g, c, p, d.receiver, u, d.linger)
  BY MovedOn, Zenon DEF UnderWay, Proceeds
<1> QED
  BY <1>1, <1>2, <1>3, <1>4, ZenonT(40) DEF UnderWay, Proceeds, SameInput

\* The segments go out.
LEMMA SendsAll ==
  ASSUME Rules, NEW f, NEW g, NEW c, NEW p, Both(f, g, c, p), NEW d, UnderWay(f, g, c, p, d)
  PROVE  Answers(f, g, c, p, segment_assemble_send(d), FALSE)
<1>1. SendsOff(f, g, c, p, d.receiver, d.sender, segment_assemble_send(d))
  BY Sends, Zenon DEF UnderWay
<1> QED
  BY <1>1, Zenon DEF SendsOff, UnderWay, Answers, SameInput

\* to_receiver_and_sender
LEMMA Begins ==
  ASSUME Rules, NEW f, NEW g, NEW c, NEW p, Both(f, g, c, p), c.active = TRUE, f.windows = Nat,
         NEW seg, SegOK(f, g, p, seg), seg.rst = FALSE
  PROVE  UnderWay(f, g, c, p, to_receiver_and_sender(c, seg))
<1> DEFINE q == receiver_segment_received(c.receiver, seg)
           u == IF seg.ack THEN ack_received(c.sender, seg.ackno, seg.win) ELSE c.sender
           d == [c EXCEPT !.time_since_last_segment = 0, !.receiver = q, !.sender = u]
<1>1. Moved(f, g, c, p, q, u, c.linger) /\ SameInput(c.sender, u)
      /\ stream_out(q).error = stream_out(c.receiver).error
  BY TakesSegment, Zenon
<1>2. d = to_receiver_and_sender(c, seg)
  BY Zenon DEF to_receiver_and_sender
<1> HIDE DEF q, u
<1>3. IsNode(d, q, u, << >>, c.linger, 0, c.active)
  <2>1. IsNode(c, c.receiver, c.sender, << >>, c.linger, c.time_since_last_segment, c.active)
    BY Zenon DEF Both, SideOK
  <2>2. PICK d1 : d1 = [c EXCEPT !.time_since_last_segment = 0]
    BY Zenon
  <2>3. IsNode(d1, c.receiver, c.sender, << >>, c.linger, 0, c.active)
    BY <2>1, <2>2, NodeChange, ZenonT(40)
  <2>4. PICK d2 : d2 = [d1 EXCEPT !.receiver = q]
    BY Zenon
  <2>5. IsNode(d2, q, c.sender, << >>, c.linger, 0, c.active)
    BY <2>3, <2>4, NodeChange, ZenonT(40)
  <2>6. IsNode([d2 EXCEPT !.sender = u], q, u, << >>, c.linger, 0, c.active)
    BY <2>5, NodeChange, ZenonT(40)
  <2> QED
    BY <2>2, <2>4, <2>6, Zenon
<1> HIDE DEF d
<1>4. d.receiver = q /\ d.sender = u /\ d.linger = c.linger /\ d.time_since_last_segment = 0
  BY <1>3, SMTT(20) DEF IsNode
<1> QED
  BY <1>1, <1>2, <1>3, <1>4, Zenon DEF UnderWay

\* note_passive_close: the peer has ended its stream before this end has sent its FIN.
LEMMA NotesClose ==
  ASSUME Rules, NEW f, NEW g, NEW c, NEW p, Both(f, g, c, p), NEW d, UnderWay(f, g, c, p, d)
  PROVE  UnderWay(f, g, c, p, note_passive_close(d))
<1> DEFINE closing == /\ receiver_summary(d.receiver) = "FIN_RECV"
                      /\ sender_summary(d.sender) = "SYN_ACKED"
<1>1. PICK l : l = (d.linger /\ ~closing)
  BY Zenon
<1>2. PICK e : e = [d EXCEPT !.linger = l]
  BY Zenon
<1>3. e = note_passive_close(d)
  BY <1>1, <1>2, Zenon DEF note_passive_close
<1>4. closing => HasAll(d.receiver) /\ d.sender.set_fin = FALSE
  BY Summaries, Zenon DEF Both, SideOK, UnderWay, Moved
<1> HIDE DEF closing
<1>5. l \in BOOLEAN /\ d.linger \in BOOLEAN /\ (l = FALSE => d.linger = FALSE \/ closing)
  <2>1. d.linger \in BOOLEAN
    BY Zenon DEF UnderWay, Moved
  <2> QED
    BY <1>1, <2>1, SMTT(20)
<1>6. d.sender.set_fin = FALSE => c.sender.set_fin = FALSE
  <2>1. Follows(c.sender, d.sender) /\ IsOutgoing(f) /\ Stands(f, c.sender)
    BY Zenon DEF UnderWay, Moved, Both, SideOK
  <2>2. c.sender.set_fin \in BOOLEAN
    BY <2>1, Zenon DEF Stood, Rules, StandingRule
  <2> QED
    BY <2>1, <2>2 DEF Follows
<1>7. Moved(f, g, c, p, d.receiver, d.sender, l)
  BY <1>4, <1>5, <1>6, Zenon DEF UnderWay, Moved
<1>8. IsNode(e, d.receiver, d.sender, << >>, l, d.time_since_last_segment, c.active)
  BY <1>2, NodeChange, Zenon DEF UnderWay
<1>9. /\ e.receiver = d.receiver /\ e.sender = d.sender /\ e.linger = l
      /\ e.time_since_last_segment = d.time_since_last_segment
  BY <1>8 DEF IsNode
<1> QED
  BY <1>3, <1>7, <1>8, <1>9, Zenon DEF UnderWay

\* answer_keep_alive and answer_with_ack may send an empty segment, or what the window
\* allows.
LEMMA AnswersSegment ==
  ASSUME Rules, NEW f, NEW g, NEW c, NEW p, Both(f, g, c, p), c.active = TRUE,
         NEW d, UnderWay(f, g, c, p, d), NEW seg
  PROVE  /\ UnderWay(f, g, c, p, answer_keep_alive(d, seg))
         /\ UnderWay(f, g, c, p, answer_with_ack(d, seg))
<1> DEFINE empty == send_empty_segment(d.sender)
           filled == fill_window(d.sender)
           both == send_empty_segment(filled)
<1>1. IsOutgoing(f) /\ Stands(f, d.sender)
  BY Zenon DEF Both, UnderWay, Moved
<1>2. Proceeds(f, d.sender, empty) /\ empty.recv_ackno = d.sender.recv_ackno
  BY <1>1, Zenon DEF Rules, AnswerRule
<1>3. Proceeds(f, d.sender, filled) /\ filled.recv_ackno = d.sender.recv_ackno
  BY <1>1, Zenon DEF Rules, FillRule
<1> HIDE DEF empty, filled
<1>4. Proceeds(f, d.sender, both) /\ both.recv_ackno = d.sender.recv_ackno
  <2>1. Proceeds(f, filled, both) /\ both.recv_ackno = filled.recv_ackno
    BY <1>1, <1>3, Zenon DEF Proceeds, Rules, AnswerRule
  <2> HIDE DEF both
  <2> QED
    BY <1>1, <1>3, <2>1, Zenon DEF Rules, ProceedingRule
<1> HIDE DEF both
<1>5. /\ UnderWay(f, g, c, p, [d EXCEPT !.sender = empty])
      /\ UnderWay(f, g, c, p, [d EXCEPT !.sender = filled])
      /\ UnderWay(f, g, c, p, [d EXCEPT !.sender = both])
  BY <1>2, <1>3, <1>4, SenderStep, Zenon
<1>6. answer_keep_alive(d, seg) = d \/ answer_keep_alive(d, seg) = [d EXCEPT !.sender = empty]
  BY Zenon DEF answer_keep_alive, empty
<1>7. \/ answer_with_ack(d, seg) = d
      \/ answer_with_ack(d, seg) = [d EXCEPT !.sender = IF filled.segments_out = << >>
                                                          THEN both ELSE filled]
  BY Zenon DEF answer_with_ack, filled, both
<1>8. \/ answer_with_ack(d, seg) = d
      \/ answer_with_ack(d, seg) = [d EXCEPT !.sender = both]
      \/ answer_with_ack(d, seg) = [d EXCEPT !.sender = filled]
  BY <1>7, Zenon
<1> QED
  BY <1>5, <1>6, <1>8, Zenon

\* segment_received
LEMMA Receives ==
  ASSUME Rules, NEW f, NEW g, NEW c, NEW p, Both(f, g, c, p), f.windows = Nat,
         NEW seg, SegOK(f, g, p, seg)
  PROVE  Answers(f, g, c, p, segment_received(c, seg), seg.rst)
<1>1. /\ IsNode(c, c.receiver, c.sender, << >>, c.linger, c.time_since_last_segment, c.active)
      /\ c.active \in BOOLEAN /\ c.sender.segments_out = << >>
      /\ Status(f, c.receiver, c.sender, c.active)
  BY Zenon DEF Both, SideOK
<1>2. Moved(f, g, c, p, c.receiver, c.sender, c.linger)
  BY MovedStart, Zenon
<1>3. seg.rst \in BOOLEAN
  <2>1. seg \in Segs(g)
    BY Zenon DEF SegOK, Says
  <2> QED
    BY <2>1 DEF Segs, Segments
<1>4. CASE c.active = FALSE
  <2>1. segment_received(c, seg) = c
    BY <1>4, Zenon DEF segment_received
  <2>2. CallOK(f, g, c, p, c, seg.rst)
    BY <1>1, <1>2, <1>4, SendsNothing, ZenonT(40)
  <2> QED
    BY <2>1, <2>2, Zenon DEF Answers, SameInput
<1>5. CASE c.active = TRUE /\ seg.rst = TRUE
  <2>1. PICK d : d = set_shutdown([c EXCEPT !.time_since_last_segment = 0], FALSE)
    BY Zenon
  <2>2. segment_received(c, seg) = d
    BY <1>5, <2>1, Zenon DEF segment_received
  <2>3. IsNode(d, FailRx(c.receiver), FailTx(c.sender), << >>, c.linger, 0, FALSE)
    <3>1. IsNode([c EXCEPT !.time_since_last_segment = 0],
                 c.receiver, c.sender, << >>, c.linger, 0, c.active)
      BY <1>1, NodeChange, Zenon
    <3> QED
      BY <2>1, <3>1, Shutdown, Zenon
  <2>4. /\ Moved(f, g, c, p, FailRx(c.receiver), FailTx(c.sender), c.linger)
        /\ stream_out(FailRx(c.receiver)).error = TRUE /\ Failing(c.sender, FailTx(c.sender))
    BY <1>2, <1>5, Fails, Zenon
  <2>5. Status(f, FailRx(c.receiver), FailTx(c.sender), FALSE)
    BY <2>4, Zenon DEF Status
  <2>6. FailTx(c.sender).segments_out = << >> /\ SameInput(c.sender, FailTx(c.sender))
    BY <1>1, <2>4, Zenon DEF Failing
  <2>7. CallOK(f, g, c, p, d, seg.rst)
    BY <1>5, <2>3, <2>4, <2>5, <2>6, SendsNothing, Zenon
  <2>8. d.sender = FailTx(c.sender)
    BY <2>3, SMTT(20) DEF IsNode
  <2> QED
    BY <2>2, <2>6, <2>7, <2>8, Zenon DEF Answers
<1>6. CASE c.active = TRUE /\ seg.rst = FALSE
  <2>1. PICK d : d = to_receiver_and_sender(c, seg)
    BY Zenon
  <2>2. UnderWay(f, g, c, p, d)
    BY <1>6, <2>1, Begins, Zenon
  <2>3. \/ segment_received(c, seg) = connect(d)
        \/ segment_received(c, seg) = segment_assemble_send(
              answer_with_ack(answer_keep_alive(note_passive_close(d), seg), seg))
    BY <1>6, <2>1, Zenon DEF segment_received
  <2>4. Answers(f, g, c, p, connect(d), FALSE)
    <3>1. IsOutgoing(f) /\ Stands(f, d.sender)
      BY <2>2, Zenon DEF Both, UnderWay, Moved
    <3>2. /\ Proceeds(f, d.sender, fill_window(d.sender))
          /\ fill_window(d.sender).recv_ackno = d.sender.recv_ackno
      BY <3>1, Zenon DEF Rules, FillRule
    <3>3. UnderWay(f, g, c, p, [d EXCEPT !.sender = fill_window(d.sender)])
      BY <1>6, <2>2, <3>2, SenderStep, Zenon
    <3>4. connect(d) = segment_assemble_send([d EXCEPT !.sender = fill_window(d.sender)])
      BY Zenon DEF connect
    <3> QED
      BY <3>3, <3>4, SendsAll, Zenon
  <2>5. Answers(f, g, c, p, segment_assemble_send(
                  answer_with_ack(answer_keep_alive(note_passive_close(d), seg), seg)), FALSE)
    <3>1. UnderWay(f, g, c, p, answer_keep_alive(note_passive_close(d), seg))
      BY <1>6, <2>2, NotesClose, AnswersSegment, Zenon
    <3>2. UnderWay(f, g, c, p, answer_with_ack(answer_keep_alive(note_passive_close(d), seg), seg))
      BY <1>6, <3>1, AnswersSegment, Zenon
    <3> QED
      BY <3>2, SendsAll, Zenon
  <2> QED
    BY <1>6, <2>3, <2>4, <2>5, Zenon
<1> QED
  BY <1>1, <1>3, <1>4, <1>5, <1>6, Zenon

\* The application reads what has been put out for it.
LEMMA Reads ==
  ASSUME Rules, NEW f, NEW g, NEW c, NEW p, Both(f, g, c, p),
         NEW n \in 1 .. buffer_size(stream_out(c.receiver))
  PROVE  LET d == [c EXCEPT !.receiver.reassembler.output = pop_output(@, n)]
         IN  Quietly(f, g, c, p, d)
<1> DEFINE d == [c EXCEPT !.receiver.reassembler.output = pop_output(@, n)]
           rx == c.receiver
           x == pop_output(rx.reassembler.output, n)
           r == [rx.reassembler EXCEPT !.output = x]
           q == [rx EXCEPT !.reassembler.output = x]
<1>1. /\ IsOutgoing(f) /\ IsOutgoing(g) /\ Stands(g, p.sender) /\ Receiving(g, p.sender, rx)
      /\ Assembling(g, p.sender.stream.read, rx.reassembler, p.sender.set_fin)
      /\ c.active \in BOOLEAN /\ c.sender.segments_out = << >>
      /\ Status(f, rx, c.sender, c.active)
      /\ IsNode(c, rx, c.sender, << >>, c.linger, c.time_since_last_segment, c.active)
  BY ZenonT(40) DEF Both, SideOK, Receiving
<1>2. IsFlow(g) /\ Stood(g, p.sender)
  BY <1>1, ZenonT(40) DEF Rules, FlowRule, StandingRule
<1>3. p.sender.stream.read \in 0 .. Len(g.stream)
  BY <1>2, SMTT(20) DEF Stood, IsFlow
<1>4. /\ Assembling(g, p.sender.stream.read, r, p.sender.set_fin) /\ SameExtent(rx.reassembler, r)
      /\ r.output.error = rx.reassembler.output.error
  <2>1. n \in 1 .. buffer_size(rx.reassembler.output)
    BY Zenon DEF stream_out
  <2>2. Remains(g, p.sender.stream.read, rx.reassembler, p.sender.set_fin, r,
                rx.reassembler.output.error)
    BY <1>1, <1>2, <1>3, <2>1, Zenon DEF Rules, ReadRule
  <2> HIDE DEF r
  <2> QED
    BY <2>2, Zenon DEF Remains
<1> HIDE DEF x
<1>5. IsRx(q, r, g.capacity, rx.set_syn, rx.set_fin, rx.isn)
  BY <1>1, RxChange, Zenon DEF Receiving
<1>6. IsNode(d, q, c.sender, << >>, c.linger, c.time_since_last_segment, c.active)
  <2>1. d = [c EXCEPT !.receiver.reassembler.output = x]
    BY Zenon DEF x
  <2> QED
    BY <1>1, <2>1, SMTT(20) DEF IsNode
<1> HIDE DEF r, q, d
<1>7. /\ q.reassembler = r /\ q.set_syn = rx.set_syn /\ q.set_fin = rx.set_fin /\ q.isn = rx.isn
      /\ d.sender = c.sender /\ d.segments_out = << >>
  BY <1>5, <1>6 DEF IsRx, IsNode
<1>8. Receiving(g, p.sender, q)
  BY <1>1, <1>4, <1>5, <1>7, Zenon DEF Receiving
<1>9. /\ stream_out(q).written = stream_out(rx).written
      /\ stream_out(q).input_end = stream_out(rx).input_end
      /\ stream_out(q).error = stream_out(rx).error
      /\ HasAll(rx) => HasAll(q)
  BY <1>4, <1>7, Zenon DEF SameExtent, stream_out, HasAll
<1>10. Grows(rx, q)
  <2>1. stream_out(rx).written \in Nat
    BY <1>1, ReceivingNumbers, Zenon DEF Behind
  <2>2. stream_out(rx).written <= stream_out(q).written
    BY <1>9, <2>1
  <2> QED
    BY <1>1, <1>7, <1>8, <1>9, <2>2, ReceivingMore, Zenon
<1>11. Moved(f, g, c, p, q, c.sender, c.linger)
  <2>1. Moved(f, g, c, p, rx, c.sender, c.linger)
    BY MovedStart, Zenon
  <2>2. Released(f, q, c.sender, p)
    BY <1>4, <1>7, <2>1, Zenon DEF Moved, Released, SameExtent
  <2> QED
    BY <1>8, <1>9, <1>10, <2>1, <2>2, Zenon DEF Moved
<1>12. Status(f, q, c.sender, c.active)
  BY <1>1, <1>9, Zenon DEF Status
<1>13. CallOK(f, g, c, p, d, FALSE)
  <2>1. Dead(c) => c.active = FALSE
    BY Zenon DEF Dead
  <2> QED
    BY <1>1, <1>6, <1>9, <1>11, <1>12, <2>1, SendsNothing, Zenon
<1> QED
  BY <1>7, <1>13, Zenon DEF SameInput, d, Quietly

\* After a call the two ends are as they should be.
LEMMA CallKeeps ==
  ASSUME Rules, NEW f, NEW g, NEW c, NEW p, Both(f, g, c, p), NEW d, NEW b,
         CallOK(f, g, c, p, d, b),
         NEW u, Leaves(d, u)
  PROVE  Both(f, g, u, p)
<1>1. /\ u.receiver = d.receiver /\ u.sender = d.sender /\ u.linger = d.linger
      /\ u.segments_out = << >>
      /\ u.time_since_last_segment = d.time_since_last_segment /\ u.active = d.active
  BY SMTT(20) DEF Leaves, IsNode
<1>2. /\ Moved(f, g, c, p, u.receiver, u.sender, u.linger) /\ u.active \in BOOLEAN
      /\ u.sender.segments_out = << >> /\ Status(f, u.receiver, u.sender, u.active)
      /\ IsNode(u, u.receiver, u.sender, << >>, u.linger, u.time_since_last_segment, u.active)
  BY <1>1, Zenon DEF CallOK, Leaves
<1>3. SideOK(f, g, u, p)
  BY <1>2, Zenon DEF Moved, SideOK
<1>4. /\ IsOutgoing(f) /\ IsOutgoing(g) /\ Stands(f, c.sender) /\ Stands(f, u.sender)
      /\ Follows(c.sender, u.sender) /\ Receiving(f, c.sender, p.receiver)
      /\ Stands(g, p.sender) /\ Receiving(g, p.sender, u.receiver)
      /\ Receiving(g, p.sender, c.receiver) /\ SideOK(g, f, p, c)
  BY <1>2, Zenon DEF Both, SideOK, Moved
<1>5. Receiving(f, u.sender, p.receiver)
  <2>1. IsFlow(f) /\ Stood(f, c.sender) /\ Stood(f, u.sender)
    BY <1>4, Zenon DEF Rules, FlowRule, StandingRule
  <2>2. /\ u.sender.stream.read \in 0 .. Len(f.stream)
        /\ c.sender.stream.read \in 0 .. u.sender.stream.read
    <3>1. /\ c.sender.stream.read \in Nat /\ u.sender.stream.read \in Nat
          /\ u.sender.stream.written \in Nat /\ u.sender.stream.read <= u.sender.stream.written
          /\ u.sender.stream.written <= Len(f.stream) /\ f.stream \in Seq(f.byte)
          /\ c.sender.stream.read <= u.sender.stream.read
      BY <1>4, <2>1, Zenon DEF Stood, Follows, IsFlow
    <3> QED
      BY <3>1, SMTT(20)
  <2>3. Assembling(f, u.sender.stream.read, p.receiver.reassembler, u.sender.set_fin)
    <3>1. /\ Assembling(f, c.sender.stream.read, p.receiver.reassembler, c.sender.set_fin)
          /\ SendsMore(c.sender.stream.read, c.sender.set_fin,
                       u.sender.stream.read, u.sender.set_fin)
      BY <1>4, <2>2, Zenon DEF Receiving, Follows, SendsMore
    <3>2. IsFlow(f) /\ u.sender.stream.read \in 0 .. Len(f.stream)
      BY <2>1, <2>2, Zenon
    <3> QED
      BY <3>1, <3>2 DEF Rules, MoreRule
  <2> QED
    BY <1>4, <2>3, Zenon DEF Receiving, Follows
<1>6. p.sender.recv_ackno <= Rcvd(u.receiver)
  <2>1. p.sender.recv_ackno \in Nat /\ Rcvd(c.receiver) \in Nat /\ Rcvd(u.receiver) \in Nat
    BY <1>4, ReceivingNumbers, Zenon DEF Stood, Behind, Rules, StandingRule
  <2>2. p.sender.recv_ackno <= Rcvd(c.receiver) /\ Rcvd(c.receiver) <= Rcvd(u.receiver)
    BY <1>2, <1>4, Zenon DEF SideOK, Moved, Grows
  <2> QED
    BY <2>1, <2>2, SMTT(20)
<1>7. Released(g, p.receiver, p.sender, u)
  <2>1. SUFFICES ASSUME u.linger = FALSE, p.receiver.reassembler.eof_index # SizeMax
                 PROVE  p.sender.recv_ackno = Limit(g)
    BY Zenon DEF Released
  <2>2. c.sender.set_fin = TRUE
    BY <1>4, <2>1, ReceivingNumbers, Zenon DEF Behind
  <2>3. c.linger = FALSE
    BY <1>2, <2>1, <2>2, SMTT(20) DEF Moved
  <2> QED
    BY <1>4, <2>1, <2>3, Zenon DEF SideOK, Released
<1>8. SideOK(g, f, p, u)
  BY <1>4, <1>5, <1>6, <1>7, Zenon DEF SideOK
<1> QED
  BY <1>3, <1>4, <1>8, Zenon DEF Both

\* A segment that c has sent before the call says nothing wrong after it.
LEMMA SegmentKeeps ==
  ASSUME Rules, NEW f, NEW g, NEW c, NEW p, Both(f, g, c, p), NEW d, NEW b,
         CallOK(f, g, c, p, d, b),
         NEW u, Leaves(d, u), NEW seg, SegOK(g, f, c, seg)
  PROVE  SegOK(g, f, u, seg)
<1>1. u.receiver = d.receiver /\ u.sender = d.sender /\ u.linger = d.linger
  BY SMTT(20) DEF Leaves, IsNode
<1>2. Moved(f, g, c, p, u.receiver, u.sender, u.linger)
  BY <1>1, Zenon DEF CallOK
<1>3. /\ IsOutgoing(f) /\ IsOutgoing(g) /\ Stands(f, c.sender) /\ Stands(f, u.sender)
      /\ Follows(c.sender, u.sender) /\ Stands(g, p.sender)
      /\ Receiving(g, p.sender, u.receiver) /\ Receiving(g, p.sender, c.receiver)
      /\ Says(f, c.sender, seg)
  BY <1>2, Zenon DEF Both, SideOK, Moved, SegOK
<1>4. Says(f, u.sender, seg)
  BY <1>3, Zenon DEF Rules, SayingRule
<1>5. 0 .. Rcvd(c.receiver) \subseteq 0 .. Rcvd(u.receiver)
  <2>1. Rcvd(c.receiver) \in Nat /\ Rcvd(u.receiver) \in Nat
    BY <1>3, ReceivingNumbers, Zenon DEF Behind
  <2>2. Rcvd(c.receiver) <= Rcvd(u.receiver)
    BY <1>2, Zenon DEF Moved, Grows
  <2> QED
    BY <2>1, <2>2
<1>6. seg.rst = FALSE /\ seg.fin = TRUE => c.sender.set_fin = TRUE
  <2>1. c.sender.set_fin \in BOOLEAN
    BY <1>3, Zenon DEF Stood, Rules, StandingRule
  <2>2. Sent(f, c.sender, seg) /\ seg.fin = TRUE => Bit(c.sender.set_fin) = 1
    BY Zenon DEF Sent, Placed
  <2>3. Bit(c.sender.set_fin) = 1 => c.sender.set_fin = TRUE
    BY <2>1 DEF Bit
  <2>4. Answer(f, seg) => seg.fin = FALSE
    BY Zenon DEF Answer
  <2> QED
    BY <1>3, <2>2, <2>3, <2>4 DEF Says
<1>7. u.linger = FALSE /\ c.sender.set_fin = TRUE => c.linger = FALSE
  BY <1>2 DEF Moved
<1> QED
  BY <1>4, <1>5, <1>6, <1>7, Zenon DEF SegOK

\* The segments that the call has queued say nothing wrong either.
LEMMA QueuedSegment ==
  ASSUME Rules, NEW f, NEW g, NEW c, NEW p, Both(f, g, c, p), NEW d, NEW b,
         CallOK(f, g, c, p, d, b),
         NEW u, Leaves(d, u), NEW j \in 1 .. Len(d.segments_out)
  PROVE  SegOK(g, f, u, d.segments_out[j]) /\ (d.segments_out[j].rst = TRUE => Dead(u))
<1> DEFINE seg == d.segments_out[j]
           rx == u.receiver
<1>1. rx = d.receiver /\ u.sender = d.sender /\ u.linger = d.linger /\ u.active = d.active
  BY SMTT(20) DEF Leaves, IsNode
<1>2. Moved(f, g, c, p, rx, u.sender, u.linger)
  BY <1>1, Zenon DEF CallOK
<1>3. Says(f, u.sender, seg) /\ Stamps(rx, seg) /\ (seg.rst = TRUE => Dead(u))
  <2>1. PICK r \in BOOLEAN : /\ Queued(f, d.sender, d.receiver, d.segments_out, r)
                             /\ r = TRUE => Dead(d)
    BY Zenon DEF CallOK
  <2>2. Dead(d) => Dead(u)
    BY <1>1, Zenon DEF Dead
  <2> QED
    BY <1>1, <2>1, <2>2, Zenon DEF Queued
<1> HIDE DEF seg, rx
<1>4. /\ IsOutgoing(g) /\ Stands(g, p.sender) /\ Receiving(g, p.sender, rx)
      /\ u.linger = FALSE => HasAll(rx)
  BY <1>2, Zenon DEF Both, SideOK, Moved
<1>5. /\ Rcvd(rx) \in Nat /\ (HasAll(rx) => Rcvd(rx) = Limit(g))
      /\ rx.set_syn = TRUE => rx.isn = g.isn
  BY <1>4, ReceivingNumbers, Zenon DEF Behind, Receiving
<1>6. Rcvd(rx) \in 0 .. Rcvd(rx)
  BY <1>5
<1>7. seg.ack = TRUE => seg.ackno = wrap(Rcvd(rx), g.isn)
  BY <1>3, <1>5, Zenon DEF Stamps
<1>8. HasAll(rx) => seg.ack = TRUE /\ seg.ackno = wrap(Limit(g), g.isn)
  BY <1>3, <1>5, <1>7, Zenon DEF Stamps, HasAll
<1> QED
  BY <1>3, <1>4, <1>6, <1>7, <1>8, Zenon DEF SegOK, seg, rx

\* A new connection has nothing on its way.
LEMMA NewSide ==
  ASSUME Rules, NEW f, NEW g, IsOutgoing(f), IsOutgoing(g), NEW cap \in Nat,
         NEW c, NewNode(f, g, cap, c), NEW p, NewNode(g, f, cap, p)
  PROVE  SideOK(f, g, c, p) /\ stream_out(c.receiver).error = FALSE
<1>a. PICK tx : tx = new_TCPSender(cap, f.rto, f.isn)
  BY Zenon
<1>b. PICK tp : tp = new_TCPSender(cap, g.rto, g.isn)
  BY Zenon
<1>c. PICK rx : rx = new_TCPReceiver(g.capacity)
  BY Zenon
<1>d. PICK rp : rp = new_TCPReceiver(f.capacity)
  BY Zenon
<1>e. IsNode(c, rx, tx, << >>, TRUE, 0, TRUE) /\ IsNode(p, rp, tp, << >>, TRUE, 0, TRUE)
  BY <1>a, <1>b, <1>c, <1>d, Zenon DEF NewNode
<1>1. Stands(f, tx) /\ tx.segments_out = << >> /\ tx.recv_ackno = 0
  BY <1>a, Zenon DEF Rules, NewSenderRule
<1>2. Stands(g, tp) /\ tp.stream = new_ByteStream(cap) /\ tp.set_syn = FALSE
  BY <1>b, Zenon DEF Rules, NewSenderRule
<1>3. tp.stream.read = 0
  BY <1>2, SMTT(20) DEF new_ByteStream
<1>4. PICK r : r = new_StreamReassembler(g.capacity)
  BY Zenon
<1>5. /\ Assembling(g, 0, r, tp.set_fin) /\ r.output = new_ByteStream(g.capacity)
      /\ r.eof_index = SizeMax
  BY <1>4, Zenon DEF Rules, FlowRule, NewReassemblerRule
<1>6. r.output.error = FALSE
  BY <1>5 DEF new_ByteStream
<1>7. /\ IsRx(rx, r, g.capacity, FALSE, FALSE, 0)
      /\ rx.reassembler = r /\ rx.set_syn = FALSE /\ rx.set_fin = FALSE /\ rx.isn = 0
  BY <1>c, <1>4, SMTT(20) DEF IsRx, new_TCPReceiver
<1>8. Receiving(g, tp, rx)
  BY <1>2, <1>3, <1>5, <1>7, Zenon DEF Receiving
<1>9. /\ c.receiver = rx /\ c.sender = tx /\ c.segments_out = << >> /\ c.linger = TRUE
      /\ c.time_since_last_segment = 0 /\ c.active = TRUE
  BY <1>e, SMTT(20) DEF IsNode
<1>10. p.receiver = rp /\ p.sender = tp /\ p.linger = TRUE
  BY <1>e DEF IsNode
<1>11. tx.recv_ackno <= Rcvd(rp)
  <2>1. rp.set_syn = FALSE
    BY <1>d, SMTT(20) DEF new_TCPReceiver
  <2> QED
    BY <1>1, <2>1 DEF Rcvd, has_ackno
<1>12. stream_out(rx).error = FALSE /\ Status(f, rx, tx, TRUE) /\ Released(f, rx, tx, p)
  BY <1>6, <1>7, <1>10, Zenon DEF stream_out, Status, Released
<1>13. SideOK(f, g, c, p)
  BY <1>1, <1>8, <1>9, <1>10, <1>11, <1>12, <1>e, Zenon DEF SideOK
<1> QED
  BY <1>9, <1>12, <1>13, Zenon

-------------------------------------------------------------------------------
(***************************************************************************)
(* What the pair relies on                                                 *)
(***************************************************************************)
\* Nothing is called: what holds of a connection and its peer still does.
LEMMA Idles ==
  ASSUME Rules, NEW f, NEW g, NEW c, NEW p, Both(f, g, c, p)
  PROVE  CallOK(f, g, c, p, c, FALSE)
<1>1. /\ IsNode(c, c.receiver, c.sender, << >>, c.linger, c.time_since_last_segment, c.active)
      /\ c.active \in BOOLEAN /\ c.sender.segments_out = << >>
      /\ Status(f, c.receiver, c.sender, c.active)
  BY Zenon DEF Both, SideOK
<1>2. Dead(c) => c.active = FALSE
  BY Zenon DEF Dead
<1>3. Moved(f, g, c, p, c.receiver, c.sender, c.linger)
  BY MovedStart, Zenon
<1> QED
  BY <1>1, <1>2, <1>3, SendsNothing, Zenon

\* The calls of a connection keep the rules that the pair relies on.
LEMMA ContractKept ==
  ASSUME Rules
  PROVE  Contract
<1>1. FlowRule /\ StandingRule /\ PieceRule /\ JoinRule /\ NoBytesRule
  BY Zenon DEF Rules
<1>2. NumbersRule
  BY ReceivingNumbers, Zenon DEF NumbersRule
<1>3. NewSideRule
  BY NewSide, Zenon DEF NewSideRule
<1>4. IdleRule
  BY Idles, Zenon DEF IdleRule
<1>5. ConnectRule
  BY Connects, Zenon DEF ConnectRule
<1>6. ConnectionWriteRule
  <2>1. ASSUME NEW f, NEW g, NEW c, NEW p, NEW n \in Nat,
               Both(f, g, c, p), c.active = TRUE, c.sender.stream.input_end = FALSE,
               c.sender.stream.written + n <= Len(f.stream)
        PROVE  Extended(f, g, c, p,
                        connection_write(c, Bytes(f, c.sender.stream.written, n)), FALSE)
    BY <2>1, Writes, Zenon
  <2> QED
    BY <2>1, Zenon DEF ConnectionWriteRule
<1>7. EndInputRule
  BY EndsInput, Zenon DEF EndInputRule
<1>8. ConnectionTickRule
  BY Ticks, Zenon DEF ConnectionTickRule
<1>9. SegmentRule
  BY Receives, Zenon DEF SegmentRule
<1>10. ConnectionReadRule
  BY Reads, Zenon DEF ConnectionReadRule
<1>11. KeepRule
  BY CallKeeps, Zenon DEF KeepRule
<1>12. KeepSegmentRule
  <2> USE DEF KeepSegmentRule
  <2> TAKE f, g, c, p, d, b, u, seg
  <2> HAVE Both(f, g, c, p) /\ CallOK(f, g, c, p, d, b) /\ Leaves(d, u) /\ SegOK(g, f, c, seg)
  <2> QED
    BY SegmentKeeps, Zenon
<1>13. QueuedRule
  <2> USE DEF QueuedRule
  <2> TAKE f, g, c, p, d, b, u
  <2> HAVE Both(f, g, c, p) /\ CallOK(f, g, c, p, d, b) /\ Leaves(d, u)
  <2> QED
    BY QueuedSegment, Zenon DEF Departs
<1> QED
  BY <1>1, <1>2, <1>3, <1>4, <1>5, <1>6, <1>7, <1>8, <1>9, <1>10, <1>11, <1>12, <1>13,
     Zenon DEF Contract

===============================================================================
