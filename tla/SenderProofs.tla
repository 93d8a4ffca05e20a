----------------------------- MODULE SenderProofs -----------------------------
(***************************************************************************)
(* The inductive invariant of the sender and the theorems that rest on it. *)
(***************************************************************************)
EXTENDS SenderSystem, SenderLemmas

\* The stream of this system as a flow; there is no receiver, so its capacity is not used.
Outgoing ==
    [byte |-> Byte, stream |-> Stream, capacity |-> 1, assembled |-> 0, error |-> FALSE,
     isn |-> Isn, rto |-> Rto, windows |-> Windows]

\* The inductive invariant: between two calls the sender is ready for the next one,
\* nothing waits with nothing in flight, the segments have been taken out, and the
\* retransmissions are counted.
SenderInv ==
    /\ Ready(Outgoing, tx, edge) /\ Busy(tx)
    /\ tx.segments_out = << >> /\ out \in Seq(Segs(Outgoing))
    /\ lost = tx.consecutive_retransmissions

\* The flow satisfies what the lemmas about senders ask for.
LEMMA OutgoingOK ==
  /\ IsOutgoing(Outgoing) /\ Outgoing.byte = Byte /\ Outgoing.stream = Stream
  /\ Outgoing.isn = Isn /\ Outgoing.rto = Rto /\ Outgoing.windows = Windows
  /\ \A i, n : Bytes(Outgoing, i, n) = Slice(i, n)
<1>1. /\ Outgoing.byte = Byte /\ Outgoing.stream = Stream /\ Outgoing.capacity = 1
      /\ Outgoing.isn = Isn /\ Outgoing.rto = Rto /\ Outgoing.windows = Windows
      /\ Outgoing.assembled = 0
  BY DEF Outgoing
<1>2. /\ Stream \in Seq(Byte) /\ Len(Stream) \in Nat /\ Len(Stream) + 1 < SizeMax
      /\ Rto \in Nat /\ Windows \subseteq Nat /\ Isn \in WrappingInt32
      /\ 2 * (Len(Stream) + 2) < SeqMod /\ 2 * SeqMod <= SizeMax
  BY SenderAssumption, Modulus
<1>3. IsOutgoing(Outgoing)
  BY <1>1, <1>2, SMTT(20) DEF IsOutgoing, IsFlow
<1>4. \A i, n : Bytes(Outgoing, i, n) = Slice(i, n)
  BY <1>1, Zenon DEF Bytes, Slice
<1> QED
  BY <1>1, <1>3, <1>4, Zenon

-------------------------------------------------------------------------------
(***************************************************************************)
(* The steps                                                               *)
(***************************************************************************)
\* What a call leaves behind once the connection has taken the segments
LEMMA AfterCall ==
  ASSUME NEW t, Ready(Outgoing, t, edge'), Busy(t), Called(t),
         lost' = t.consecutive_retransmissions
  PROVE  SenderInv'
<1>1. t.segments_out \in Seq(Segs(Outgoing)) /\ t \in Senders(Outgoing)
  BY DEF Ready, Senders
<1>2. tx' = [t EXCEPT !.segments_out = << >>] /\ out' = t.segments_out
  BY DEF Called
<1>3. Ready(Outgoing, tx', edge') /\ Busy(tx') /\ tx'.segments_out = << >>
  BY <1>2, OutgoingOK, Taken, Zenon
<1>4. tx'.consecutive_retransmissions = t.consecutive_retransmissions
  BY <1>1, <1>2, SMTT(20) DEF Senders
<1> QED
  BY <1>1, <1>2, <1>3, <1>4, Zenon DEF SenderInv

\* connect, write and end_input_stream
LEMMA StepApplication ==
  ASSUME SenderInv,
         Connect \/ (\E n \in 1 .. Len(Stream) : Write(n)) \/ EndInput
  PROVE  SenderInv'
<1>1. /\ Ready(Outgoing, tx, edge) /\ StreamOK(Outgoing, tx.stream)
      /\ tx.stream.input_end \in BOOLEAN /\ tx \in Senders(Outgoing)
      /\ lost = tx.consecutive_retransmissions
  BY SMTT(20) DEF SenderInv, Ready, StreamOK, ByteStreams
<1>2. ASSUME NEW t, Ready(Outgoing, t, edge), Called(fill_window(t)), edge' = edge,
             lost' = t.consecutive_retransmissions
      PROVE  SenderInv'
  <2>1. /\ Ready(Outgoing, fill_window(t), edge) /\ Busy(fill_window(t))
        /\ Advanced(t, fill_window(t))
    BY <1>2, OutgoingOK, FillWindow, Zenon
  <2>2. lost' = fill_window(t).consecutive_retransmissions
    BY <1>2, <2>1, Zenon DEF Advanced
  <2> QED
    BY <1>2, <2>1, <2>2, AfterCall, Zenon
<1>0. ASSUME NEW bs, lost' = lost
      PROVE  lost' = [tx EXCEPT !.stream = bs].consecutive_retransmissions
  BY <1>0, <1>1, SMTT(20) DEF Senders
<1>3. CASE Connect
  BY <1>1, <1>2, <1>3, Zenon DEF Connect
<1>4. ASSUME NEW n \in 1 .. Len(Stream), Write(n)
      PROVE  SenderInv'
  <2> DEFINE bs == stream_write(tx.stream, Slice(tx.stream.written, n))
             t == [tx EXCEPT !.stream = bs]
  <2>1. /\ tx.stream.input_end = FALSE /\ tx.stream.written + n <= Len(Stream)
        /\ Called(fill_window(t)) /\ edge' = edge /\ lost' = lost
    <3>1. /\ ~tx.stream.input_end /\ tx.stream.written + n <= Len(Stream)
          /\ edge' = edge /\ lost' = lost
      BY <1>4 DEF Write
    <3>2. Called(fill_window(t))
      BY <1>4, Zenon DEF Write
    <3> QED
      BY <1>1, <3>1, <3>2, Zenon
  <2>2. StreamOK(Outgoing, bs) /\ bs.read = tx.stream.read
    <3>1. n \in Nat
      BY SenderAssumption
    <3>2. bs = stream_write(tx.stream, Bytes(Outgoing, tx.stream.written, n))
      BY OutgoingOK, Zenon
    <3> HIDE DEF bs
    <3>3. tx.stream.written + n <= Len(Outgoing.stream)
      BY <2>1, OutgoingOK, Zenon
    <3>4. Wrote(Outgoing, tx.stream, bs)
      BY <1>1, <2>1, <3>1, <3>2, <3>3, OutgoingOK, StreamWrite, Zenon
    <3> QED
      BY <3>4, Zenon DEF Wrote
  <2> HIDE DEF bs
  <2>3. Ready(Outgoing, t, edge)
    BY <1>1, <2>1, <2>2, OutgoingOK, NewStream, Zenon
  <2>4. lost' = t.consecutive_retransmissions
    BY <1>0, <2>1, Zenon
  <2> HIDE DEF t
  <2> QED
    BY <1>2, <2>1, <2>3, <2>4, Zenon
<1>5. CASE EndInput
  <2> DEFINE bs == end_input(tx.stream)
             t == [tx EXCEPT !.stream = bs]
  <2>1. /\ tx.stream.input_end = FALSE /\ Called(fill_window(t)) /\ edge' = edge
        /\ lost' = lost
    BY <1>1, <1>5, Zenon DEF EndInput
  <2>2. StreamOK(Outgoing, bs) /\ bs.read = tx.stream.read
    <3>1. Ended(Outgoing, tx.stream, bs)
      BY <1>1, StreamFlags, Zenon
    <3> QED
      BY <3>1, Zenon DEF Ended
  <2> HIDE DEF bs
  <2>3. Ready(Outgoing, t, edge)
    BY <1>1, <2>1, <2>2, OutgoingOK, NewStream, Zenon
  <2>4. lost' = t.consecutive_retransmissions
    BY <1>0, <2>1, Zenon
  <2> HIDE DEF t
  <2> QED
    BY <1>2, <2>1, <2>3, <2>4, Zenon
<1> QED
  BY <1>3, <1>4, <1>5, Zenon

\* ack_received starts counting again exactly when it takes a segment off the queue.
LEMMA AckCounts ==
  ASSUME SenderInv, NEW a \in Nat, NEW win \in Windows, acceptable(tx, a),
         tx.recv_ackno <= a, a <= tx.next_seqno,
         ack_received(tx, wrap(a, Isn), win) = fill_window(Acked(tx, a, win))
  PROVE  ack_received(tx, wrap(a, Isn), win).consecutive_retransmissions =
           IF Progress(a) THEN 0 ELSE lost
<1> DEFINE q == tx.segments_unackno
           n == acked_count(tx, a)
           v == Acked(tx, a, win)
<1>1. /\ Ready(Outgoing, tx, edge) /\ tx \in Senders(Outgoing)
      /\ lost = tx.consecutive_retransmissions
  BY Zenon DEF SenderInv, Ready
<1>2. v.consecutive_retransmissions = IF n > 0 THEN 0 ELSE lost
  BY <1>1 DEF Acked, Senders
<1>3. n \in 0 .. Len(q) /\ (\A j \in 1 .. n : End(Outgoing, q[j]) <= a)
      /\ (n < Len(q) => End(Outgoing, q[n + 1]) > a)
  BY <1>1, OutgoingOK, AckedCount, Zenon
<1>4. q \in Seq(Segs(Outgoing)) /\ Len(q) \in Nat /\ (q # << >> <=> Len(q) > 0)
  BY <1>1, SMTT(20) DEF Senders
<1>5. \A j \in 1 .. Len(q) : segment_end(tx, q[j]) = End(Outgoing, q[j]) /\ End(Outgoing, q[j]) \in Nat
  BY <1>1, OutgoingOK, QueuedNumbers, Zenon
<1>6. Ready(Outgoing, v, MaxOf(edge, a + MaxOf(win, 1)))
  <2>1. StaysReady(Outgoing, tx, edge, a, win)
    BY <1>1, OutgoingOK, AckedReady, Zenon
  <2> QED
    BY <2>1, Zenon DEF StaysReady
<1>7. fill_window(v).consecutive_retransmissions = v.consecutive_retransmissions
  BY <1>6, OutgoingOK, FillWindow, Zenon DEF Advanced
<1> HIDE DEF n, q, v
<1>8. n > 0 <=> q # << >> /\ segment_end(tx, q[1]) <= a
  <2>1. CASE q = << >>
    BY <1>3, <1>4, <2>1, SMTT(20)
  <2>2. CASE q # << >>
    <3>1. 1 \in 1 .. Len(q) /\ Len(q) > 0
      BY <1>4, <2>2, SMTT(20)
    <3>2. segment_end(tx, q[1]) = End(Outgoing, q[1]) /\ End(Outgoing, q[1]) \in Nat
      BY <1>5, <3>1, Zenon
    <3>3. n > 0 => End(Outgoing, q[1]) <= a
      BY <1>3, <1>4
    <3>4. ~(n > 0) => End(Outgoing, q[1]) > a
      <4>1. SUFFICES ASSUME ~(n > 0) PROVE End(Outgoing, q[1]) > a
        OBVIOUS
      <4>2. n = 0 /\ n < Len(q) /\ n + 1 = 1
        BY <1>3, <1>4, <3>1, <4>1
      <4> QED
        BY <1>3, <4>2, SMTT(20)
    <3> QED
      BY <2>2, <3>2, <3>3, <3>4, SMTT(20)
  <2> QED
    BY <2>1, <2>2, SMTT(20)
<1>9. n > 0 <=> Progress(a)
  BY <1>8, Zenon DEF Progress, q
<1> QED
  BY <1>2, <1>7, <1>9, Zenon DEF v

\* An acknowledgment, whichever it is
LEMMA StepAck ==
  ASSUME SenderInv, NEW a \in 0 .. Len(Stream) + 3, NEW win \in Windows, AckReceived(a, win)
  PROVE  SenderInv'
<1> DEFINE u == ack_received(tx, wrap(a, Isn), win)
<1>1. Ready(Outgoing, tx, edge) /\ Busy(tx)
  BY DEF SenderInv
<1>2. a \in Nat /\ a < SeqMod
  BY SenderAssumption, Modulus, SMTT(20)
<1>3. /\ Called(u)
      /\ edge' = IF tx.recv_ackno <= a /\ a <= tx.next_seqno
                   THEN MaxOf(edge, a + MaxOf(win, 1)) ELSE edge
      /\ lost' = IF Progress(a) THEN 0 ELSE lost
  BY SMTT(30) DEF AckReceived
<1>4. AckEffect(Outgoing, tx, edge, a, win, u)
  <2>1. win \in Outgoing.windows /\ Outgoing.isn = Isn /\ IsOutgoing(Outgoing)
    BY OutgoingOK, Zenon
  <2>2. AckEffect(Outgoing, tx, edge, a, win, ack_received(tx, wrap(a, Outgoing.isn), win))
    BY <1>1, <1>2, <2>1, AckOutcome, Zenon
  <2> QED
    BY <2>1, <2>2, Zenon
<1>7. acceptable(tx, a) => u = fill_window(Acked(tx, a, win))
  <2>1. /\ tx.isn = Isn /\ tx.recv_ackno \in Nat /\ tx.recv_ackno <= Limit(Outgoing)
    <3>1. tx.next_seqno \in Nat /\ tx.next_seqno <= Limit(Outgoing) /\ Limit(Outgoing) \in Nat
      BY <1>1, OutgoingOK, NextWithinLimit, Constants, Zenon
    <3>2. /\ tx.isn = Isn /\ tx.recv_ackno \in Nat /\ tx.recv_ackno <= tx.next_seqno
      BY <1>1, OutgoingOK, SMTT(20) DEF Ready, QueueOK, Senders
    <3> HIDE DEF Limit
    <3> QED
      BY <3>1, <3>2
  <2>2. wrap(a, Isn) \in WrappingInt32 /\ (wrap(a, Isn) - Isn) % SeqMod = a
    BY <1>2, OutgoingOK, WrapStart, Zenon
  <2>3. unwrap(wrap(a, Isn), Isn, tx.recv_ackno) = a
    BY <2>1, <2>2, OutgoingOK, UnwrapStart, Zenon
  <2> QED
    BY <2>1, <2>3, Zenon DEF ack_received, Acked
<1>8. acceptable(tx, a) => u.consecutive_retransmissions = IF Progress(a) THEN 0 ELSE lost
  <2>1. SUFFICES ASSUME acceptable(tx, a)
                 PROVE  u.consecutive_retransmissions = IF Progress(a) THEN 0 ELSE lost
    OBVIOUS
  <2>2. tx.recv_ackno \in Nat /\ tx.next_seqno \in Nat
    BY <1>1, SMTT(20) DEF Ready, Senders
  <2>3. tx.recv_ackno <= a /\ a <= tx.next_seqno
    BY <1>2, <2>1, <2>2, SMTT(20) DEF acceptable
  <2> QED
    BY <1>2, <1>7, <2>1, <2>3, AckCounts, Zenon
<1> HIDE DEF u
<1>5. CASE u = tx /\ ~acceptable(tx, a)
  <2>1. tx.recv_ackno \in Nat /\ tx.next_seqno \in Nat
    BY <1>1 DEF Ready, Senders
  <2>2. ~(tx.recv_ackno <= a /\ a <= tx.next_seqno)
    BY <1>2, <1>5, <2>1, SMTT(20) DEF acceptable
  <2>3. edge' = edge /\ lost' = u.consecutive_retransmissions
    BY <1>3, <1>5, <2>2, Zenon DEF Progress, SenderInv
  <2> QED
    BY <1>1, <1>3, <1>5, <2>3, AfterCall, Zenon
<1>6. CASE ~(u = tx /\ ~acceptable(tx, a))
  <2>1. /\ tx.recv_ackno <= a /\ a <= tx.next_seqno
        /\ Ready(Outgoing, u, MaxOf(edge, a + MaxOf(win, 1))) /\ Busy(u)
        /\ acceptable(tx, a)
    BY <1>4, <1>6, Zenon DEF AckEffect
  <2>2. edge' = MaxOf(edge, a + MaxOf(win, 1))
    BY <1>3, <2>1, Zenon
  <2>3. lost' = u.consecutive_retransmissions
    BY <1>3, <1>8, <2>1, Zenon
  <2> QED
    BY <1>3, <2>1, <2>2, <2>3, AfterCall, Zenon
<1> QED
  BY <1>5, <1>6, Zenon

\* The passage of time, with or without a retransmission
LEMMA StepTick ==
  ASSUME SenderInv, NEW ms \in TickSizes, Tick(ms)
  PROVE  SenderInv'
<1>1. Ready(Outgoing, tx, edge) /\ Busy(tx) /\ ms \in Nat
  BY SenderAssumption DEF SenderInv
<1>2. /\ Called(sender_tick(tx, ms)) /\ edge' = edge
      /\ lost' = IF out' # << >> /\ tx.window_size > 0 THEN lost + 1 ELSE lost
  BY Zenon DEF Tick
<1>3. Ready(Outgoing, sender_tick(tx, ms), edge) /\ Busy(sender_tick(tx, ms))
  BY <1>1, OutgoingOK, Ticked, Zenon
<1>4. lost' = sender_tick(tx, ms).consecutive_retransmissions
  <2> DEFINE u == sender_tick(tx, ms)
             t == timer_tick(tx.timer, ms)
             q == tx.segments_unackno
  <2>1. /\ tx \in Senders(Outgoing) /\ tx.segments_out = << >>
        /\ lost = tx.consecutive_retransmissions /\ out' = u.segments_out
    BY <1>2, Zenon DEF SenderInv, Ready, Called
  <2>2. CASE check_expired(t) /\ q # << >>
    <3>1. u = [tx EXCEPT
                 !.segments_out = Append(@, Head(q)),
                 !.consecutive_retransmissions = IF tx.window_size > 0 THEN @ + 1 ELSE @,
                 !.timer = timer_start(IF tx.window_size > 0 THEN timer_reset_double(t) ELSE t)]
      BY <2>2 DEF sender_tick
    <3> HIDE DEF u, t
    <3>2. /\ u.segments_out = Append(<< >>, Head(q))
          /\ u.consecutive_retransmissions = IF tx.window_size > 0 THEN lost + 1 ELSE lost
      BY <2>1, <3>1 DEF Senders
    <3>3. Append(<< >>, Head(q)) # << >>
      BY SMTT(20)
    <3> QED
      BY <1>2, <2>1, <3>2, <3>3, Zenon DEF u
  <2>3. CASE ~(check_expired(t) /\ q # << >>)
    <3>1. u = [tx EXCEPT !.timer = t]
      BY <2>3 DEF sender_tick
    <3> HIDE DEF u, t
    <3>2. u.segments_out = << >> /\ u.consecutive_retransmissions = lost
      BY <2>1, <3>1, SMTT(20) DEF Senders
    <3> QED
      BY <1>2, <2>1, <3>2, Zenon DEF u
  <2> QED
    BY <2>2, <2>3, Zenon
<1> QED
  BY <1>2, <1>3, <1>4, AfterCall, Zenon

\* The sender as it is constructed
LEMMA InitReady ==
  ASSUME Init
  PROVE  SenderInv
<1>1. /\ tx = new_TCPSender(Capacity, Outgoing.rto, Outgoing.isn) /\ out = << >> /\ edge = 1
      /\ lost = 0
  BY OutgoingOK, Zenon DEF Init
<1>2. Capacity \in Nat /\ << >> \in Seq(Segs(Outgoing))
  BY SenderAssumption, SMTT(20)
<1>3. Ready(Outgoing, tx, 1) /\ Busy(tx) /\ tx.segments_out = << >>
  BY <1>1, <1>2, OutgoingOK, NewSender, Zenon
<1>4. tx.consecutive_retransmissions = 0
  BY <1>1, SMTT(20) DEF new_TCPSender
<1> QED
  BY <1>1, <1>2, <1>3, <1>4, Zenon DEF SenderInv

\* Every call keeps the invariant.
LEMMA SenderStep ==
  ASSUME SenderInv, [Next]_vars
  PROVE  SenderInv'
<1>1. CASE UNCHANGED vars
  BY <1>1, SMTT(30) DEF vars, SenderInv
<1>2. CASE Next
  BY <1>2, StepApplication, StepAck, StepTick, SMTT(20) DEF Next
<1> QED
  BY <1>1, <1>2, SMTT(20)

\* SenderInv holds after every call on the sender.
LEMMA AlwaysSenderInv == Spec => []SenderInv
<1>1. Init => SenderInv
  BY InitReady, SMTT(20)
<1>2. SenderInv /\ [Next]_vars => SenderInv'
  BY SenderStep, SMTT(30)
<1> QED
  BY <1>1, <1>2, PTL DEF Spec

-------------------------------------------------------------------------------
(***************************************************************************)
(* The theorems                                                            *)
(***************************************************************************)
\* The invariant gives each of the properties: the types,
LEMMA InvTyped ==
  ASSUME SenderInv
  PROVE  TypeOK
<1>1. Ready(Outgoing, tx, edge) /\ tx \in Senders(Outgoing) /\ edge \in Nat /\ out \in Seq(Segs(Outgoing))
  BY Zenon DEF SenderInv, Ready, Allowed
<1>2. tx.next_seqno \in Nat /\ tx.next_seqno <= Limit(Outgoing)
  BY <1>1, OutgoingOK, NextWithinLimit, SMTT(20)
<1>3. /\ tx.recv_ackno \in Nat /\ tx.bytes_in_flight \in Nat
      /\ tx.recv_ackno <= tx.next_seqno /\ tx.bytes_in_flight <= tx.next_seqno
  BY <1>1, SMTT(30) DEF Ready, QueueOK, Senders
<1>4. {tx.next_seqno, tx.recv_ackno, tx.bytes_in_flight} \subseteq Seqnos
  <2>1. Limit(Outgoing) = Len(Stream) + 2 /\ Len(Stream) \in Nat
    BY OutgoingOK, Constants, Zenon
  <2> QED
    BY <1>2, <1>3, <2>1, SMTT(20) DEF Seqnos
<1>5. /\ tx.stream \in ByteStreams(Byte) /\ tx.set_syn \in BOOLEAN /\ tx.set_fin \in BOOLEAN
      /\ tx.timer \in Timers /\ tx.consecutive_retransmissions \in Nat
      /\ tx.segments_unackno \in Seq(Segs(Outgoing))
  BY <1>1, OutgoingOK DEF Senders
<1>6. /\ tx.timer.running \in BOOLEAN /\ tx.timer.init_RTO \in Nat /\ tx.timer.cur_RTO \in Nat
      /\ tx.timer.elapsed_time \in Nat
  BY <1>5, SMTT(20) DEF Timers
<1>7. tx.window_size \in Windows \cup {1}
  BY <1>1, OutgoingOK, Zenon DEF Ready
<1>8. {tx.set_syn, tx.set_fin, tx.timer.running} \subseteq BOOLEAN
  BY <1>5, <1>6, Zenon
<1>9. {tx.timer.init_RTO, tx.timer.cur_RTO, tx.timer.elapsed_time} \subseteq Nat
  BY <1>6, Zenon
<1>10. lost \in Nat
  BY <1>5, Zenon DEF SenderInv
<1> QED
  BY <1>1, <1>4, <1>5, <1>7, <1>8, <1>9, <1>10, OutgoingOK, Zenon DEF TypeOK, Segs

\* the unacknowledged segments tile the numbers in flight,
LEMMA InvTiles ==
  ASSUME SenderInv
  PROVE  QueueTilesFlight
<1> DEFINE q == tx.segments_unackno
           a == tx.next_seqno - tx.bytes_in_flight
<1>1. /\ Ready(Outgoing, tx, edge) /\ tx.next_seqno \in Nat /\ tx.bytes_in_flight \in Nat
      /\ tx.bytes_in_flight <= tx.next_seqno /\ Tiled(Outgoing, q, a, tx.next_seqno)
      /\ a <= tx.recv_ackno /\ tx.recv_ackno <= tx.next_seqno
  BY SMTT(30) DEF SenderInv, Ready, QueueOK, Senders
<1>2. q \in Seq(Segs(Outgoing)) /\ Len(q) \in Nat /\ (q # << >> => Len(q) > 0)
  BY <1>1 DEF Tiled
<1>3. \A j \in 1 .. Len(q) : /\ segment_start(tx, q[j]) = Start(Outgoing, q[j])
                             /\ segment_end(tx, q[j]) = End(Outgoing, q[j])
  BY <1>1, OutgoingOK, QueuedNumbers, SMTT(30)
<1> HIDE DEF q
<1>4. ASSUME NEW j \in 1 .. Len(q) - 1
      PROVE  segment_end(tx, q[j]) = segment_start(tx, q[j + 1])
  <2>1. j \in 1 .. Len(q) /\ j + 1 \in 1 .. Len(q) /\ End(Outgoing, q[j]) = Start(Outgoing, q[j + 1])
    BY <1>1, <1>2, SMTT(30) DEF Tiled
  <2> QED
    BY <1>3, <2>1, SMTT(20)
<1>5. q # << >> => segment_end(tx, q[Len(q)]) = tx.next_seqno /\ segment_start(tx, q[1]) = a
  <2>1. SUFFICES ASSUME q # << >>
                 PROVE  segment_end(tx, q[Len(q)]) = tx.next_seqno /\ segment_start(tx, q[1]) = a
    OBVIOUS
  <2>2. Len(q) \in 1 .. Len(q) /\ 1 \in 1 .. Len(q)
    BY <1>2, <2>1, SMTT(20)
  <2> QED
    BY <1>1, <1>3, <2>1, <2>2, SMTT(20) DEF Tiled
<1>6. FirstUnacked = a
  <2>1. q = << >> => a = tx.next_seqno
    BY <1>1, SMTT(20) DEF Tiled
  <2> QED
    BY <1>5, <2>1, SMTT(20) DEF FirstUnacked, q
<1>7. tx.bytes_in_flight = tx.next_seqno - a
  BY <1>1
<1> HIDE DEF a
<1> QED
  BY <1>1, <1>4, <1>5, <1>6, <1>7, SMTT(20) DEF QueueTilesFlight, q

\* they carry the stream,
LEMMA InvPayload ==
  ASSUME SenderInv
  PROVE  PayloadIsStream
<1>1. Ready(Outgoing, tx, edge)
  BY SMTT(20) DEF SenderInv
<1>2. ASSUME NEW j \in 1 .. Len(tx.segments_unackno)
      PROVE  LET seg == tx.segments_unackno[j]
                 start == segment_start(tx, seg)
             IN  /\ seg.syn <=> start = 0
                 /\ seg.payload = Slice(IF seg.syn THEN 0 ELSE start - 1, Len(seg.payload))
  <2> DEFINE seg == tx.segments_unackno[j]
  <2>1. segment_start(tx, seg) = Start(Outgoing, seg) /\ Carries(Outgoing, seg)
    BY <1>1, OutgoingOK, QueuedNumbers, SMTT(30)
  <2> QED
    BY <2>1, OutgoingOK, Zenon DEF Carries
<1> QED
  BY <1>2, Zenon DEF PayloadIsStream

\* the FIN comes last,
LEMMA InvFin ==
  ASSUME SenderInv
  PROVE  FinIsLast
<1>1. Numbered(tx) /\ tx \in Senders(Outgoing)
  BY DEF SenderInv, Ready
<1>2. tx.set_syn \in BOOLEAN /\ tx.set_fin \in BOOLEAN
  BY <1>1, SMTT(20) DEF Senders
<1>3. tx.set_fin => stream_eof(tx.stream) /\ tx.next_seqno = tx.stream.written + 2
  BY <1>1, <1>2, SMTT(30) DEF Numbered, stream_eof
<1>4. ~tx.set_fin /\ tx.set_syn => tx.next_seqno = tx.stream.read + 1
  BY <1>1, <1>2, SMTT(20) DEF Numbered
<1>5. ~tx.set_syn => tx.next_seqno = 0
  BY <1>1, <1>2, SMTT(30) DEF Numbered
<1> QED
  BY <1>3, <1>4, <1>5, SMTT(20) DEF FinIsLast

\* and the sender waits only for an acknowledgment or for more data.
LEMMA InvBusy ==
  ASSUME SenderInv
  PROVE  NeverIdleWithData
<1>1. TimerOK(Outgoing, tx) /\ Busy(tx) /\ tx \in Senders(Outgoing)
  BY SMTT(20) DEF SenderInv, Ready
<1>2. /\ tx.set_syn \in BOOLEAN /\ tx.set_fin \in BOOLEAN /\ tx.timer \in Timers
      /\ tx.stream \in ByteStreams(Byte)
  BY <1>1, OutgoingOK, SMTT(20) DEF Senders
<1>3. tx.timer.running \in BOOLEAN /\ tx.stream.input_end \in BOOLEAN
  BY <1>2, SMTT(30) DEF Timers, ByteStreams
<1>4. tx.timer.running <=> tx.segments_unackno # << >>
  BY <1>1, <1>3, SMTT(20) DEF TimerOK
<1>5. ASSUME tx.set_syn, tx.stream.buffer # << >> \/ (tx.stream.input_end /\ ~tx.set_fin)
      PROVE  tx.segments_unackno # << >>
  BY <1>1, <1>2, <1>3, <1>5, SMTT(30) DEF Busy
<1> QED
  BY <1>4, <1>5, SMTT(20) DEF NeverIdleWithData

\* The fields of a sender keep their types whatever its peer and its application do, and
\* no sequence number leaves the range of the stream: the unsigned subtractions of
\* tcp_sender.cc do not wrap around.
THEOREM AlwaysTypeOK == Spec => []TypeOK
<1>1. SenderInv => TypeOK
  BY InvTyped, SMTT(30)
<1> QED
  BY <1>1, AlwaysSenderInv, PTL

\* The queue of unacknowledged segments covers exactly what bytes_in_flight counts, after
\* any sequence of acknowledgments, old, repeated or for half a segment.
THEOREM AlwaysTiles == Spec => []QueueTilesFlight
<1>1. SenderInv => QueueTilesFlight
  BY InvTiles, Zenon
<1> QED
  BY <1>1, AlwaysSenderInv, PTL

\* fill_window never uses a number beyond the furthest edge an accepted acknowledgment
\* has opened, the probe of a zero window apart, even if the peer shrinks its window.
THEOREM AlwaysInWindow == Spec => []WindowRespected
<1>1. SenderInv => WindowRespected
  BY SMTT(30) DEF SenderInv, Ready, Allowed, WindowRespected
<1> QED
  BY <1>1, AlwaysSenderInv, PTL

\* What push_segment cuts out of the stream, and tick sends again, is the part of the
\* stream that belongs at the segment's sequence numbers.
THEOREM AlwaysStreamPayload == Spec => []PayloadIsStream
<1>1. SenderInv => PayloadIsStream
  BY InvPayload, SMTT(30)
<1> QED
  BY <1>1, AlwaysSenderInv, PTL

\* The FIN takes the number after the last byte, once, and only of a stream that has
\* ended and has been sent in full.
THEOREM AlwaysFinLast == Spec => []FinIsLast
<1>1. SenderInv => FinIsLast
  BY InvFin, Zenon
<1> QED
  BY <1>1, AlwaysSenderInv, PTL

\* The timeout is the initial one doubled once for each segment repeated into an open
\* window since one was acknowledged in full, for any number of them: a probe of a
\* closed window never counts, and progress resets the count and the timeout together.
THEOREM AlwaysBackoff == Spec => []BackoffExact
<1>1. SenderInv => BackoffExact
  BY OutgoingOK, Zenon DEF SenderInv, Ready, TimerOK, BackoffExact
<1> QED
  BY <1>1, AlwaysSenderInv, PTL

\* The sender is never stuck: what waits has something in flight before it, and the timer
\* that will send that again runs exactly while something is in flight.
THEOREM AlwaysBusy == Spec => []NeverIdleWithData
<1>1. SenderInv => NeverIdleWithData
  BY InvBusy, Zenon
<1> QED
  BY <1>1, AlwaysSenderInv, PTL
-------------------------------------------------------------------------------
(***************************************************************************)
(* The sequence numbers of the stream, whatever its length: wrap and       *)
(* unwrap, for every even SeqMod that divides SizeMax + 1, so for the 2^32 *)
(* and 2^64 of the build.                                                  *)
(***************************************************************************)
\* The constants are those of unsigned arithmetic: HalfMod is half of SeqMod, and
\* the 64-bit numbers hold at least all the 32-bit ones.
LEMMA SeqnoConstants ==
  /\ SeqMod \in Nat /\ HalfMod \in Nat /\ SizeMax \in Nat
  /\ HalfMod > 0 /\ SeqMod = HalfMod + HalfMod /\ SizeMax + 1 >= SeqMod
<1>1. HalfMod \in Nat /\ HalfMod > 0 /\ SeqMod = HalfMod + HalfMod
  BY SeqModAssumption, SMTT(20) DEF HalfMod
<1>2. SizeMax + 1 >= SeqMod
  <2>1. SUFFICES ASSUME SizeMax + 1 < SeqMod PROVE FALSE
    BY SeqModAssumption, SizeMaxAssumption, SMTT(20)
  <2>2. (SizeMax + 1) % SeqMod = SizeMax + 1
    BY <2>1, SeqModAssumption, SizeMaxAssumption, SMTT(20)
  <2> QED
    BY <2>2, SeqModAssumption, SizeMaxAssumption
<1> QED
  BY <1>1, <1>2, SeqModAssumption, SizeMaxAssumption, SMTT(20)

\* A multiple of m other than 0 is at least m away from 0.
LEMMA Multiple ==
  ASSUME NEW m \in Nat, m > 0, NEW k \in Int
  PROVE  /\ k * m \in Int
         /\ k >= 1 => k * m >= m
         /\ k <= -1 => k * m <= -m
         /\ k = 0 => k * m = 0
OBVIOUS

\* The remainder is the only number below m that differs from a by a multiple of m.
LEMMA Remainder ==
  ASSUME NEW m \in Nat, m > 0, NEW a \in Int, NEW k \in Int, NEW r \in Int,
         a = k * m + r, 0 <= r, r < m
  PROVE  a % m = r
<1> DEFINE q == a \div m
<1>1. q \in Int /\ a % m \in Int /\ a = (q * m) + (a % m) /\ 0 <= a % m /\ a % m < m
  BY Division, SMTT(20)
<1>2. (k - q) * m = k * m - q * m
  BY <1>1
<1>3. (k - q) * m = (a % m) - r
  BY <1>1, <1>2, Multiple, SMTT(20)
<1>4. k - q = 0
  <2>1. ~(k - q >= 1) /\ ~(k - q <= -1)
    BY <1>1, <1>3, Multiple
  <2> QED
    BY <1>1, <2>1, SMTT(20)
<1>5. (k - q) * m = 0
  BY <1>4, Multiple, SMTT(20)
<1> QED
  BY <1>1, <1>3, <1>5, SMTT(20)

\* The absolute number x has sequence number s.
StandsFor(isn, x, s) == (isn + x) % SeqMod = s

\* x stands for s when it differs from s - isn by a multiple of SeqMod, and only then.
LEMMA StandsForMultiple ==
  ASSUME NEW isn \in WrappingInt32, NEW s \in WrappingInt32, NEW x \in Int
  PROVE  StandsFor(isn, x, s) <=> \E k \in Int : x = ((s - isn) % SeqMod) + k * SeqMod
<1> DEFINE num == (s - isn) % SeqMod
           q == (s - isn) \div SeqMod
<1>1. SeqMod \in Nat /\ SeqMod > 0 /\ isn \in Int /\ s \in Int /\ 0 <= s /\ s < SeqMod
  BY SeqnoConstants DEF WrappingInt32
<1>2. q \in Int /\ num \in Int /\ s - isn = (q * SeqMod) + num
  BY <1>1, Division, SMTT(20)
<1>3. ASSUME StandsFor(isn, x, s)
      PROVE  \E k \in Int : x = num + k * SeqMod
  <2> DEFINE p == (isn + x) \div SeqMod
  <2>1. p \in Int /\ isn + x = (p * SeqMod) + s
    BY <1>1, <1>3, Division DEF StandsFor
  <2>2. (p + q) * SeqMod = p * SeqMod + q * SeqMod
    BY <1>1, <1>2, <2>1, SMTT(20)
  <2>3. p * SeqMod \in Int /\ q * SeqMod \in Int
    BY <1>1, <1>2, <2>1, Multiple, SMTT(20)
  <2>4. x = num + (p + q) * SeqMod
    BY <1>1, <1>2, <2>1, <2>2, <2>3, SMTT(20)
  <2>5. p + q \in Int
    BY <1>2, <2>1, SMTT(20)
  <2> QED
    BY <2>4, <2>5, SMTT(20)
<1>4. ASSUME NEW k \in Int, x = num + k * SeqMod
      PROVE  StandsFor(isn, x, s)
  <2>1. (k - q) * SeqMod = k * SeqMod - q * SeqMod
    BY <1>1, <1>2, SMTT(20)
  <2>2. k * SeqMod \in Int /\ q * SeqMod \in Int
    BY <1>1, <1>2, Multiple, SMTT(20)
  <2>3. isn + x = (k - q) * SeqMod + s
    BY <1>1, <1>2, <1>4, <2>1, <2>2
  <2>4. k - q \in Int /\ isn + x \in Int
    BY <1>1, <1>2, SMTT(20)
  <2> QED
    BY <1>1, <2>3, <2>4, Remainder, SMTT(20) DEF StandsFor
<1> QED
  BY <1>3, <1>4, SMTT(20)

\* unwrap returns a number that stands for s, at most HalfMod from the checkpoint
\* unless it is the smallest that stands for s, and then at or above the checkpoint.
LEMMA UnwrapNear ==
  ASSUME NEW isn \in WrappingInt32, NEW s \in WrappingInt32,
         NEW c \in Nat, c + HalfMod <= SizeMax
  PROVE  LET n == unwrap(s, isn, c)
             num == (s - isn) % SeqMod
         IN  /\ n \in 0 .. SizeMax
             /\ \E k \in Int : n = num + k * SeqMod
             /\ \/ n - c <= HalfMod /\ c - n <= HalfMod
                \/ n = num /\ c <= n
<1> DEFINE num == (s - isn) % SeqMod
           rank == (c - num + HalfMod) \div SeqMod
           r == (c - num + HalfMod) % SeqMod
           n == unwrap(s, isn, c)
<1>1. /\ SeqMod \in Nat /\ SeqMod > 0 /\ isn \in Int /\ s \in Int
      /\ HalfMod \in Nat /\ SeqMod = HalfMod + HalfMod /\ SizeMax \in Nat
      /\ SizeMax + 1 >= SeqMod
  BY SeqnoConstants, SMTT(20) DEF WrappingInt32
<1>2. num \in Int /\ 0 <= num /\ num < SeqMod
  BY <1>1, Division, SMTT(20)
<1>3. CASE c > num
  <2>1. c - num + HalfMod \in Int
    BY <1>1, <1>2, SMTT(20)
  <2>2. /\ rank \in Int /\ r \in Int
        /\ c - num + HalfMod = (rank * SeqMod) + r /\ 0 <= r /\ r < SeqMod
    BY <1>1, <2>1, Division
  <2>3. rank * SeqMod \in Int
    BY <1>1, <2>2, Multiple, SMTT(20)
  <2> DEFINE x == num + rank * SeqMod
  <2>4. x \in Int /\ x - c <= HalfMod /\ c - x <= HalfMod /\ x <= SizeMax
    BY <1>1, <1>2, <2>2, <2>3, SMTT(20)
  <2>5. x >= 0
    <3>1. rank >= 0
      <4>1. ~(rank <= -1)
        BY <1>1, <1>2, <1>3, <2>2, Multiple, SMTT(20)
      <4> QED
        BY <2>2, <4>1, SMTT(20)
    <3>2. rank * SeqMod >= 0
      BY <1>1, <2>2, <3>1, Multiple, SMTT(20)
    <3> QED
      BY <1>2, <2>3, <3>2, SMTT(20)
  <2>6. SizeAdd(c - num, HalfMod) = c - num + HalfMod
    BY <1>1, <1>2, SMTT(20) DEF SizeAdd
  <2>7. x % (SizeMax + 1) = x
    <3>1. x = 0 * (SizeMax + 1) + x
      BY <1>1, <2>4, SMTT(20)
    <3> HIDE DEF x
    <3> QED
      BY <1>1, <2>4, <2>5, <3>1, Remainder, SMTT(20)
  <2>8. n = x
    BY <1>3, <2>6, <2>7, SMTT(20) DEF unwrap
  <2> QED
    BY <1>1, <2>2, <2>4, <2>5, <2>8
<1>4. CASE ~(c > num)
  <2>1. n = num
    BY <1>4, SMTT(20) DEF unwrap
  <2>2. num = num + 0 * SeqMod
    BY <1>1, <1>2, SMTT(20)
  <2> QED
    BY <1>1, <1>2, <1>4, <2>1, <2>2, SMTT(20)
<1> QED
  BY <1>3, <1>4

\* A number less than HalfMod from the checkpoint is recovered from its wrapped form.
LEMMA UnwrapInverts ==
  ASSUME NEW isn \in WrappingInt32, NEW n \in Nat, NEW c \in Nat, c + HalfMod <= SizeMax,
         n - c < HalfMod, c - n < HalfMod
  PROVE  unwrap(wrap(n, isn), isn, c) = n
<1> DEFINE s == wrap(n, isn)
           num == (s - isn) % SeqMod
           u == unwrap(s, isn, c)
<1>1. /\ SeqMod \in Nat /\ SeqMod > 0 /\ HalfMod \in Nat /\ HalfMod > 0
      /\ SeqMod = HalfMod + HalfMod /\ isn \in Int /\ SizeMax \in Nat
  BY SeqnoConstants, SMTT(20) DEF WrappingInt32
<1>2. s \in WrappingInt32
  BY <1>1, Division, SMTT(20) DEF wrap, WrappingInt32
<1>3. s \in Int
  BY <1>1, <1>2, SMTT(20) DEF WrappingInt32
<1>4. num \in Int /\ 0 <= num /\ num < SeqMod
  BY <1>1, <1>3, Division
<1>5. StandsFor(isn, n, s)
  BY <1>1, SMTT(20) DEF StandsFor, wrap
<1> HIDE DEF s
<1>6. PICK j \in Int : n = num + j * SeqMod
  BY <1>2, <1>5, StandsForMultiple
<1>7. /\ u \in 0 .. SizeMax
      /\ \E k \in Int : u = num + k * SeqMod
      /\ \/ u - c <= HalfMod /\ c - u <= HalfMod
         \/ u = num /\ c <= u
  BY <1>2, UnwrapNear, SMTT(20)
<1> HIDE DEF u, num
<1>8. PICK k \in Int : u = num + k * SeqMod
  BY <1>7, SMTT(20)
<1>9. (j - k) * SeqMod = j * SeqMod - k * SeqMod
  BY <1>1, SMTT(20)
<1>10. j * SeqMod \in Int /\ k * SeqMod \in Int
  BY <1>1, Multiple, SMTT(20)
<1>11. (j - k) * SeqMod = n - u
  BY <1>1, <1>4, <1>6, <1>8, <1>9, <1>10, SMTT(20)
<1>12. j - k = 0
  <2>1. ~(j - k >= 1)
    BY <1>1, <1>7, <1>11, Multiple, SMTT(20)
  <2>2. ~(j - k <= -1)
    <3>1. CASE u - c <= HalfMod /\ c - u <= HalfMod
      BY <1>1, <1>7, <1>11, <3>1, Multiple, SMTT(20)
    <3>2. CASE u = num
      BY <1>1, <1>4, <1>11, <3>2, Multiple, SMTT(20)
    <3> QED
      BY <1>7, <3>1, <3>2, SMTT(20)
  <2> QED
    BY <2>1, <2>2, SMTT(20)
<1>13. (j - k) * SeqMod = 0
  BY <1>1, <1>12, Multiple, SMTT(20)
<1>14. u = n
  BY <1>1, <1>7, <1>11, <1>13, SMTT(20)
<1> QED
  BY <1>14, SMTT(20) DEF u, s

VARIABLES
    isn,           \* those of SeqnoSystem
    actual,
    checkpoint

Seqno == INSTANCE SeqnoSystem

\* wrap and unwrap are those of the sender.
LEMMA SeqnoOperators ==
  ASSUME NEW s, NEW n, NEW c
  PROVE  /\ Seqno!unwrap(s, isn, c) = unwrap(s, isn, c)
         /\ Seqno!wrap(n, isn) = wrap(n, isn)
         /\ Seqno!HalfMod = HalfMod /\ Seqno!WrappingInt32 = WrappingInt32
BY SMTT(20) DEF Seqno!unwrap, unwrap, Seqno!wrap, wrap, Seqno!SizeAdd, SizeAdd, Seqno!HalfMod,
   HalfMod,
       Seqno!WrappingInt32, WrappingInt32

\* The inductive invariant: Tracks, and that the numbers stay half the sequence
\* space below the end of the 64-bit ones, where the sum in unwrap would overflow.
SeqInv ==
    /\ isn \in WrappingInt32
    /\ actual \in Nat /\ actual + HalfMod <= SizeMax
    /\ Seqno!Tracks

\* A step of the number by less than HalfMod keeps the invariant.
LEMMA SeqStep ==
  ASSUME SeqInv, [Seqno!Next]_(Seqno!vars)
  PROVE  SeqInv'
<1>1. CASE UNCHANGED Seqno!vars
  BY <1>1, SMTT(20) DEF SeqInv, Seqno!Tracks, Seqno!vars
<1>2. ASSUME NEW n \in 0 .. SizeMax, Seqno!Transmit(n)
      PROVE  SeqInv'
  <2>1. SizeMax \in Nat /\ HalfMod \in Nat
    BY SeqnoConstants, SMTT(20)
  <2>2. /\ n - actual < HalfMod /\ actual - n < HalfMod /\ n + HalfMod <= SizeMax
        /\ actual' = n /\ isn' = isn
        /\ checkpoint' = unwrap(wrap(n, isn), isn, checkpoint)
    BY <1>2, SeqnoOperators DEF Seqno!Transmit
  <2>3. unwrap(wrap(n, isn), isn, checkpoint) = n
    BY <2>1, <2>2, UnwrapInverts, SMTT(20) DEF SeqInv, Seqno!Tracks
  <2> QED
    BY <2>1, <2>2, <2>3, SMTT(20) DEF SeqInv, Seqno!Tracks
<1> QED
  BY <1>1, <1>2, SMTT(20) DEF Seqno!Next

\* No number that s stands for is nearer to the checkpoint than what unwrap returns.
LEMMA UnwrapClosest ==
  ASSUME SeqInv
  PROVE  Seqno!Closest
<1>1. /\ SeqMod \in Nat /\ SeqMod > 0 /\ HalfMod \in Nat /\ HalfMod > 0
      /\ SeqMod = HalfMod + HalfMod /\ isn \in Int /\ SizeMax \in Nat
      /\ checkpoint \in Nat /\ checkpoint + HalfMod <= SizeMax
      /\ isn \in WrappingInt32
  BY SeqnoConstants, SMTT(20) DEF SeqInv, Seqno!Tracks, WrappingInt32
<1>2. ASSUME NEW s \in WrappingInt32
      PROVE  LET n == unwrap(s, isn, checkpoint)
                 Distance(x) == MaxOf(x - checkpoint, checkpoint - x)
             IN  /\ n \in 0 .. SizeMax /\ StandsFor(isn, n, s)
                 /\ \A x \in 0 .. SizeMax : StandsFor(isn, x, s) => Distance(n) <= Distance(x)
  <2> DEFINE num == (s - isn) % SeqMod
             n == unwrap(s, isn, checkpoint)
  <2>1. num \in Int /\ 0 <= num /\ num < SeqMod
    BY <1>1, Division, SMTT(20) DEF WrappingInt32
  <2>2. /\ n \in 0 .. SizeMax
        /\ \E k \in Int : n = num + k * SeqMod
        /\ \/ n - checkpoint <= HalfMod /\ checkpoint - n <= HalfMod
           \/ n = num /\ checkpoint <= n
    BY <1>1, UnwrapNear, Zenon
  <2>3. StandsFor(isn, n, s)
    <3>1. n \in Int
      BY <1>1, <2>2, SMTT(20)
    <3> HIDE DEF n
    <3> QED
      BY <1>1, <2>2, <3>1, StandsForMultiple, Zenon
  <2>4. PICK k \in Int : n = num + k * SeqMod
    BY <2>2, SMTT(20)
  <2>5. ASSUME NEW x \in 0 .. SizeMax, StandsFor(isn, x, s)
        PROVE  MaxOf(n - checkpoint, checkpoint - n) <= MaxOf(x - checkpoint, checkpoint - x)
    <3>1. x \in Int /\ x >= 0
      BY <1>1, SMTT(20)
    <3>2. PICK j \in Int : x = num + j * SeqMod
      BY <1>1, <2>5, <3>1, StandsForMultiple, Zenon
    <3> HIDE DEF n, num
    <3>3. (j - k) * SeqMod = j * SeqMod - k * SeqMod
      BY <1>1, SMTT(20)
    <3>4. j * SeqMod \in Int /\ k * SeqMod \in Int
      BY <1>1, Multiple
    <3>5. (j - k) * SeqMod = x - n
      BY <1>1, <2>1, <2>4, <3>2, <3>3, <3>4, SMTT(20)
    <3>6. x = n \/ x - n >= SeqMod \/ n - x >= SeqMod
      <4>1. j - k = 0 \/ j - k >= 1 \/ j - k <= -1
        BY SMTT(20)
      <4> QED
        BY <1>1, <2>2, <3>1, <3>5, <4>1, Multiple, SMTT(20)
    <3>7. CASE n - checkpoint <= HalfMod /\ checkpoint - n <= HalfMod
      BY <1>1, <2>2, <3>1, <3>6, <3>7, SMTT(20) DEF MaxOf
    <3>8. CASE n = num /\ checkpoint <= n
      BY <1>1, <2>1, <2>2, <3>1, <3>6, <3>8, SMTT(20) DEF MaxOf
    <3> QED
      BY <2>2, <3>7, <3>8, SMTT(20)
  <2> QED
    BY <2>2, <2>3, <2>5, SMTT(20)
<1> QED
  BY <1>2, SeqnoOperators, SMTT(20) DEF Seqno!Closest, StandsFor, Seqno!MaxOf, MaxOf

\* The absolute number is recovered at every step, however often the sequence numbers
\* wrap around: unwrap inverts wrap as long as one number is less than half the sequence
\* space from the last one and 64-bit sums do not overflow.
THEOREM AlwaysTracks == Seqno!Spec => []Seqno!Tracks
<1>1. Seqno!Init => SeqInv
  BY SeqnoConstants, SMTT(20) DEF Seqno!Init, SeqInv, Seqno!Tracks, Seqno!WrappingInt32,
     WrappingInt32
<1>2. SeqInv /\ [Seqno!Next]_(Seqno!vars) => SeqInv'
  BY SeqStep
<1>3. SeqInv => Seqno!Tracks
  BY SMTT(20) DEF SeqInv
<1> QED
  BY <1>1, <1>2, <1>3, PTL DEF Seqno!Spec

\* What unwrap documents ("the 64-bit sequence number that wraps to `n` and is closest
\* to `checkpoint`") holds at every checkpoint a connection reaches, for every seqno.
THEOREM AlwaysClosest == Seqno!Spec => []Seqno!Closest
<1>1. Seqno!Init => SeqInv
  BY SeqnoConstants DEF Seqno!Init, SeqInv, Seqno!Tracks, Seqno!WrappingInt32, WrappingInt32
<1>2. SeqInv /\ [Seqno!Next]_(Seqno!vars) => SeqInv'
  BY SeqStep
<1>3. SeqInv => Seqno!Closest
  BY UnwrapClosest
<1> QED
  BY <1>1, <1>2, <1>3, PTL DEF Seqno!Spec
===============================================================================
