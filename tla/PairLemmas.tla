------------------------------ MODULE PairLemmas ------------------------------
(***************************************************************************)
(* The lemmas about a pair of connections and its network: each step of    *)
(* TCPPair is a call on a connection, the network apart, which keeps,      *)
(* loses or repeats segments but makes none. Then what the applications    *)
(* see. Contract stands for what the pair relies on in its connections.    *)
(***************************************************************************)
EXTENDS TCPPair, ConnectionFlow, TLAPS

\* The flow from e to its peer
FlowFrom(e) ==
    [byte |-> Byte, stream |-> Stream[e], capacity |-> RecvCapacity, assembled |-> 0,
     error |-> FALSE, isn |-> Isn[e], rto |-> RtTimeout, windows |-> Nat]

\* Both streams are flows between a sender and its receiver.
LEMMA Flows ==
  ASSUME NEW e \in Ends
  PROVE  IsOutgoing(FlowFrom(e))
<1> DEFINE f == FlowFrom(e)
<1>1. /\ f.byte = Byte /\ f.stream = Stream[e] /\ f.capacity = RecvCapacity /\ f.assembled = 0
      /\ f.isn = Isn[e] /\ f.rto = RtTimeout /\ f.windows = Nat
  BY DEF FlowFrom
<1> HIDE DEF f
<1>2. /\ Stream[e] \in Seq(Byte) /\ RecvCapacity \in Nat \ {0} /\ Isn[e] \in WrappingInt32
      /\ 4 * (Len(Stream[e]) + 2 + RecvCapacity) < SeqMod /\ 2 * SeqMod <= SizeMax
  BY PairAssumption
<1>3. Len(Stream[e]) \in Nat /\ RtTimeout \in Nat
  BY <1>2, ConnectionAssumption, SMTT(20)
<1>4. /\ 2 * (Len(Stream[e]) + 2) < SeqMod /\ Len(Stream[e]) + RecvCapacity < SizeMax
  BY <1>2, <1>3, SeqModAssumption, SizeMaxAssumption
<1> QED
  BY <1>1, <1>2, <1>3, <1>4, SMTT(20) DEF f, IsOutgoing, IsFlow

-------------------------------------------------------------------------------
(***************************************************************************)
(* The two connections and the network                                     *)
(***************************************************************************)
\* One of the ends has given up retransmitting.
GaveUp == \E e \in Ends : Dead(conn[e])

\* The inductive invariant: both connections and all segments on their way are as they
\* should be, and nothing is in error or resets a connection before an end has given up.
PairInv ==
    /\ conn = [e \in Ends |-> conn[e]] /\ net = [e \in Ends |-> net[e]]
    /\ \A e \in Ends : Both(FlowFrom(e), FlowFrom(Peer(e)), conn[e], conn[Peer(e)])
    /\ \A e \in Ends : \A seg \in net[e] :
         /\ SegOK(FlowFrom(e), FlowFrom(Peer(e)), conn[Peer(e)], seg)
         /\ seg.rst = TRUE => GaveUp
    /\ \A e \in Ends : stream_out(conn[e].receiver).error = TRUE => GaveUp

\* A step: end e is called, the network is given what this queues, and may lose
\* segments.
Steps(e, d, b) ==
    /\ CallOK(FlowFrom(e), FlowFrom(Peer(e)), conn[e], conn[Peer(e)], d, b)
    /\ b = TRUE => GaveUp
    /\ Leaves(d, conn'[e]) /\ conn'[Peer(e)] = conn[Peer(e)]
    /\ conn' = [k \in Ends |-> conn'[k]] /\ net' = [k \in Ends |-> net'[k]]
    /\ net'[e] \subseteq net[e]
    /\ net'[Peer(e)] \subseteq net[Peer(e)] \cup Elements(d.segments_out)

\* The ends are each other's peers.
LEMMA Peers ==
  ASSUME NEW e \in Ends
  PROVE  /\ Peer(e) \in Ends /\ Peer(Peer(e)) = e /\ Peer(e) # e
         /\ \A k \in Ends : k = e \/ k = Peer(e)
BY DEF Ends, Peer

\* Such a step preserves the invariant.
LEMMA StepKeeps ==
  ASSUME Contract, PairInv, NEW e \in Ends, NEW d, NEW b, Steps(e, d, b)
  PROVE  PairInv'
<1> DEFINE q == Peer(e)
           f == FlowFrom(e)
           g == FlowFrom(q)
           c == conn[e]
           p == conn[q]
           u == conn'[e]
<1>1. q \in Ends /\ Peer(q) = e /\ (\A k \in Ends : k = e \/ k = q)
  BY Peers, Zenon
<1>2. Both(f, g, c, p) /\ CallOK(f, g, c, p, d, b) /\ Leaves(d, u) /\ conn'[q] = p
  BY Zenon DEF PairInv, Steps
<1>3. Both(f, g, u, p) /\ Both(g, f, p, u)
  <2>1. Both(f, g, u, p)
    BY <1>2, Zenon DEF Contract, KeepRule
  <2> QED
    BY <2>1, Zenon DEF Both
<1>4. GaveUp => GaveUp'
  <2>1. Dead(c) => Dead(u)
    <3>1. Dead(c) => Dead(d)
      BY <1>2, Zenon DEF CallOK
    <3>2. d.active = u.active /\ d.sender = u.sender
      BY <1>2 DEF Leaves, IsNode
    <3> QED
      BY <3>1, <3>2, Zenon DEF Dead
  <2> QED
    BY <1>1, <1>2, <2>1, Zenon DEF GaveUp
<1>5. ASSUME NEW k \in Ends
      PROVE  Both(FlowFrom(k), FlowFrom(Peer(k)), conn'[k], conn'[Peer(k)])
  BY <1>1, <1>2, <1>3, Zenon
<1>6. ASSUME NEW seg \in net'[e]
      PROVE  SegOK(f, g, p, seg) /\ (seg.rst = TRUE => GaveUp')
  BY <1>4, Zenon DEF Steps, PairInv
<1>7. ASSUME NEW seg \in net'[q]
      PROVE  SegOK(g, f, u, seg) /\ (seg.rst = TRUE => GaveUp')
  <2>1. CASE seg \in net[q]
    <3>1. SegOK(g, f, c, seg) /\ (seg.rst = TRUE => GaveUp)
      BY <1>1, <2>1, Zenon DEF PairInv
    <3> QED
      BY <1>2, <1>4, <3>1, Zenon DEF Contract, KeepSegmentRule
  <2>2. CASE seg \in Elements(d.segments_out)
    <3>1. PICK j \in 1 .. Len(d.segments_out) : seg = d.segments_out[j]
      BY <2>2, Zenon DEF Elements
    <3>2. SegOK(g, f, u, seg) /\ (seg.rst = TRUE => Dead(u))
      <4>1. Departs(f, g, d.segments_out, u)
        BY <1>2, Zenon DEF Contract, QueuedRule
      <4> QED
        BY <3>1, <4>1, Zenon DEF Departs
    <3> QED
      BY <3>2, Zenon DEF GaveUp
  <2> QED
    BY <1>7, <2>1, <2>2, Zenon DEF Steps
<1>8. ASSUME NEW k \in Ends, NEW seg \in net'[k]
      PROVE  /\ SegOK(FlowFrom(k), FlowFrom(Peer(k)), conn'[Peer(k)], seg)
             /\ seg.rst = TRUE => GaveUp'
  BY <1>1, <1>2, <1>6, <1>7, <1>8, Zenon
<1>9. ASSUME NEW k \in Ends, stream_out(conn'[k].receiver).error = TRUE
      PROVE  GaveUp'
  <2>1. CASE k = q
    BY <1>1, <1>2, <1>4, <1>9, <2>1, Zenon DEF PairInv
  <2>2. CASE k = e
    <3>1. d.active = u.active /\ d.sender = u.sender /\ d.receiver = u.receiver
      BY <1>2, SMTT(20) DEF Leaves, IsNode
    <3>2. stream_out(c.receiver).error = TRUE \/ b = TRUE \/ Dead(u)
      BY <1>2, <1>9, <2>2, <3>1, Zenon DEF CallOK, Dead
    <3> QED
      BY <1>4, <3>2, Zenon DEF PairInv, Steps, GaveUp
  <2> QED
    BY <1>1, <2>1, <2>2, Zenon
<1> QED
  BY <1>5, <1>8, <1>9, Zenon DEF PairInv, Steps

\* The invariant holds initially.
LEMMA InitKeeps ==
  ASSUME Contract, Init
  PROVE  PairInv
<1>1. ASSUME NEW e \in Ends
      PROVE  IsNode(conn[e], new_TCPReceiver(RecvCapacity),
                    new_TCPSender(SendCapacity, RtTimeout, Isn[e]), << >>, TRUE, 0, TRUE)
  BY <1>1 DEF Init, new_TCPConnection, IsNode
<1>2. ASSUME NEW e \in Ends
      PROVE  /\ IsOutgoing(FlowFrom(e)) /\ FlowFrom(e).capacity = RecvCapacity
             /\ FlowFrom(e).rto = RtTimeout /\ FlowFrom(e).isn = Isn[e]
  <2>1. FlowFrom(e).capacity = RecvCapacity /\ FlowFrom(e).rto = RtTimeout
        /\ FlowFrom(e).isn = Isn[e]
    BY DEF FlowFrom
  <2> QED
    BY <1>2, <2>1, Flows, Zenon
<1>3. SendCapacity \in Nat
  BY PairAssumption, SMTT(20)
<1>8. ASSUME NEW e \in Ends
      PROVE  NewNode(FlowFrom(e), FlowFrom(Peer(e)), SendCapacity, conn[e])
  <2>1. Peer(e) \in Ends
    BY <1>8, Peers, Zenon
  <2> QED
    BY <1>1, <1>2, <1>8, <2>1, Zenon DEF NewNode
<1>4. ASSUME NEW e \in Ends
      PROVE  /\ SideOK(FlowFrom(e), FlowFrom(Peer(e)), conn[e], conn[Peer(e)])
             /\ stream_out(conn[e].receiver).error = FALSE
  <2>1. Peer(e) \in Ends /\ Peer(Peer(e)) = e
    BY <1>4, Peers, Zenon
  <2>2. /\ NewNode(FlowFrom(e), FlowFrom(Peer(e)), SendCapacity, conn[e])
        /\ NewNode(FlowFrom(Peer(e)), FlowFrom(e), SendCapacity, conn[Peer(e)])
        /\ IsOutgoing(FlowFrom(e)) /\ IsOutgoing(FlowFrom(Peer(e)))
    BY <1>2, <1>4, <1>8, <2>1, Zenon
  <2> QED
    BY <1>3, <2>2, Zenon DEF Contract, NewSideRule
<1>5. ASSUME NEW e \in Ends
      PROVE  Both(FlowFrom(e), FlowFrom(Peer(e)), conn[e], conn[Peer(e)])
  <2>1. Peer(e) \in Ends /\ Peer(Peer(e)) = e
    BY <1>5, Peers, Zenon
  <2> QED
    BY <1>2, <1>4, <1>5, <2>1, Zenon DEF Both
<1>6. \A e \in Ends : net[e] = {}
  BY DEF Init
<1>7. conn = [e \in Ends |-> conn[e]] /\ net = [e \in Ends |-> net[e]]
  BY DEF Init
<1>9. ASSUME NEW e \in Ends, NEW seg \in net[e] PROVE FALSE
  BY <1>6, <1>9
<1>10. FALSE # TRUE
  OBVIOUS
<1>11. \A e \in Ends : \A seg \in net[e] :
          /\ SegOK(FlowFrom(e), FlowFrom(Peer(e)), conn[Peer(e)], seg)
          /\ seg.rst = TRUE => GaveUp
  BY <1>9, Zenon
<1>12. \A e \in Ends : stream_out(conn[e].receiver).error = TRUE => GaveUp
  BY <1>4, <1>10, Zenon
<1> QED
  BY <1>5, <1>7, <1>11, <1>12, Zenon DEF PairInv

\* What the application at e sees of the step: nothing, what it has written, or the end
\* of that
Does(e, d) ==
    LET f == FlowFrom(e)
        g == FlowFrom(Peer(e))
        c == conn[e]
        p == conn[Peer(e)]
    IN  \/ SameInput(c.sender, d.sender)
        \/ c.sender.stream.input_end = FALSE /\ Extended(f, g, c, p, d, FALSE)
        \/ Extended(f, g, c, p, d, TRUE)

\* A function on the ends that is changed at one of them
LEMMA Changed ==
  ASSUME NEW F, F = [k \in Ends |-> F[k]], NEW e \in Ends, NEW x
  PROVE  LET G == [F EXCEPT ![e] = x]
         IN  /\ G[e] = x /\ G = [k \in Ends |-> G[k]]
             /\ \A k \in Ends : k # e => G[k] = F[k]
OBVIOUS

\* The segments of a connection are taken.
LEMMA Emptied ==
  ASSUME NEW c, NEW rx, NEW tx, NEW out, NEW l, NEW tm, NEW a, IsNode(c, rx, tx, out, l, tm, a)
  PROVE  IsNode([c EXCEPT !.segments_out = << >>], rx, tx, << >>, l, tm, a)
BY DEF IsNode

\* The owner calls the connection at e and hands its segments to the network.
LEMMA CalledSteps ==
  ASSUME PairInv, NEW e \in Ends, NEW d, NEW b, b = TRUE => GaveUp,
         CallOK(FlowFrom(e), FlowFrom(Peer(e)), conn[e], conn[Peer(e)], d, b),
         NEW others, others \subseteq net[e], Called(e, d, others)
  PROVE  Steps(e, d, b)
<1>1. Peer(e) \in Ends /\ Peer(e) # e
  BY Peers, Zenon
<1>2. /\ conn = [k \in Ends |-> conn[k]] /\ net = [k \in Ends |-> net[k]]
  BY Zenon DEF PairInv
<1>3. PICK u : u = [d EXCEPT !.segments_out = << >>]
  BY Zenon
<1>4. Leaves(d, u)
  BY <1>3, Emptied, Zenon DEF Leaves, CallOK
<1>5. conn' = [conn EXCEPT ![e] = u]
  BY <1>3, Zenon DEF Called
<1>6. conn'[e] = u /\ conn'[Peer(e)] = conn[Peer(e)] /\ conn' = [k \in Ends |-> conn'[k]]
  BY <1>1, <1>2, <1>5, SMTT(20)
<1>9. PICK w : w = [net EXCEPT ![e] = others]
  BY Zenon
<1>10. w[e] = others /\ w[Peer(e)] = net[Peer(e)] /\ w = [k \in Ends |-> w[k]]
  BY <1>1, <1>2, <1>9, Changed, Zenon
<1>7. net' = [w EXCEPT ![Peer(e)] = w[Peer(e)] \cup Elements(d.segments_out)]
  BY <1>9, <1>10, Zenon DEF Called
<1>8. /\ net'[e] = others /\ net'[Peer(e)] = net[Peer(e)] \cup Elements(d.segments_out)
      /\ net' = [k \in Ends |-> net'[k]]
  BY <1>1, <1>7, <1>10, Changed, Zenon
<1> QED
  BY <1>4, <1>6, <1>8, Zenon DEF Steps

\* A call by the owner: CallOK, for the end that is called
OwnerCall(e, d, b) ==
    /\ CallOK(FlowFrom(e), FlowFrom(Peer(e)), conn[e], conn[Peer(e)], d, b)
    /\ b = TRUE => GaveUp
    /\ Does(e, d)

\* What PairInv says about the end e.
LEMMA EndFacts ==
  ASSUME Contract, PairInv, NEW e \in Ends
  PROVE  /\ Both(FlowFrom(e), FlowFrom(Peer(e)), conn[e], conn[Peer(e)])
         /\ conn[e].active \in BOOLEAN /\ conn[e].sender.stream.input_end \in BOOLEAN
         /\ conn[e].sender.stream.written \in Nat
<1>1. Both(FlowFrom(e), FlowFrom(Peer(e)), conn[e], conn[Peer(e)])
  BY Zenon DEF PairInv
<1>2. Stands(FlowFrom(e), conn[e].sender) /\ conn[e].active \in BOOLEAN /\ IsOutgoing(FlowFrom(e))
  BY <1>1, Zenon DEF Both, SideOK
<1> QED
  BY <1>1, <1>2, Zenon DEF Stood, Contract, StandingRule

\* connect
LEMMA ConnectCall ==
  ASSUME Contract, PairInv, NEW e \in Ends
  PROVE  OwnerCall(e, connect(conn[e]), FALSE)
<1>1. FALSE # TRUE
  OBVIOUS
<1> QED
  BY <1>1, EndFacts, Zenon DEF OwnerCall, Does, Contract, ConnectRule

\* write
LEMMA WriteCall ==
  ASSUME Contract, PairInv, NEW e \in Ends, NEW n \in Nat, conn[e].active,
         ~conn[e].sender.stream.input_end,
         conn[e].sender.stream.written + n <= Len(Stream[e])
  PROVE  OwnerCall(e, connection_write(conn[e], Slice(e, conn[e].sender.stream.written, n)), FALSE)
<1>1. FALSE # TRUE
  OBVIOUS
<1>2. Both(FlowFrom(e), FlowFrom(Peer(e)), conn[e], conn[Peer(e)])
  BY EndFacts, Zenon
<1>3. conn[e].active = TRUE /\ conn[e].sender.stream.input_end = FALSE
  <2>1. conn[e].active \in BOOLEAN /\ conn[e].sender.stream.input_end \in BOOLEAN
    BY EndFacts, Zenon
  <2> QED
    BY <2>1, SMTT(20)
<1>4. FlowFrom(e).stream = Stream[e]
  BY DEF FlowFrom
<1>5. Slice(e, conn[e].sender.stream.written, n) = Bytes(FlowFrom(e), conn[e].sender.stream.written, n)
  BY <1>4, Zenon DEF Slice, Bytes
<1>6. Extended(FlowFrom(e), FlowFrom(Peer(e)), conn[e], conn[Peer(e)],
               connection_write(conn[e], Slice(e, conn[e].sender.stream.written, n)), FALSE)
  BY <1>2, <1>3, <1>4, <1>5, Zenon DEF Contract, ConnectionWriteRule
<1> QED
  BY <1>1, <1>3, <1>6, Zenon DEF OwnerCall, Does, Extended

\* end_input_stream
LEMMA EndCall ==
  ASSUME Contract, PairInv, NEW e \in Ends, conn[e].active, ~conn[e].sender.stream.input_end,
         conn[e].sender.stream.written = Len(Stream[e])
  PROVE  OwnerCall(e, end_input_stream(conn[e]), FALSE)
<1>1. FALSE # TRUE
  OBVIOUS
<1>2. Both(FlowFrom(e), FlowFrom(Peer(e)), conn[e], conn[Peer(e)])
  BY EndFacts, Zenon
<1>3. conn[e].active = TRUE /\ conn[e].sender.stream.input_end = FALSE
  <2>1. conn[e].active \in BOOLEAN /\ conn[e].sender.stream.input_end \in BOOLEAN
    BY EndFacts, Zenon
  <2> QED
    BY <2>1, SMTT(20)
<1>4. FlowFrom(e).stream = Stream[e]
  BY DEF FlowFrom
<1>5. Extended(FlowFrom(e), FlowFrom(Peer(e)), conn[e], conn[Peer(e)], end_input_stream(conn[e]), TRUE)
  BY <1>2, <1>3, <1>4, Zenon DEF Contract, EndInputRule
<1> QED
  BY <1>1, <1>3, <1>5, Zenon DEF OwnerCall, Does, Extended

\* tick
LEMMA TickCall ==
  ASSUME Contract, PairInv, NEW e \in Ends, NEW ms \in Nat
  PROVE  OwnerCall(e, tick(conn[e], ms), FALSE)
<1>1. FALSE # TRUE
  BY SMTT(20)
<1> QED
  BY <1>1, EndFacts, Zenon DEF OwnerCall, Does, Contract, ConnectionTickRule

\* segment_received, for a segment the network has
LEMMA SegmentCall ==
  ASSUME Contract, PairInv, NEW e \in Ends, NEW seg \in net[e]
  PROVE  OwnerCall(e, segment_received(conn[e], seg), seg.rst)
<1>1. FlowFrom(e).windows = Nat
  BY DEF FlowFrom
<1>2. /\ SegOK(FlowFrom(e), FlowFrom(Peer(e)), conn[Peer(e)], seg)
      /\ seg.rst = TRUE => GaveUp
  BY Zenon DEF PairInv
<1> QED
  BY <1>1, <1>2, EndFacts, Zenon DEF OwnerCall, Does, Answers, Contract, SegmentRule

\* The network loses a segment: nothing is called.
LEMMA NoCall ==
  ASSUME Contract, PairInv, NEW e \in Ends
  PROVE  OwnerCall(e, conn[e], FALSE) /\ conn[e].segments_out = << >> /\ Leaves(conn[e], conn[e])
<1>1. FALSE # TRUE
  OBVIOUS
<1> DEFINE c == conn[e]
<1>2. Both(FlowFrom(e), FlowFrom(Peer(e)), c, conn[Peer(e)])
  BY EndFacts, Zenon
<1> HIDE DEF c
<1>3. /\ IsNode(c, c.receiver, c.sender, << >>, c.linger, c.time_since_last_segment, c.active)
  BY <1>2, Zenon DEF Both, SideOK
<1>4. CallOK(FlowFrom(e), FlowFrom(Peer(e)), c, conn[Peer(e)], c, FALSE)
  BY <1>2, Zenon DEF Contract, IdleRule
<1>5. c.segments_out = << >>
  BY <1>3, SMTT(20) DEF IsNode
<1> QED
  BY <1>1, <1>3, <1>4, <1>5, Zenon DEF OwnerCall, Does, Leaves, SameInput, c

\* The application reads.
LEMMA ReadCall ==
  ASSUME Contract, PairInv, NEW e \in Ends, NEW n \in 1 .. buffer_size(stream_out(conn[e].receiver))
  PROVE  LET d == [conn[e] EXCEPT !.receiver.reassembler.output = pop_output(@, n)]
         IN  OwnerCall(e, d, FALSE) /\ d.segments_out = << >> /\ Leaves(d, d)
<1>1. FALSE # TRUE
  BY SMTT(20)
<1>2. PICK d : d = [conn[e] EXCEPT !.receiver.reassembler.output = pop_output(@, n)]
  BY Zenon
<1>5. Both(FlowFrom(e), FlowFrom(Peer(e)), conn[e], conn[Peer(e)])
  BY EndFacts, Zenon
<1>6. Quietly(FlowFrom(e), FlowFrom(Peer(e)), conn[e], conn[Peer(e)], d)
  BY <1>2, <1>5, Zenon DEF Contract, ConnectionReadRule
<1>3. /\ CallOK(FlowFrom(e), FlowFrom(Peer(e)), conn[e], conn[Peer(e)], d, FALSE)
      /\ SameInput(conn[e].sender, d.sender) /\ d.segments_out = << >>
  BY <1>6, Zenon DEF Quietly
<1>4. Leaves(d, d)
  BY <1>3, Zenon DEF Leaves, CallOK
<1> QED
  BY <1>1, <1>2, <1>3, <1>4, Zenon DEF OwnerCall, Does

\* A step of the pair: one end is called, or the network loses a segment on its way to it.
Stepping == \E e \in Ends : \E d : \E b : Steps(e, d, b) /\ Does(e, d)

\* The call of the owner at e is a step.
LEMMA OwnerSteps ==
  ASSUME PairInv, NEW e \in Ends, NEW d, NEW b, OwnerCall(e, d, b),
         NEW others, others \subseteq net[e], Called(e, d, others)
  PROVE  Stepping
BY CalledSteps, Zenon DEF OwnerCall, Stepping

\* A step that puts no segment into the network
LEMMA QuietSteps ==
  ASSUME PairInv, NEW e \in Ends, NEW d, OwnerCall(e, d, FALSE), d.segments_out = << >>,
         Leaves(d, d), conn' = [conn EXCEPT ![e] = d],
         NEW others, others \subseteq net[e], net' = [net EXCEPT ![e] = others]
  PROVE  Stepping
<1>1. Peer(e) \in Ends /\ Peer(e) # e
  BY Peers, Zenon
<1>2. conn = [k \in Ends |-> conn[k]] /\ net = [k \in Ends |-> net[k]]
  BY Zenon DEF PairInv
<1>3. conn'[e] = d /\ conn'[Peer(e)] = conn[Peer(e)] /\ conn' = [k \in Ends |-> conn'[k]]
  BY <1>1, <1>2, Changed, Zenon
<1>4. net'[e] = others /\ net'[Peer(e)] = net[Peer(e)] /\ net' = [k \in Ends |-> net'[k]]
  BY <1>1, <1>2, Changed, Zenon
<1>5. net'[Peer(e)] \subseteq net[Peer(e)] \cup Elements(d.segments_out)
  BY <1>4, Zenon
<1> QED
  BY <1>3, <1>4, <1>5, Zenon DEF OwnerCall, Steps, Stepping

\* Every step of the model is one.
LEMMA NextSteps ==
  ASSUME Contract, PairInv, Next
  PROVE  Stepping
<1>1. ASSUME NEW e \in Ends, NEW n \in 1 .. SendCapacity, Write(e, n)
      PROVE  Stepping
  <2>1. n \in Nat
    BY <1>1, PairAssumption
  <2>2. OwnerCall(e, connection_write(conn[e], Slice(e, conn[e].sender.stream.written, n)), FALSE)
    BY <1>1, <2>1, WriteCall, Zenon DEF Write, Opened
  <2> QED
    BY <1>1, <2>2, OwnerSteps, Zenon DEF Write
<1>2. ASSUME NEW e \in Ends, EndInput(e)
      PROVE  Stepping
  BY <1>2, EndCall, OwnerSteps, Zenon DEF EndInput
<1>3. ASSUME NEW e \in Ends, NEW n \in 1 .. RecvCapacity, Read(e, n)
      PROVE  Stepping
  <2>1. PICK d : d = [conn[e] EXCEPT !.receiver.reassembler.output = pop_output(@, n)]
    BY Zenon
  <2>2. n \in 1 .. buffer_size(stream_out(conn[e].receiver))
    BY <1>3, Zenon DEF Read
  <2>3. OwnerCall(e, d, FALSE) /\ d.segments_out = << >> /\ Leaves(d, d)
    BY <1>3, <2>1, <2>2, ReadCall, Zenon
  <2>4. conn' = [conn EXCEPT ![e] = d]
    BY <1>3, <2>1, Zenon DEF Read
  <2>5. net' = [net EXCEPT ![e] = net[e]]
    <3>1. net' = net /\ net = [k \in Ends |-> net[k]]
      BY <1>3, Zenon DEF Read, PairInv
    <3> QED
      BY <1>3, <3>1
  <2> QED
    BY <1>3, <2>3, <2>4, <2>5, QuietSteps, Zenon
<1>4. ASSUME NEW e \in Ends, Tick(e, 1)
      PROVE  Stepping
  <2>1. 1 \in Nat
    OBVIOUS
  <2> QED
    BY <1>4, <2>1, TickCall, OwnerSteps, Zenon DEF Tick
<1>5. ASSUME NEW e \in Ends, NEW seg \in net[e], Lose(e, seg)
      PROVE  Stepping
  <2>1. conn' = [conn EXCEPT ![e] = conn[e]]
    <3>1. conn' = conn /\ conn = [k \in Ends |-> conn[k]]
      BY <1>5, Zenon DEF Lose, PairInv
    <3> QED
      BY <1>5, <3>1, SMTT(20)
  <2>2. net' = [net EXCEPT ![e] = net[e] \ {seg}]
    BY <1>5, Zenon DEF Lose
  <2> QED
    BY <1>5, <2>1, <2>2, NoCall, QuietSteps, Zenon
<1>6. ASSUME NEW e \in Ends, NEW seg \in net[e], Deliver(e, seg)
      PROVE  Stepping
  BY <1>6, SegmentCall, OwnerSteps, Zenon DEF Deliver
<1>7. ASSUME NEW e \in Ends, NEW seg \in net[e], DeliverCopy(e, seg)
      PROVE  Stepping
  BY <1>7, SegmentCall, OwnerSteps, Zenon DEF DeliverCopy
<1>8. ASSUME Connect
      PROVE  Stepping
  <2>1. "client" \in Ends
    BY SMTT(20) DEF Ends
  <2> QED
    BY <1>8, <2>1, ConnectCall, OwnerSteps, Zenon DEF Connect
<1> QED
  BY <1>1, <1>2, <1>3, <1>4, <1>5, <1>6, <1>7, <1>8, Zenon DEF Next

\* A step of the pair, or none, keeps the invariant.
LEMMA NextKeeps ==
  ASSUME Contract, PairInv, [Next]_vars
  PROVE  PairInv'
<1>1. CASE Next
  BY <1>1, NextSteps, StepKeeps, Zenon DEF Stepping
<1>2. CASE UNCHANGED vars
  <2>1. conn' = conn /\ net' = net
    BY <1>2, Zenon DEF vars
  <2> QED
    BY <2>1, Zenon DEF PairInv, GaveUp
<1> QED
  BY <1>1, <1>2, Zenon

\* What PairInv says about the end e and what its peer has received.
LEMMA EndNumbers ==
  ASSUME Contract, PairInv, NEW e \in Ends
  PROVE  LET f == FlowFrom(e)
             tx == conn[e].sender
             rx == conn[Peer(e)].receiver
         IN  /\ IsOutgoing(f) /\ Stands(f, tx) /\ Stood(f, tx)
             /\ Behind(f, tx, rx) /\ Assembled(f, tx.stream.read, rx.reassembler, tx.set_fin)
             /\ tx.recv_ackno <= Rcvd(rx)
<1>1. Both(FlowFrom(e), FlowFrom(Peer(e)), conn[e], conn[Peer(e)])
  BY Zenon DEF PairInv
<1>2. /\ IsOutgoing(FlowFrom(e)) /\ Stands(FlowFrom(e), conn[e].sender)
      /\ Receiving(FlowFrom(e), conn[e].sender, conn[Peer(e)].receiver)
      /\ conn[e].sender.recv_ackno <= Rcvd(conn[Peer(e)].receiver)
  BY <1>1, Zenon DEF Both, SideOK
<1> QED
  BY <1>2, Zenon DEF Contract, NumbersRule, StandingRule

\* What a sender takes for acknowledged has been received by its peer, and what was received
\* has been sent: ack_received never believes an ackno that its peer did not reach.
LEMMA PairAckHonest ==
  ASSUME Contract, PairInv
  PROVE  AckHonest
<1>1. ASSUME NEW e \in Ends
      PROVE  /\ Sender(e).recv_ackno <= Received(Peer(e))
             /\ Received(Peer(e)) <= Sender(e).next_seqno
  BY <1>1, EndNumbers, Zenon DEF Behind, Rcvd, Received, Sender
<1> QED
  BY <1>1, Zenon DEF AckHonest

\* The error flag of an output is one.
LEMMA ErrorFlag ==
  ASSUME Contract, PairInv, NEW e \in Ends
  PROVE  stream_out(conn[e].receiver).error \in BOOLEAN
<1>1. Peer(e) \in Ends /\ Peer(Peer(e)) = e
  BY Peers, Zenon
<1>2. PICK o : o = stream_out(conn[e].receiver)
  BY Zenon
<1>3. PICK B : B = FlowFrom(Peer(e)).byte
  BY Zenon
<1>4. o \in ByteStreams(B)
  BY <1>1, <1>2, <1>3, EndNumbers, Zenon DEF Assembled, stream_out
<1>5. o.error \in BOOLEAN
  BY <1>4 DEF ByteStreams
<1> QED
  BY <1>2, <1>5, Zenon

\* An end that is no longer active, and not in error, has received everything and knows that
\* everything it sent was received.
LEMMA CleanlyClosed ==
  ASSUME Contract, PairInv, NEW e \in Ends, ClosedCleanly(e)
  PROVE  HasAll(conn[e].receiver) /\ HasAll(conn[Peer(e)].receiver)
<1>1. Peer(e) \in Ends /\ Peer(Peer(e)) = e
  BY Peers, Zenon
<1>2. conn[e].active = FALSE
  <2>1. conn[e].active \in BOOLEAN
    BY EndFacts, Zenon
  <2> QED
    BY <2>1 DEF ClosedCleanly
<1>3. stream_out(conn[e].receiver).error = FALSE
  <2>1. stream_out(conn[e].receiver).error \in BOOLEAN
    BY ErrorFlag, Zenon
  <2> QED
    BY <2>1 DEF ClosedCleanly, InError, Output
<1>4. HasAll(conn[e].receiver) /\ conn[e].sender.recv_ackno = Limit(FlowFrom(e))
  <2>1. Status(FlowFrom(e), conn[e].receiver, conn[e].sender, conn[e].active)
    BY EndFacts, Zenon DEF Both, SideOK
  <2> QED
    BY <1>2, <1>3, <2>1, Zenon DEF Status
<1>5. PICK r : r = Rcvd(conn[Peer(e)].receiver)
  BY Zenon
<1>6. /\ r \in Nat /\ Limit(FlowFrom(e)) <= r /\ r <= conn[e].sender.next_seqno
      /\ conn[e].sender.next_seqno \in Nat /\ conn[e].sender.next_seqno <= Limit(FlowFrom(e))
      /\ r = Limit(FlowFrom(e)) => HasAll(conn[Peer(e)].receiver)
  BY <1>4, <1>5, EndNumbers, Zenon DEF Behind, Stood
<1>7. Limit(FlowFrom(e)) \in Nat
  BY EndNumbers, <1>4, Zenon DEF Stood
<1>8. r = Limit(FlowFrom(e))
  BY <1>6, <1>7, SMTT(20)
<1> QED
  BY <1>4, <1>6, <1>8, Zenon

\* What has all of it is told the end, after as many bytes as there are.
LEMMA AllThere ==
  ASSUME Contract, PairInv, NEW e \in Ends, HasAll(conn[Peer(e)].receiver)
  PROVE  /\ Output(Peer(e)).input_end = TRUE /\ Output(Peer(e)).written = Len(Stream[e])
         /\ Sender(e).set_fin = TRUE
<1>1. FlowFrom(e).stream = Stream[e]
  BY SMTT(20) DEF FlowFrom
<1>2. Behind(FlowFrom(e), conn[e].sender, conn[Peer(e)].receiver)
  BY EndNumbers, Zenon
<1> QED
  BY <1>1, <1>2, Zenon DEF Behind, HasAll, Output, Sender, stream_out

\* A connection that shuts down cleanly has delivered everything its application wrote to the
\* peer's, and has received everything the peer's wrote.
LEMMA PairCloseComplete ==
  ASSUME Contract, PairInv
  PROVE  CleanCloseIsComplete
<1>1. ASSUME NEW e \in Ends, ClosedCleanly(e)
      PROVE  /\ Output(e).input_end /\ Output(e).written = Len(Stream[Peer(e)])
             /\ Output(Peer(e)).input_end /\ Output(Peer(e)).written = Len(Stream[e])
  <2>1. Peer(e) \in Ends /\ Peer(Peer(e)) = e
    BY <1>1, Peers, Zenon
  <2>2. HasAll(conn[e].receiver) /\ HasAll(conn[Peer(e)].receiver)
    BY <1>1, CleanlyClosed, Zenon
  <2>3. /\ Output(e).input_end = TRUE /\ Output(e).written = Len(Stream[Peer(e)])
        /\ Output(Peer(e)).input_end = TRUE /\ Output(Peer(e)).written = Len(Stream[e])
    BY <1>1, <2>1, <2>2, AllThere, Zenon
  <2> QED
    BY <2>3, SMTT(20)
<1> QED
  BY <1>1, Zenon DEF CleanCloseIsComplete

\* An end that closes without lingering is never needed again: its peer has sent its FIN and
\* knows that everything up to it was received.
LEMMA PairNoLinger ==
  ASSUME Contract, PairInv
  PROVE  NoLingerIsSafe
<1>1. ASSUME NEW e \in Ends, ClosedCleanly(e), conn[e].linger = FALSE
      PROVE  Sender(Peer(e)).set_fin = TRUE /\ Sender(Peer(e)).segments_unackno = << >>
  <2> DEFINE g == FlowFrom(Peer(e))
             c == conn[e]
             p == conn[Peer(e)]
  <2>1. Peer(e) \in Ends /\ Peer(Peer(e)) = e
    BY <1>1, Peers, Zenon
  <2>2. HasAll(c.receiver) /\ HasAll(p.receiver)
    BY <1>1, CleanlyClosed, Zenon
  <2>3. p.sender.set_fin = TRUE
    BY <1>1, <2>1, <2>2, AllThere, Zenon DEF Sender
  <2>4. p.receiver.reassembler.eof_index # SizeMax
    <3>1. Assembled(FlowFrom(e), c.sender.stream.read, p.receiver.reassembler, c.sender.set_fin)
      BY <1>1, EndNumbers, Zenon
    <3> QED
      BY <2>2, <3>1, Zenon DEF Assembled, HasAll
  <2>5. p.sender.recv_ackno = Limit(g)
    <3>1. Released(g, p.receiver, p.sender, c)
      BY <1>1, EndFacts, Zenon DEF Both, SideOK
    <3> QED
      BY <1>1, <2>4, <3>1, Zenon DEF Released
  <2>6. Stood(g, p.sender)
    BY <2>1, EndNumbers, Zenon
  <2>7. /\ p.sender.next_seqno = Len(g.stream) + 2 /\ p.sender.next_seqno \in Nat
        /\ p.sender.segments_unackno # << >> => p.sender.recv_ackno < p.sender.next_seqno
    BY <2>3, <2>6, Zenon DEF Stood
  <2> HIDE DEF g, p, c
  <2>8. p.sender.segments_unackno = << >>
    BY <2>5, <2>7 DEF Limit
  <2> QED
    BY <2>3, <2>8, Zenon DEF Sender, p
<1>2. ASSUME NEW e \in Ends
      PROVE  conn[e].linger \in BOOLEAN
  BY <1>2, EndFacts, Zenon DEF Both, SideOK
<1>3. ASSUME NEW e \in Ends, ClosedCleanly(e), ~conn[e].linger
      PROVE  Sender(Peer(e)).set_fin /\ Sender(Peer(e)).segments_unackno = << >>
  <2>1. conn[e].linger = FALSE
    BY <1>2, <1>3
  <2>2. Sender(Peer(e)).set_fin = TRUE /\ Sender(Peer(e)).segments_unackno = << >>
    BY <1>1, <1>3, <2>1, Zenon
  <2> QED
    BY <2>2, SMTT(20)
<1> QED
  BY <1>3, Zenon DEF NoLingerIsSafe

\* The streams are in error only after one of the two ends has given up retransmitting: no
\* segment of a working connection resets it.
LEMMA PairErrorGaveUp ==
  ASSUME Contract, PairInv
  PROVE  ErrorMeansGaveUp
<1>1. ASSUME NEW e \in Ends, InError(e)
      PROVE  \E k \in Ends : Sender(k).consecutive_retransmissions > MaxRetxAttempts
  <2>1. stream_out(conn[e].receiver).error = TRUE
    <3>1. stream_out(conn[e].receiver).error \in BOOLEAN
      BY <1>1, ErrorFlag, Zenon
    <3> QED
      BY <1>1, <3>1 DEF InError, Output
  <2> QED
    BY <1>1, <2>1, Zenon DEF PairInv, GaveUp, Dead, Spent, Sender
<1> QED
  BY <1>1, Zenon DEF ErrorMeansGaveUp

-------------------------------------------------------------------------------
(***************************************************************************)
(* What the applications see: the pair implements ReliableStreams          *)
(***************************************************************************)
\* What has been written and what has been put out are beginnings of the streams.
AppInv ==
    \A e \in Ends :
        LET f == FlowFrom(e)
            s == conn[e].sender.stream
            o == stream_out(conn[Peer(e)].receiver)
        IN  /\ AppWritten[e] = Bytes(f, 0, s.written)
            /\ AppDelivered[Peer(e)] = Bytes(f, 0, o.written)
            /\ s.written \in Nat /\ o.written \in Nat
            /\ o.written <= s.written /\ s.written <= Len(f.stream)
            /\ s.input_end \in BOOLEAN /\ o.input_end \in BOOLEAN
            /\ o.input_end = TRUE => s.input_end = TRUE /\ o.written = s.written

\* What the application has read and what it can read are all that has been assembled.
LEMMA DeliveredBytes ==
  ASSUME Contract, NEW f, IsOutgoing(f), NEW n \in Nat, n <= Len(f.stream), NEW r, NEW fin,
         Assembled(f, n, r, fin)
  PROVE  /\ Bytes(f, 0, r.output.read) \o r.output.buffer = Bytes(f, 0, r.output.written)
         /\ r.output.written \in Nat /\ r.output.written <= n /\ r.output.input_end \in BOOLEAN
<1>1. IsFlow(f)
  BY Zenon DEF Contract, FlowRule
<1>2. PICK o : o = r.output
  BY Zenon
<1>3. PICK B : B = f.byte
  BY Zenon
<1>4. /\ o \in ByteStreams(B) /\ o.read + Len(o.buffer) = o.written /\ o.written <= n
      /\ o.buffer = Bytes(f, o.read, Len(o.buffer))
  BY <1>2, <1>3, Zenon DEF Assembled
<1>5. /\ o.read \in Nat /\ o.written \in Nat /\ o.input_end \in BOOLEAN /\ o.buffer \in Seq(B)
  BY <1>4 DEF ByteStreams
<1>6. Len(o.buffer) \in Nat /\ Len(f.stream) \in Nat
  <2>1. f.stream \in Seq(f.byte)
    BY <1>1, Zenon DEF IsFlow
  <2> QED
    BY <1>5, <2>1, SMTT(20)
<1>7. 0 + o.read + Len(o.buffer) <= Len(f.stream)
  BY <1>4, <1>5, <1>6, SMTT(20)
<1>8. Bytes(f, 0, o.read) \o Bytes(f, 0 + o.read, Len(o.buffer)) = Bytes(f, 0, o.read + Len(o.buffer))
  <2>1. 0 \in Nat /\ o.read \in Nat /\ Len(o.buffer) \in Nat
    BY <1>5, <1>6
  <2> QED
    BY <1>1, <1>7, <2>1, ZenonT(40) DEF Contract, JoinRule
<1>9. Bytes(f, 0, o.read) \o o.buffer = Bytes(f, 0, o.written)
  <2>1. 0 + o.read = o.read
    BY <1>5, SMTT(20)
  <2> QED
    BY <1>4, <1>8, <2>1, Zenon
<1> QED
  BY <1>2, <1>4, <1>5, <1>9, Zenon

\* PairInv implies it.
LEMMA PairStreams ==
  ASSUME Contract
  PROVE  PairInv => AppInv
<1>1. ASSUME PairInv, NEW e \in Ends
      PROVE  LET f == FlowFrom(e)
                 s == conn[e].sender.stream
                 o == stream_out(conn[Peer(e)].receiver)
             IN  /\ AppWritten[e] = Bytes(f, 0, s.written)
                 /\ AppDelivered[Peer(e)] = Bytes(f, 0, o.written)
                 /\ s.written \in Nat /\ o.written \in Nat
                 /\ o.written <= s.written /\ s.written <= Len(f.stream)
                 /\ s.input_end \in BOOLEAN /\ o.input_end \in BOOLEAN
                 /\ o.input_end = TRUE => s.input_end = TRUE /\ o.written = s.written
  <2> DEFINE f == FlowFrom(e)
             t == conn[e].sender
             r == conn[Peer(e)].receiver.reassembler
  <2>1. Peer(e) \in Ends /\ Peer(Peer(e)) = e
    BY <1>1, Peers, Zenon
  <2>2. /\ IsOutgoing(f) /\ Stood(f, t) /\ Behind(f, t, conn[Peer(e)].receiver)
        /\ Assembled(f, t.stream.read, r, t.set_fin)
    BY <1>1, EndNumbers, Zenon
  <2>3. f.stream = Stream[e]
    BY DEF FlowFrom
  <2>4. AppWritten[e] = SubSeq(Stream[e], 0 + 1, 0 + t.stream.written)
    BY <1>1, Zenon DEF AppWritten, Slice, Sender
  <2>5. AppDelivered[Peer(e)] = SubSeq(Stream[e], 0 + 1, 0 + r.output.read) \o r.output.buffer
    BY <2>1, Zenon DEF AppDelivered, Slice, Output, stream_out
  <2> HIDE DEF f, t, r
  <2>6. /\ t.stream.read \in Nat /\ t.stream.written \in Nat /\ t.stream.read <= t.stream.written
        /\ t.stream.written <= Len(f.stream) /\ t.stream.input_end \in BOOLEAN
        /\ t.set_fin = TRUE => t.stream.input_end = TRUE /\ t.stream.written = Len(f.stream)
    BY <2>2, Zenon DEF Stood
  <2>7. Len(f.stream) \in Nat
    BY <2>2, SMTT(20) DEF IsFlow, Contract, FlowRule
  <2>8. t.stream.read <= Len(f.stream)
    BY <2>6, <2>7
  <2>9. /\ Bytes(f, 0, r.output.read) \o r.output.buffer = Bytes(f, 0, r.output.written)
        /\ r.output.written \in Nat /\ r.output.written <= t.stream.read
        /\ r.output.input_end \in BOOLEAN
    BY <2>2, <2>6, <2>8, DeliveredBytes, Zenon
  <2>10. r.output.written <= t.stream.written
    BY <2>6, <2>9, SMTT(20)
  <2>11. r.output.input_end = TRUE => t.set_fin = TRUE /\ r.output.written = Len(f.stream)
    BY <2>2, Zenon DEF Behind, r, stream_out
  <2>12. /\ AppWritten[e] = Bytes(f, 0, t.stream.written)
         /\ AppDelivered[Peer(e)] = Bytes(f, 0, r.output.written)
    BY <2>3, <2>4, <2>5, <2>9, Zenon DEF Bytes
  <2> QED
    BY <2>6, <2>9, <2>10, <2>11, <2>12, Zenon DEF f, t, r, stream_out
<1> QED
  BY <1>1, Zenon DEF AppInv

\* A beginning of a stream is one of every longer one.
LEMMA PrefixBytes ==
  ASSUME Contract, NEW f, IsOutgoing(f), f.byte = Byte, NEW m \in Nat, NEW n \in Nat, m <= n,
         n <= Len(f.stream)
  PROVE  /\ Bytes(f, 0, m) \in Seq(Byte) /\ Bytes(f, 0, n) \in Seq(Byte)
         /\ Streams!Prefix(Bytes(f, 0, m), Bytes(f, 0, n))
<1>1. IsFlow(f)
  BY Zenon DEF Contract, FlowRule
<1>2. Len(f.stream) \in Nat
  BY <1>1 DEF IsFlow
<1>3. 0 \in Nat /\ 0 + m <= Len(f.stream) /\ 0 + n <= Len(f.stream)
  BY <1>2, SMTT(20)
<1>4. /\ Bytes(f, 0, m) \in Seq(Byte) /\ Len(Bytes(f, 0, m)) = m
      /\ \A j \in 1 .. m : Bytes(f, 0, m)[j] = f.stream[0 + j]
  BY <1>1, <1>3, Zenon DEF Contract, PieceRule
<1>5. /\ Bytes(f, 0, n) \in Seq(Byte) /\ Len(Bytes(f, 0, n)) = n
      /\ \A j \in 1 .. n : Bytes(f, 0, n)[j] = f.stream[0 + j]
  BY <1>1, <1>3, Zenon DEF Contract, PieceRule
<1>6. \A j \in 1 .. m : j \in 1 .. n
  BY SMTT(20)
<1>7. \A j \in 1 .. m : Bytes(f, 0, m)[j] = Bytes(f, 0, n)[j]
  BY <1>4, <1>5, <1>6, Zenon
<1> QED
  BY <1>4, <1>5, <1>7, Zenon DEF Streams!Prefix

OnEnds(F) == F = [k \in Ends |-> F[k]]
ChangedAt(e, F, G) == G = [F EXCEPT ![e] = G[e]] /\ (G[e] = F[e] => G = F)

\* Two functions on the ends that agree at the peer of e
LEMMA Updated ==
  ASSUME NEW F, OnEnds(F), NEW G, OnEnds(G), NEW e \in Ends, G[Peer(e)] = F[Peer(e)]
  PROVE  ChangedAt(e, F, G)
<1>1. \A k \in Ends : k = e \/ k = Peer(e)
  BY DEF Ends, Peer
<1>2. \A k \in Ends : k # e => G[k] = F[k]
  BY <1>1, Zenon
<1> QED
  BY <1>2, SMTT(20) DEF OnEnds, ChangedAt

\* What the applications see are functions on the ends, and a step at e changes them at e only.
LEMMA SeenAt ==
  ASSUME NEW e \in Ends, conn'[Peer(e)] = conn[Peer(e)]
  PROVE  /\ AppWritten' = [AppWritten EXCEPT ![e] = AppWritten'[e]]
         /\ AppClosed' = [AppClosed EXCEPT ![e] = AppClosed'[e]]
         /\ AppDelivered' = [AppDelivered EXCEPT ![e] = AppDelivered'[e]]
         /\ AppFinished' = [AppFinished EXCEPT ![e] = AppFinished'[e]]
         /\ AppWritten'[e] = AppWritten[e] => AppWritten' = AppWritten
         /\ AppClosed'[e] = AppClosed[e] => AppClosed' = AppClosed
         /\ AppDelivered'[e] = AppDelivered[e] => AppDelivered' = AppDelivered
         /\ AppFinished'[e] = AppFinished[e] => AppFinished' = AppFinished
<1>1. Peer(e) \in Ends
  BY Peers, Zenon
<1>2. /\ AppWritten' = [AppWritten EXCEPT ![e] = AppWritten'[e]]
      /\ AppWritten'[e] = AppWritten[e] => AppWritten' = AppWritten
  <2>1. OnEnds(AppWritten)
    BY Zenon DEF AppWritten, OnEnds
  <2>2. OnEnds(AppWritten')
    BY Zenon DEF AppWritten, OnEnds
  <2>3. AppWritten'[Peer(e)] = AppWritten[Peer(e)]
    BY <1>1, Zenon DEF AppWritten, Sender
  <2>4. ChangedAt(e, AppWritten, AppWritten')
    BY <2>1, <2>2, <2>3, Updated, Zenon
  <2> QED
    BY <2>4, Zenon DEF ChangedAt
<1>3. /\ AppClosed' = [AppClosed EXCEPT ![e] = AppClosed'[e]]
      /\ AppClosed'[e] = AppClosed[e] => AppClosed' = AppClosed
  <2>1. OnEnds(AppClosed)
    BY Zenon DEF AppClosed, OnEnds
  <2>2. OnEnds(AppClosed')
    BY Zenon DEF AppClosed, OnEnds
  <2>3. AppClosed'[Peer(e)] = AppClosed[Peer(e)]
    BY <1>1, Zenon DEF AppClosed, Sender
  <2>4. ChangedAt(e, AppClosed, AppClosed')
    BY <2>1, <2>2, <2>3, Updated, Zenon
  <2> QED
    BY <2>4, Zenon DEF ChangedAt
<1>4. /\ AppDelivered' = [AppDelivered EXCEPT ![e] = AppDelivered'[e]]
      /\ AppDelivered'[e] = AppDelivered[e] => AppDelivered' = AppDelivered
  <2>1. OnEnds(AppDelivered)
    BY Zenon DEF AppDelivered, OnEnds
  <2>2. OnEnds(AppDelivered')
    BY Zenon DEF AppDelivered, OnEnds
  <2>3. AppDelivered'[Peer(e)] = AppDelivered[Peer(e)]
    BY <1>1, Zenon DEF AppDelivered, Output
  <2>4. ChangedAt(e, AppDelivered, AppDelivered')
    BY <2>1, <2>2, <2>3, Updated, Zenon
  <2> QED
    BY <2>4, Zenon DEF ChangedAt
<1>5. /\ AppFinished' = [AppFinished EXCEPT ![e] = AppFinished'[e]]
      /\ AppFinished'[e] = AppFinished[e] => AppFinished' = AppFinished
  <2>1. OnEnds(AppFinished)
    BY Zenon DEF AppFinished, OnEnds
  <2>2. OnEnds(AppFinished')
    BY Zenon DEF AppFinished, OnEnds
  <2>3. AppFinished'[Peer(e)] = AppFinished[Peer(e)]
    BY <1>1, Zenon DEF AppFinished, Output
  <2>4. ChangedAt(e, AppFinished, AppFinished')
    BY <2>1, <2>2, <2>3, Updated, Zenon
  <2> QED
    BY <2>4, Zenon DEF ChangedAt
<1> QED
  BY <1>2, <1>3, <1>4, <1>5, Zenon

\* What a step at e leaves in conn'[e]
LEMMA SeenFields ==
  ASSUME NEW e \in Ends, NEW d, Leaves(d, conn'[e])
  PROVE  /\ conn'[e].sender = d.sender /\ conn'[e].receiver = d.receiver
         /\ AppClosed[e] = conn[e].sender.stream.input_end
         /\ AppClosed'[e] = d.sender.stream.input_end
         /\ AppFinished[e] = stream_out(conn[e].receiver).input_end
         /\ AppFinished'[e] = stream_out(d.receiver).input_end
         /\ d.sender.stream.written = conn[e].sender.stream.written =>
              AppWritten'[e] = AppWritten[e]
         /\ d.receiver = conn[e].receiver =>
              AppDelivered'[e] = AppDelivered[e] /\ AppFinished'[e] = AppFinished[e]
<1>1. conn'[e].sender = d.sender /\ conn'[e].receiver = d.receiver
  BY DEF Leaves, IsNode
<1> QED
  BY <1>1, Zenon DEF AppWritten, AppClosed, AppDelivered, AppFinished, Sender, Output

\* A call that is not a write delivers more of the peer's stream, and maybe the end of it.
LEMMA DeliverSeen ==
  ASSUME Contract, PairInv, AppInv, AppInv', NEW e \in Ends, NEW d, NEW b, Steps(e, d, b),
         SameInput(conn[e].sender, d.sender)
  PROVE  Streams!Deliver(e) \/ UNCHANGED Streams!vars
<1> DEFINE g == FlowFrom(Peer(e))
           s == conn[Peer(e)].sender.stream
           o == stream_out(conn[e].receiver)
           q == stream_out(d.receiver)
<1>1. Peer(e) \in Ends /\ Peer(Peer(e)) = e
  BY Peers, Zenon
<1>2. Leaves(d, conn'[e]) /\ conn'[Peer(e)] = conn[Peer(e)]
  BY Zenon DEF Steps
<1>3. /\ conn'[e].receiver = d.receiver
      /\ AppWritten'[e] = AppWritten[e] /\ AppClosed'[e] = AppClosed[e]
      /\ AppFinished[e] = o.input_end /\ AppFinished'[e] = q.input_end
  BY <1>2, SeenFields, Zenon DEF SameInput
<1>4. AppWritten' = AppWritten /\ AppClosed' = AppClosed
  BY <1>2, <1>3, SeenAt, Zenon
<1>5. /\ AppWritten[Peer(e)] = Bytes(g, 0, s.written) /\ AppDelivered[e] = Bytes(g, 0, o.written)
      /\ s.written \in Nat /\ o.written \in Nat
      /\ o.written <= s.written /\ s.written <= Len(g.stream)
      /\ s.input_end \in BOOLEAN /\ o.input_end \in BOOLEAN
      /\ o.input_end = TRUE => s.input_end = TRUE /\ o.written = s.written
  BY <1>1, ZenonT(40) DEF AppInv
<1>6. /\ AppDelivered'[e] = Bytes(g, 0, q.written) /\ q.written \in Nat
      /\ q.written <= s.written /\ q.input_end \in BOOLEAN
      /\ q.input_end = TRUE => s.input_end = TRUE /\ q.written = s.written
  BY <1>1, <1>2, <1>3, ZenonT(40) DEF AppInv
<1>7. o.written <= q.written /\ (o.input_end = TRUE => q.input_end = TRUE)
  BY Zenon DEF Steps, CallOK, Moved, Grows
<1>8. AppClosed[Peer(e)] = s.input_end
  BY <1>1, Zenon DEF AppClosed, Sender
<1>9. IsOutgoing(g) /\ g.byte = Byte
  <2>1. g.byte = Byte
    BY SMTT(20) DEF FlowFrom
  <2> QED
    BY <1>1, <2>1, Flows, Zenon
<1> HIDE DEF g, s, o, q
<1>10. CASE o.input_end = TRUE
  <2>1. q.written = o.written /\ q.input_end = o.input_end
    BY <1>5, <1>6, <1>7, <1>10, Zenon
  <2>2. AppDelivered'[e] = AppDelivered[e] /\ AppFinished'[e] = AppFinished[e]
    BY <1>3, <1>5, <1>6, <2>1, Zenon
  <2>3. AppDelivered' = AppDelivered /\ AppFinished' = AppFinished
    BY <1>2, <2>2, SeenAt, Zenon
  <2> QED
    BY <1>4, <2>3, Zenon DEF Streams!vars
<1>11. CASE o.input_end = FALSE
  <2>1. q.written <= Len(g.stream)
    <3>1. Len(g.stream) \in Nat
      BY <1>9, SMTT(20) DEF IsFlow, Contract, FlowRule
    <3> QED
      BY <1>5, <1>6, <3>1, SMTT(20)
  <2>2. /\ AppDelivered'[e] \in Seq(Byte) /\ Streams!Prefix(AppDelivered[e], AppDelivered'[e])
        /\ Streams!Prefix(AppDelivered'[e], AppWritten[Peer(e)])
    BY <1>5, <1>6, <1>7, <1>9, <2>1, PrefixBytes, Zenon
  <2>3. AppDelivered' = [AppDelivered EXCEPT ![e] = AppDelivered'[e]]
    BY <1>2, SeenAt, Zenon
  <2>4. ~AppFinished[e]
    BY <1>3, <1>11
  <2>5. \/ AppFinished' = AppFinished
        \/ /\ AppClosed[Peer(e)] /\ AppDelivered'[e] = AppWritten[Peer(e)]
           /\ AppFinished' = [AppFinished EXCEPT ![e] = TRUE]
    <3>1. CASE q.input_end = TRUE
      <4>1. AppClosed[Peer(e)] = TRUE /\ AppDelivered'[e] = AppWritten[Peer(e)]
        BY <1>5, <1>6, <1>8, <3>1, Zenon
      <4>2. AppFinished' = [AppFinished EXCEPT ![e] = TRUE]
        BY <1>2, <1>3, <3>1, SeenAt, Zenon
      <4>3. AppClosed[Peer(e)]
        BY <4>1, SMTT(20)
      <4> QED
        BY <4>1, <4>2, <4>3, Zenon
    <3>2. CASE q.input_end = FALSE
      BY <1>2, <1>3, <1>11, <3>2, SeenAt, ZenonT(40)
    <3>3. q.input_end = TRUE \/ q.input_end = FALSE
      BY <1>6, SMTT(20)
    <3> QED
      BY <3>1, <3>2, <3>3, Zenon
  <2> QED
    BY <1>4, <2>2, <2>3, <2>4, <2>5, Zenon DEF Streams!Deliver
<1>12. o.input_end = TRUE \/ o.input_end = FALSE
  BY <1>5
<1> QED
  BY <1>10, <1>11, <1>12, Zenon

\* The application writes.
LEMMA WriteSeen ==
  ASSUME Contract, PairInv, AppInv, AppInv', NEW e \in Ends, NEW d, NEW b, Steps(e, d, b),
         conn[e].sender.stream.input_end = FALSE,
         Extended(FlowFrom(e), FlowFrom(Peer(e)), conn[e], conn[Peer(e)], d, FALSE)
  PROVE  Streams!Write(e)
<1> DEFINE f == FlowFrom(e)
           s == conn[e].sender.stream
           q == d.sender.stream
<1>1. Leaves(d, conn'[e]) /\ conn'[Peer(e)] = conn[Peer(e)]
  BY Zenon DEF Steps
<1>2. d.receiver = conn[e].receiver /\ s.written <= q.written /\ q.input_end = FALSE
  BY Zenon DEF Extended
<1>3. /\ conn'[e].sender = d.sender /\ AppClosed[e] = FALSE /\ AppClosed'[e] = AppClosed[e]
      /\ AppDelivered'[e] = AppDelivered[e] /\ AppFinished'[e] = AppFinished[e]
  BY <1>1, <1>2, SeenFields, Zenon
<1>4. /\ AppClosed' = AppClosed /\ AppDelivered' = AppDelivered /\ AppFinished' = AppFinished
      /\ AppWritten' = [AppWritten EXCEPT ![e] = AppWritten'[e]]
  BY <1>1, <1>3, SeenAt, Zenon
<1>5. /\ AppWritten[e] = Bytes(f, 0, s.written) /\ s.written \in Nat
  BY Zenon DEF AppInv
<1>6. /\ AppWritten'[e] = Bytes(f, 0, q.written) /\ q.written \in Nat /\ q.written <= Len(f.stream)
  BY <1>3, Zenon DEF AppInv
<1>7. IsOutgoing(f) /\ f.byte = Byte
  <2>1. f.byte = Byte
    BY SMTT(20) DEF FlowFrom
  <2> QED
    BY <2>1, Flows, Zenon
<1>8. AppWritten'[e] \in Seq(Byte) /\ Streams!Prefix(AppWritten[e], AppWritten'[e])
  BY <1>2, <1>5, <1>6, <1>7, PrefixBytes, Zenon
<1>9. ~AppClosed[e]
  BY <1>3
<1> QED
  BY <1>4, <1>8, <1>9, Zenon DEF Streams!Write

\* The application ends its stream.
LEMMA CloseSeen ==
  ASSUME NEW e \in Ends, NEW d, NEW b, Steps(e, d, b),
         Extended(FlowFrom(e), FlowFrom(Peer(e)), conn[e], conn[Peer(e)], d, TRUE)
  PROVE  Streams!Close(e)
<1>1. Leaves(d, conn'[e]) /\ conn'[Peer(e)] = conn[Peer(e)]
  BY Zenon DEF Steps
<1>2. /\ d.receiver = conn[e].receiver /\ d.sender.stream.input_end = TRUE
      /\ d.sender.stream.written = conn[e].sender.stream.written
  BY Zenon DEF Extended
<1>3. /\ AppClosed'[e] = TRUE /\ AppWritten'[e] = AppWritten[e]
      /\ AppDelivered'[e] = AppDelivered[e] /\ AppFinished'[e] = AppFinished[e]
  BY <1>1, <1>2, SeenFields, Zenon
<1>4. /\ AppWritten' = AppWritten /\ AppDelivered' = AppDelivered /\ AppFinished' = AppFinished
      /\ AppClosed' = [AppClosed EXCEPT ![e] = TRUE]
  BY <1>1, <1>3, SeenAt, Zenon
<1> QED
  BY <1>4, Zenon DEF Streams!Close

\* Initially nothing has been written or put out.
LEMMA InitSeen ==
  ASSUME Contract, Init
  PROVE  Streams!Init
<1>1. ASSUME NEW e \in Ends
      PROVE  /\ conn[e].sender.stream = new_ByteStream(SendCapacity)
             /\ stream_out(conn[e].receiver) = new_ByteStream(RecvCapacity)
  <2>1. conn[e] = new_TCPConnection(SendCapacity, RecvCapacity, Isn[e])
    BY <1>1, Zenon DEF Init
  <2>2. /\ conn[e].sender = new_TCPSender(SendCapacity, RtTimeout, Isn[e])
        /\ conn[e].receiver = new_TCPReceiver(RecvCapacity)
    BY <2>1, SMTT(20) DEF new_TCPConnection
  <2>3. conn[e].sender.stream = new_ByteStream(SendCapacity)
    BY <2>2, SMTT(20) DEF new_TCPSender
  <2>4. conn[e].receiver.reassembler = new_StreamReassembler(RecvCapacity)
    BY <2>2, SMTT(20) DEF new_TCPReceiver
  <2>5. conn[e].receiver.reassembler.output = new_ByteStream(RecvCapacity)
    BY <2>4 DEF new_StreamReassembler
  <2> QED
    BY <2>3, <2>5, Zenon DEF stream_out
<1>2. ASSUME NEW e \in Ends
      PROVE  /\ Sender(e).stream.written = 0 /\ Sender(e).stream.input_end = FALSE
             /\ Output(e).read = 0 /\ Output(e).buffer = << >> /\ Output(e).input_end = FALSE
  <2>1. /\ Sender(e).stream = new_ByteStream(SendCapacity)
        /\ Output(e) = new_ByteStream(RecvCapacity)
    BY <1>1, <1>2, Zenon DEF Sender, Output
  <2> QED
    BY <2>1, SMTT(20) DEF new_ByteStream
<1>3. ASSUME NEW e \in Ends
      PROVE  Slice(e, 0, 0) = << >>
  <2>1. IsFlow(FlowFrom(e)) /\ 0 \in Nat
    BY <1>3, Flows, ZenonT(40) DEF Contract, FlowRule
  <2>2. Bytes(FlowFrom(e), 0, 0) = << >>
    BY <2>1, Zenon DEF Contract, NoBytesRule
  <2>3. FlowFrom(e).stream = Stream[e]
    BY SMTT(20) DEF FlowFrom
  <2> QED
    BY <2>2, <2>3, Zenon DEF Bytes, Slice
<1>4. ASSUME NEW e \in Ends
      PROVE  Slice(Peer(e), 0, Output(e).read) \o Output(e).buffer = << >>
  <2>1. /\ Slice(Peer(e), 0, 0) = << >> /\ Output(e).read = 0 /\ Output(e).buffer = << >>
    BY <1>2, <1>3, <1>4, Peers, Zenon
  <2>2. << >> \o << >> = << >>
    BY SMTT(20)
  <2> QED
    BY <2>1, <2>2, Zenon
<1>5. AppWritten = [e \in Ends |-> << >>]
  BY <1>2, <1>3, Zenon DEF AppWritten
<1>6. AppDelivered = [e \in Ends |-> << >>]
  BY <1>4, Zenon DEF AppDelivered
<1>7. AppClosed = [e \in Ends |-> FALSE] /\ AppFinished = [e \in Ends |-> FALSE]
  BY <1>2, Zenon DEF AppClosed, AppFinished
<1> QED
  BY <1>5, <1>6, <1>7, Zenon DEF Streams!Init

\* A step of the pair is one of the abstract streams, or changes nothing that the applications
\* see.
LEMMA NextSeen ==
  ASSUME Contract, PairInv, AppInv, AppInv', [Next]_vars
  PROVE  [Streams!Next]_(Streams!vars)
<1>1. CASE Next
  <2>1. PICK e \in Ends : \E d : \E b : Steps(e, d, b) /\ Does(e, d)
    BY <1>1, NextSteps, Zenon DEF Stepping
  <2>2. PICK d : \E b : Steps(e, d, b) /\ Does(e, d)
    BY <2>1, Zenon
  <2>3. PICK b : Steps(e, d, b) /\ Does(e, d)
    BY <2>2, Zenon
  <2>4. Streams!Write(e) \/ Streams!Close(e) \/ Streams!Deliver(e) \/ UNCHANGED Streams!vars
    BY <2>3, DeliverSeen, WriteSeen, CloseSeen, Zenon DEF Does
  <2> QED
    BY <2>4, Zenon DEF Streams!Next
<1>2. CASE UNCHANGED vars
  <2>1. conn' = conn
    BY <1>2, Zenon DEF vars
  <2>2. /\ AppWritten' = AppWritten /\ AppClosed' = AppClosed
        /\ AppDelivered' = AppDelivered /\ AppFinished' = AppFinished
    BY <2>1, Zenon DEF AppWritten, AppClosed, AppDelivered, AppFinished, Sender, Output
  <2> QED
    BY <2>2, Zenon DEF Streams!vars
<1> QED
  BY <1>1, <1>2, Zenon

-------------------------------------------------------------------------------
(***************************************************************************)
(* What ReliableStreams gives the applications                             *)
(***************************************************************************)

StreamsTypeOK ==
    /\ AppWritten \in [Ends -> Seq(Byte)] /\ AppDelivered \in [Ends -> Seq(Byte)]
    /\ AppClosed \in [Ends -> BOOLEAN] /\ AppFinished \in [Ends -> BOOLEAN]

StreamsOK == StreamsTypeOK /\ Streams!Faithful

\* Nothing is written, and nothing is handed out.
LEMMA StreamsInit ==
  ASSUME Streams!Init
  PROVE  StreamsOK
<1>1. \A e \in Ends : Peer(e) \in Ends
  BY Peers, Zenon
<1> QED
  BY <1>1, SMTT(20) DEF Streams!Init, StreamsOK, StreamsTypeOK, Streams!Faithful, Streams!Prefix

\* What a stream is a beginning of stays so when that grows.
LEMMA PrefixTransitive ==
  ASSUME NEW r \in Seq(Byte), NEW s \in Seq(Byte), NEW t \in Seq(Byte),
         Streams!Prefix(r, s), Streams!Prefix(s, t)
  PROVE  Streams!Prefix(r, t)
BY SMTT(20) DEF Streams!Prefix

\* The invariant is inductive with the types: a step that writes at e is taken only
\* while e has not closed, so no peer of e has been told that it is finished.
LEMMA StreamsStep ==
  ASSUME StreamsOK, [Streams!Next]_(Streams!vars)
  PROVE  StreamsOK'
<1> SUFFICES StreamsTypeOK' /\ Streams!Faithful'
  BY Zenon DEF StreamsOK
<1> StreamsTypeOK /\ Streams!Faithful /\ \A e \in Ends : Peer(e) \in Ends
  BY Peers, Zenon DEF StreamsOK
<1>1. CASE UNCHANGED Streams!vars
  BY <1>1, SMTT(20) DEF StreamsTypeOK, Streams!Faithful, Streams!vars
<1>2. ASSUME NEW e \in Ends, Streams!Write(e)
      PROVE  StreamsTypeOK' /\ Streams!Faithful'
  <2>1. StreamsTypeOK'
    <3>1. PICK w : w = AppWritten'[e]
      BY Zenon
    <3>2. w \in Seq(Byte) /\ AppWritten' = [AppWritten EXCEPT ![e] = w]
      BY <1>2, <3>1, Zenon DEF Streams!Write
    <3>3. AppWritten' \in [Ends -> Seq(Byte)]
      BY <3>2 DEF StreamsTypeOK
    <3> QED
      BY <1>2, <3>3, Zenon DEF Streams!Write, StreamsTypeOK
  <2>2. ASSUME NEW d \in Ends
        PROVE  /\ Streams!Prefix(AppDelivered'[d], AppWritten'[Peer(d)])
               /\ AppFinished'[d] => AppClosed'[Peer(d)] /\ AppDelivered'[d] = AppWritten'[Peer(d)]
    <3>1. CASE Peer(d) = e
      <4>1. Streams!Prefix(AppDelivered[d], AppWritten[e])
            /\ Streams!Prefix(AppWritten[e], AppWritten'[e])
        BY <1>2, <2>2, <3>1, SMTT(20) DEF Streams!Write, Streams!Faithful
      <4>2. Streams!Prefix(AppDelivered[d], AppWritten'[e])
        BY <2>1, <2>2, <4>1, PrefixTransitive, SMTT(20) DEF StreamsTypeOK
      <4>3. ~AppFinished[d]
        BY <1>2, <2>2, <3>1, SMTT(20) DEF Streams!Write, Streams!Faithful
      <4> QED
        BY <1>2, <3>1, <4>2, <4>3, SMTT(20) DEF Streams!Write
    <3>2. CASE Peer(d) # e
      <4>1. AppWritten'[Peer(d)] = AppWritten[Peer(d)]
        BY <1>2, <2>2, <3>2, SMTT(20) DEF Streams!Write, StreamsTypeOK
      <4> QED
        BY <1>2, <2>2, <4>1, SMTT(20) DEF Streams!Write, Streams!Faithful
    <3> QED
      BY <3>1, <3>2, SMTT(20)
  <2> QED
    BY <2>1, <2>2 DEF Streams!Faithful
<1>3. ASSUME NEW e \in Ends, Streams!Close(e)
      PROVE  StreamsTypeOK' /\ Streams!Faithful'
  <2>1. StreamsTypeOK'
    BY <1>3, SMTT(20) DEF Streams!Close, StreamsTypeOK
  <2>2. \A d \in Ends : AppClosed[d] => AppClosed'[d]
    BY <1>3, SMTT(20) DEF Streams!Close, StreamsTypeOK
  <2> QED
    BY <1>3, <2>1, <2>2, SMTT(20) DEF Streams!Close, Streams!Faithful
<1>4. ASSUME NEW e \in Ends, Streams!Deliver(e)
      PROVE  StreamsTypeOK' /\ Streams!Faithful'
  <2>1. StreamsTypeOK'
    <3>1. PICK w : w = AppDelivered'[e]
      BY Zenon
    <3>2. w \in Seq(Byte) /\ AppDelivered' = [AppDelivered EXCEPT ![e] = w]
      BY <1>4, <3>1, Zenon DEF Streams!Deliver
    <3>3. AppDelivered' \in [Ends -> Seq(Byte)]
      BY <3>2, SMTT(20) DEF StreamsTypeOK
    <3>4. AppFinished' = AppFinished \/ AppFinished' = [AppFinished EXCEPT ![e] = TRUE]
      BY <1>4, Zenon DEF Streams!Deliver
    <3>5. AppFinished' \in [Ends -> BOOLEAN]
      <4>1. ASSUME NEW F \in [Ends -> BOOLEAN] PROVE [F EXCEPT ![e] = TRUE] \in [Ends -> BOOLEAN]
        BY SMTT(20)
      <4> QED
        BY <3>4, <4>1, Zenon DEF StreamsTypeOK
    <3> QED
      BY <1>4, <3>3, <3>5, Zenon DEF Streams!Deliver, StreamsTypeOK
  <2>2. ASSUME NEW d \in Ends
        PROVE  /\ Streams!Prefix(AppDelivered'[d], AppWritten[Peer(d)])
               /\ AppFinished'[d] => AppClosed[Peer(d)] /\ AppDelivered'[d] = AppWritten[Peer(d)]
    <3>1. CASE d = e
      BY <1>4, <3>1, SMTT(20) DEF Streams!Deliver
    <3>2. CASE d # e
      <4>1. AppDelivered'[d] = AppDelivered[d] /\ AppFinished'[d] = AppFinished[d]
        BY <1>4, <2>2, <3>2 DEF Streams!Deliver, StreamsTypeOK
      <4> QED
        BY <2>2, <4>1 DEF Streams!Faithful
    <3> QED
      BY <3>1, <3>2, SMTT(20)
  <2> QED
    BY <1>4, <2>1, <2>2 DEF Streams!Deliver, Streams!Faithful
<1> QED
  BY <1>1, <1>2, <1>3, <1>4, SMTT(20) DEF Streams!Next

===============================================================================
