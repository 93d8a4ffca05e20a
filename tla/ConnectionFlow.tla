---------------------------- MODULE ConnectionFlow ----------------------------
(***************************************************************************)
(* A connection and its peer: what the proofs say of the two between two   *)
(* calls, of the segments between them, and of what a call makes of the    *)
(* connection. The connection sends over flow f and receives over flow g.  *)
(***************************************************************************)
EXTENDS TCPConnection, SenderFlow, ReassemblerFlow

\* The sequence number up to which a receiver has received what is sent to it
Rcvd(rx) == IF has_ackno(rx) THEN abs_ackno(rx) ELSE 0

\* It has received everything.
HasAll(rx) == rx.set_syn = TRUE /\ rx.reassembler.output.input_end = TRUE

\* The records that a receiver and a connection are
IsRx(rx, r, capacity, syn, fin, isn) ==
    rx = [reassembler |-> r, capacity |-> capacity, set_syn |-> syn, set_fin |-> fin,
          isn |-> isn]

IsNode(c, rx, tx, out, l, tm, a) ==
    c = [receiver |-> rx, sender |-> tx, segments_out |-> out, linger |-> l,
         time_since_last_segment |-> tm, active |-> a]

\* rx is the receiver of what t sends over the flow.
Receiving(flow, t, rx) ==
    /\ IsRx(rx, rx.reassembler, flow.capacity, rx.set_syn, rx.set_fin, rx.isn)
    /\ rx.set_syn \in BOOLEAN
    /\ rx.set_syn = TRUE => rx.isn = flow.isn /\ t.set_syn = TRUE
    /\ Assembling(flow, t.stream.read, rx.reassembler, t.set_fin)

\* What this says of the numbers of the two
Behind(flow, t, rx) ==
    /\ Rcvd(rx) \in Nat /\ Rcvd(rx) <= t.next_seqno /\ t.next_seqno <= Limit(flow)
    /\ Rcvd(rx) < SeqMod
    /\ Rcvd(rx) = Limit(flow) => HasAll(rx)
    /\ HasAll(rx) => Rcvd(rx) = Limit(flow) /\ t.set_fin = TRUE
    /\ stream_out(rx).input_end = TRUE =>
         t.set_fin = TRUE /\ stream_out(rx).written = Len(flow.stream)
    /\ rx.reassembler.eof_index # SizeMax => t.set_fin = TRUE
    /\ stream_out(rx).written \in Nat /\ stream_out(rx).written <= t.stream.read
    /\ stream_out(rx).written + 1 <= Limit(flow)

Grows(rx, q) ==
    /\ Rcvd(rx) <= Rcvd(q) /\ (HasAll(rx) => HasAll(q))
    /\ stream_out(rx).written <= stream_out(q).written
    /\ stream_out(rx).input_end = TRUE => stream_out(q).input_end = TRUE

\* What the connection says of its receiver in a segment
Stamps(rx, seg) ==
    seg.ack = rx.set_syn /\ (rx.set_syn = TRUE => seg.ackno = wrap(Rcvd(rx), rx.isn))

\* The segments of s go out.  They have RST as b says.
Queued(f, tx, rx, s, b) ==
    \A j \in 1 .. Len(s) : Says(f, tx, s[j]) /\ Stamps(rx, s[j]) /\ s[j].rst = b

\* A connection is closed without error only when everything has been exchanged.
Status(f, rx, tx, a) ==
    /\ a = TRUE => stream_out(rx).error = FALSE
    /\ a = FALSE /\ stream_out(rx).error = FALSE => HasAll(rx) /\ tx.recv_ackno = Limit(f)

\* An end that lingers no more was told that its peer had ended before it ended itself:
\* the peer that has seen its end knows that everything was received.
Released(f, rx, tx, p) ==
    p.linger = FALSE /\ rx.reassembler.eof_index # SizeMax => tx.recv_ackno = Limit(f)

\* Connection c, which sends over f, and its peer p, which sends over g
SideOK(f, g, c, p) ==
    /\ IsNode(c, c.receiver, c.sender, << >>, c.linger, c.time_since_last_segment, c.active)
    /\ c.linger \in BOOLEAN /\ c.active \in BOOLEAN
    /\ Stands(f, c.sender) /\ c.sender.segments_out = << >>
    /\ Receiving(g, p.sender, c.receiver)
    /\ c.sender.recv_ackno <= Rcvd(p.receiver)
    /\ Status(f, c.receiver, c.sender, c.active)
    /\ c.linger = FALSE => HasAll(c.receiver)
    /\ Released(f, c.receiver, c.sender, p)

\* It has given up, as its sender has retransmitted too often.
Spent(tx) == tx.consecutive_retransmissions > MaxRetxAttempts
Dead(c) == c.active = FALSE /\ Spent(c.sender)

\* A segment that p has sent on its way to c
SegOK(f, g, p, seg) ==
    /\ Says(g, p.sender, seg)
    /\ seg.ack = TRUE => \E a \in 0 .. Rcvd(p.receiver) : seg.ackno = wrap(a, f.isn)
    /\ p.linger = FALSE /\ seg.rst = FALSE /\ seg.fin = TRUE =>
         seg.ack = TRUE /\ seg.ackno = wrap(Limit(f), f.isn)

\* What a call has made of the receiver, the sender and the linger flag of c
Moved(f, g, c, p, rx, tx, l) ==
    /\ Stands(f, tx) /\ Follows(c.sender, tx) /\ tx.recv_ackno <= Rcvd(p.receiver)
    /\ Receiving(g, p.sender, rx) /\ Grows(c.receiver, rx)
    /\ l \in BOOLEAN
    /\ l = FALSE => HasAll(rx) /\ (c.linger = FALSE \/ c.sender.set_fin = FALSE)
    /\ Released(f, rx, tx, p)
    /\ Dead(c) => Spent(tx)

\* The connection d that a call leaves, with the segments it has queued; it was reset
\* by its peer if b is TRUE.
CallOK(f, g, c, p, d, b) ==
    /\ Moved(f, g, c, p, d.receiver, d.sender, d.linger)
    /\ IsNode(d, d.receiver, d.sender, d.segments_out, d.linger, d.time_since_last_segment,
              d.active)
    /\ d.active \in BOOLEAN /\ d.sender.segments_out = << >>
    /\ Status(f, d.receiver, d.sender, d.active)
    /\ stream_out(d.receiver).error = TRUE =>
         stream_out(c.receiver).error = TRUE \/ b = TRUE \/ Dead(d)
    /\ Dead(c) => Dead(d)
    /\ \E r \in BOOLEAN : /\ Queued(f, d.sender, d.receiver, d.segments_out, r)
                          /\ r = TRUE => Dead(d)

Both(f, g, c, p) ==
    IsOutgoing(f) /\ IsOutgoing(g) /\ SideOK(f, g, c, p) /\ SideOK(g, f, p, c)

\* write, and end_input_stream if b is TRUE
Extended(f, g, c, p, d, b) ==
    /\ CallOK(f, g, c, p, d, FALSE) /\ d.receiver = c.receiver
    /\ c.sender.stream.written <= d.sender.stream.written /\ d.sender.stream.input_end = b
    /\ b = TRUE => d.sender.stream.written = c.sender.stream.written

\* The call ends with the segments that were queued on their way.
Answers(f, g, c, p, d, b) == CallOK(f, g, c, p, d, b) /\ SameInput(c.sender, d.sender)

\* d is c after a call that queues nothing.
Quietly(f, g, c, p, d) ==
    /\ CallOK(f, g, c, p, d, FALSE) /\ SameInput(c.sender, d.sender)
    /\ d.segments_out = << >>

\* u is d after its owner has taken the segments.
Leaves(d, u) ==
    IsNode(u, d.receiver, d.sender, << >>, d.linger, d.time_since_last_segment, d.active)

\* Each of the segments says nothing wrong of u, which has sent it.
Departs(f, g, s, u) ==
    \A j \in 1 .. Len(s) : SegOK(g, f, u, s[j]) /\ (s[j].rst = TRUE => Dead(u))

\* A new connection; f and g are the flows it sends and receives over.
NewNode(f, g, cap, c) ==
    IsNode(c, new_TCPReceiver(g.capacity), new_TCPSender(cap, f.rto, f.isn), << >>, TRUE, 0, TRUE)

-------------------------------------------------------------------------------
(***************************************************************************)
(* What the lemmas about connections and about the pair rely on in a flow  *)
(* and in the sender of it.                                                *)
(***************************************************************************)
\* The bytes of an outgoing flow are those of a flow.
FlowRule ==
    \A flow :
      IsOutgoing(flow)
      => IsFlow(flow)

\* What a sender between two calls knows of its numbers
StandingRule ==
    \A flow, t :
      IsOutgoing(flow) /\ Stands(flow, t)
      => Stood(flow, t)

\* A piece of the stream has its length and the bytes of the stream.
PieceRule ==
    \A flow : \A i, n \in Nat :
      IsFlow(flow) /\ i + n <= Len(flow.stream)
      => /\ Bytes(flow, i, n) \in Seq(flow.byte)
         /\ Len(Bytes(flow, i, n)) = n
         /\ \A j \in 1 .. n : Bytes(flow, i, n)[j] = flow.stream[i + j]

\* Two pieces of the stream, one after the other
JoinRule ==
    \A flow : \A i, n, p \in Nat :
      IsFlow(flow) /\ i + n + p <= Len(flow.stream)
      => Bytes(flow, i, n) \o Bytes(flow, i + n, p) = Bytes(flow, i, n + p)

\* A piece without bytes
NoBytesRule ==
    \A flow : \A i \in Nat :
      IsFlow(flow)
      => Bytes(flow, i, 0) = << >>

-------------------------------------------------------------------------------
(***************************************************************************)
(* What a connection relies on in its sender and its reassembler: one rule *)
(* for each thing it needs to know of them. SenderLemmas and               *)
(* ReassemblerLemmas prove what the rules say; the lemmas about a          *)
(* connection use no more than these rules, and so do not depend on how    *)
(* the two components keep them.                                           *)
(***************************************************************************)
\* The numbers of one stream span less than half of the sequence space.
SpaceRule ==
    \A flow :
      IsOutgoing(flow)
      => /\ SeqMod \in Nat /\ HalfMod \in Nat /\ SizeMax \in Nat /\ Limit(flow) \in Nat
         /\ flow.isn \in Nat /\ SeqMod = HalfMod + HalfMod /\ flow.isn < SeqMod
         /\ Limit(flow) < HalfMod /\ SeqMod + SeqMod <= SizeMax
         /\ Limit(flow) = Len(flow.stream) + 2 /\ Len(flow.stream) \in Nat
         /\ flow.rto \in Nat /\ flow.windows \subseteq Nat /\ flow.isn \in WrappingInt32
         /\ flow.stream \in Seq(flow.byte)

\* A number of the flow is found again from its wrapped form.
WrapRule ==
    \A flow : \A n \in Nat :
      IsOutgoing(flow) /\ n < SeqMod
      => /\ wrap(n, flow.isn) \in WrappingInt32
         /\ (wrap(n, flow.isn) - flow.isn) % SeqMod = n

\* The numbers a sender has used stay within the limit.
LimitRule ==
    \A flow, t, e :
      IsOutgoing(flow) /\ Ready(flow, t, e)
      => t.next_seqno \in Nat /\ t.next_seqno <= Limit(flow)

\* One call after another
FollowingRule ==
    \A flow, t, u, v :
      /\ IsOutgoing(flow) /\ Stands(flow, t) /\ Stands(flow, u) /\ Stands(flow, v)
      /\ Follows(t, u) /\ Follows(u, v)
      => Follows(t, v)

\* Two calls, in neither of which the application is at work
ProceedingRule ==
    \A flow, t, u, v :
      /\ IsOutgoing(flow) /\ Stands(flow, t) /\ Proceeds(flow, t, u)
      /\ Proceeds(flow, u, v)
      => Proceeds(flow, t, v)

\* fill_window
FillRule ==
    \A flow, t :
      IsOutgoing(flow) /\ Stands(flow, t)
      => /\ Proceeds(flow, t, fill_window(t))
         /\ fill_window(t).recv_ackno = t.recv_ackno
         /\ fill_window(t).consecutive_retransmissions = t.consecutive_retransmissions

\* send_empty_segment
AnswerRule ==
    \A flow, t :
      IsOutgoing(flow) /\ Stands(flow, t)
      => Proceeds(flow, t, send_empty_segment(t)) /\ send_empty_segment(t).recv_ackno = t.recv_ackno

\* tick
TickRule ==
    \A flow, t : \A ms \in Nat :
      IsOutgoing(flow) /\ Stands(flow, t)
      => /\ Proceeds(flow, t, sender_tick(t, ms)) /\ sender_tick(t, ms).recv_ackno = t.recv_ackno
         /\ CountsUp(t, sender_tick(t, ms))

\* The connection empties segments_out.
TakeRule ==
    \A flow, t :
      IsOutgoing(flow) /\ Stands(flow, t)
      => LET u == [t EXCEPT !.segments_out = << >>]
         IN  /\ Proceeds(flow, t, u) /\ SameNumbers(t, u) /\ u.stream = t.stream
             /\ u.segments_out = << >>
             /\ u.consecutive_retransmissions = t.consecutive_retransmissions

\* ack_received, for an acknowledgment of a
AckRule ==
    \A flow, t : \A a \in Nat : \A win \in flow.windows :
      IsOutgoing(flow) /\ Stands(flow, t) /\ a < SeqMod
      => Acknowledges(flow, t, a, ack_received(t, wrap(a, flow.isn), win))

\* The application writes n bytes, and fill_window follows.
WriteRule ==
    \A flow, t : \A n \in Nat :
      /\ IsOutgoing(flow) /\ Stands(flow, t) /\ t.stream.input_end = FALSE
      /\ t.stream.written + n <= Len(flow.stream)
      => Extends(flow, t, fill_window([t EXCEPT !.stream =
                            stream_write(@, Bytes(flow, t.stream.written, n))]), FALSE)

\* The application ends its stream, and fill_window follows.
EndRule ==
    \A flow, t :
      /\ IsOutgoing(flow) /\ Stands(flow, t) /\ t.stream.input_end = FALSE
      /\ t.stream.written = Len(flow.stream)
      => Extends(flow, t, fill_window([t EXCEPT !.stream = end_input(@)]), TRUE)

\* set_shutdown sets the error flag of the sender's stream.
SenderErrorRule ==
    \A flow, t :
      IsOutgoing(flow) /\ Stands(flow, t)
      => LET u == [t EXCEPT !.stream = set_error(@)]
         IN  /\ Proceeds(flow, t, u) /\ SameNumbers(t, u) /\ u.segments_out = t.segments_out
             /\ u.consecutive_retransmissions = t.consecutive_retransmissions

\* The constructor of the sender
NewSenderRule ==
    \A flow : \A capacity \in Nat :
      IsOutgoing(flow)
      => LET t == new_TCPSender(capacity, flow.rto, flow.isn)
         IN  /\ Stands(flow, t) /\ t.segments_out = << >>
             /\ t.stream = new_ByteStream(capacity) /\ t.recv_ackno = 0
             /\ t.set_syn = FALSE

\* The fields that say what has been received do not change what is sent.
StampRule ==
    \A flow, t, seg : \A p \in Segs(flow) :
      Stamped(seg, p) /\ Says(flow, t, seg)
      => Says(flow, t, p)

\* A segment on its way stays one when its sender goes on.
SayingRule ==
    \A flow, t, u, seg :
      /\ IsOutgoing(flow) /\ Stands(flow, t) /\ Stands(flow, u) /\ Follows(t, u)
      /\ Says(flow, t, seg)
      => Says(flow, u, seg)

\* The receiver finds the bytes of a segment at their place.
PlaceRule ==
    \A flow, t, seg :
      IsOutgoing(flow) /\ Stands(flow, t) /\ Sent(flow, t, seg)
      => /\ \E i, k \in Nat : FallsAt(flow, t, seg, i, k) /\ IndexedAt(flow, seg, i)
         /\ seg.syn = TRUE => seg.seqno = flow.isn

\* An answer may be found at any place; it has no bytes.
AnswerPlaceRule ==
    \A flow, seg : \A c \in Nat :
      IsOutgoing(flow) /\ Answer(flow, seg) /\ c <= Limit(flow)
      => IndexFrom(flow.isn, seg, c) \in Nat

\* The segment that send_rst_segment sends
RstRule ==
    \A flow, t, u :
      IsOutgoing(flow) /\ Stands(flow, t)
      => Says(flow, u, [EmptySegment(wrap(t.next_seqno, t.isn)) EXCEPT !.rst = TRUE])

\* What a reassembler between two calls has put into its output
OutputRule ==
    \A flow, r, fin : \A n \in 0 .. Len(flow.stream) :
      IsFlow(flow) /\ Assembling(flow, n, r, fin)
      => Assembled(flow, n, r, fin)

\* The constructor of the reassembler
NewReassemblerRule ==
    \A flow, fin :
      IsFlow(flow)
      => /\ Assembling(flow, 0, new_StreamReassembler(flow.capacity), fin)
         /\ new_StreamReassembler(flow.capacity).output = new_ByteStream(flow.capacity)
         /\ new_StreamReassembler(flow.capacity).eof_index = SizeMax

\* Of the n bytes that were sent, k lie at i, and the end after them if eof says so.
Holds(n, fin, i, k, eof) ==
    i + k <= n /\ eof \in BOOLEAN /\ (eof = TRUE => fin = TRUE /\ i + k = n)

Feeds(flow, n, r, fin, q, eof) == Assembling(flow, n, q, fin) /\ Fed(r, q, eof)

\* push_substring for a segment of the flow: bytes of it, and its end if that was sent
PushRule ==
    \A flow, r, fin, eof : \A n \in 0 .. Len(flow.stream) : \A i, k \in Nat :
      IsFlow(flow) /\ Assembling(flow, n, r, fin) /\ Holds(n, fin, i, k, eof)
      => Feeds(flow, n, r, fin, push_substring(r, Bytes(flow, i, k), i, eof), eof)

\* push_substring for a segment without bytes, whatever its number
PushNothingRule ==
    \A flow, r, fin : \A n \in 0 .. Len(flow.stream) : \A i \in Nat :
      IsFlow(flow) /\ Assembling(flow, n, r, fin)
      => Feeds(flow, n, r, fin, push_substring(r, << >>, i, FALSE), FALSE)

\* The peer sends more, unless it has sent the end.
MoreRule ==
    \A flow, m, r, fin, over : \A n \in 0 .. Len(flow.stream) :
      IsFlow(flow) /\ Assembling(flow, m, r, fin) /\ SendsMore(m, fin, n, over)
      => Assembling(flow, n, r, over)

\* The application reads k bytes.
ReadRule ==
    \A flow, r, fin : \A n \in 0 .. Len(flow.stream) : \A k \in 1 .. buffer_size(r.output) :
      IsFlow(flow) /\ Assembling(flow, n, r, fin)
      => Remains(flow, n, r, fin, [r EXCEPT !.output = pop_output(@, k)], r.output.error)

\* set_shutdown sets the error flag of the output.
OutputErrorRule ==
    \A flow, r, fin : \A n \in 0 .. Len(flow.stream) :
      IsFlow(flow) /\ Assembling(flow, n, r, fin)
      => Remains(flow, n, r, fin, [r EXCEPT !.output = set_error(@)], TRUE)

\* Everything a connection relies on
Rules ==
    /\ SpaceRule /\ FlowRule /\ WrapRule /\ LimitRule /\ StandingRule /\ FollowingRule
    /\ ProceedingRule /\ FillRule /\ AnswerRule /\ TickRule /\ TakeRule /\ AckRule
    /\ WriteRule /\ EndRule /\ SenderErrorRule /\ NewSenderRule /\ StampRule
    /\ SayingRule /\ PlaceRule /\ AnswerPlaceRule /\ RstRule /\ PieceRule /\ JoinRule
    /\ NoBytesRule /\ OutputRule /\ NewReassemblerRule /\ PushRule /\ PushNothingRule
    /\ MoreRule /\ ReadRule /\ OutputErrorRule

-------------------------------------------------------------------------------
(***************************************************************************)
(* What the pair relies on in its connections: one rule for each call, and *)
(* what a call leaves for the two ends and the segments between them.      *)
(* ConnectionLemmas proves what the rules say.                             *)
(***************************************************************************)
\* A receiver is never ahead of the sender.
NumbersRule ==
    \A flow, t, rx :
      IsOutgoing(flow) /\ Stands(flow, t) /\ Receiving(flow, t, rx)
      => Behind(flow, t, rx) /\ Assembled(flow, t.stream.read, rx.reassembler, t.set_fin)

\* Two new connections have nothing on their way.
NewSideRule ==
    \A f, g, c, p : \A cap \in Nat :
      IsOutgoing(f) /\ IsOutgoing(g) /\ NewNode(f, g, cap, c) /\ NewNode(g, f, cap, p)
      => SideOK(f, g, c, p) /\ stream_out(c.receiver).error = FALSE

\* Nothing is called.
IdleRule ==
    \A f, g, c, p :
      Both(f, g, c, p)
      => CallOK(f, g, c, p, c, FALSE)

\* connect
ConnectRule ==
    \A f, g, c, p :
      Both(f, g, c, p)
      => CallOK(f, g, c, p, connect(c), FALSE) /\ SameInput(c.sender, connect(c).sender)

\* write
ConnectionWriteRule ==
    \A f, g, c, p : \A n \in Nat :
      /\ Both(f, g, c, p) /\ c.active = TRUE /\ c.sender.stream.input_end = FALSE
      /\ c.sender.stream.written + n <= Len(f.stream)
      => Extended(f, g, c, p, connection_write(c, Bytes(f, c.sender.stream.written, n)), FALSE)

\* end_input_stream
EndInputRule ==
    \A f, g, c, p :
      /\ Both(f, g, c, p) /\ c.active = TRUE /\ c.sender.stream.input_end = FALSE
      /\ c.sender.stream.written = Len(f.stream)
      => Extended(f, g, c, p, end_input_stream(c), TRUE)

\* tick
ConnectionTickRule ==
    \A f, g, c, p : \A ms \in Nat :
      Both(f, g, c, p)
      => CallOK(f, g, c, p, tick(c, ms), FALSE) /\ SameInput(c.sender, tick(c, ms).sender)

\* segment_received
SegmentRule ==
    \A f, g, c, p, seg :
      Both(f, g, c, p) /\ f.windows = Nat /\ SegOK(f, g, p, seg)
      => Answers(f, g, c, p, segment_received(c, seg), seg.rst)

\* The application reads.
ConnectionReadRule ==
    \A f, g, c, p : \A n \in 1 .. buffer_size(stream_out(c.receiver)) :
      Both(f, g, c, p)
      => Quietly(f, g, c, p, [c EXCEPT !.receiver.reassembler.output = pop_output(@, n)])

\* After a call the two ends are as they should be.
KeepRule ==
    \A f, g, c, p, d, b, u :
      Both(f, g, c, p) /\ CallOK(f, g, c, p, d, b) /\ Leaves(d, u)
      => Both(f, g, u, p)

\* A segment that c has sent before the call says nothing wrong after it.
KeepSegmentRule ==
    \A f, g, c, p, d, b, u, seg :
      Both(f, g, c, p) /\ CallOK(f, g, c, p, d, b) /\ Leaves(d, u) /\ SegOK(g, f, c, seg)
      => SegOK(g, f, u, seg)

\* The segments that the call has queued say nothing wrong either.
QueuedRule ==
    \A f, g, c, p, d, b, u :
      Both(f, g, c, p) /\ CallOK(f, g, c, p, d, b) /\ Leaves(d, u)
      => Departs(f, g, d.segments_out, u)

\* Everything the pair relies on
Contract ==
    /\ FlowRule /\ StandingRule /\ PieceRule /\ JoinRule /\ NoBytesRule
    /\ NumbersRule /\ NewSideRule /\ IdleRule /\ ConnectRule /\ ConnectionWriteRule
    /\ EndInputRule /\ ConnectionTickRule /\ SegmentRule /\ ConnectionReadRule
    /\ KeepRule /\ KeepSegmentRule /\ QueuedRule
===============================================================================
