-------------------------------- MODULE TCPPair --------------------------------
(***************************************************************************)
(* Two TCPConnections driven as by main_loop of apps/tcp_benchmark.cc,     *)
(* whose steps are taken in any order here, with a network between them    *)
(* that may lose, reorder, delay and duplicate segments.  The client       *)
(* connects, the server listens; both applications write a stream, end it, *)
(* and read what they are sent.  Each action is one call into a            *)
(* TCPConnection followed by its owner passing the queued segments to the  *)
(* network.                                                                *)
(***************************************************************************)
EXTENDS TCPConnection

CONSTANTS
    Stream,          \* Stream[e]: the bytes the application at e writes
    SendCapacity,    \* TCPConfig::send_capacity
    RecvCapacity,    \* TCPConfig::recv_capacity
    Isn,             \* Isn[e]: the initial sequence number of e
    NetCapacity,     \* bound: segments under way in one direction
    MaxRetx,         \* bound: retransmissions in a row after which time stops at an end
    MaxFaults        \* bound: faults of the network in a behaviour

Ends == {"client", "server"}
Peer(e) == IF e = "client" THEN "server" ELSE "client"

\* What a sequence holds, and what the two streams are made of
Elements(s) == {s[j] : j \in 1 .. Len(s)}
Byte == UNION {Elements(Stream[e]) : e \in Ends}

ASSUME PairAssumption ==
    /\ Stream \in [Ends -> Seq(Byte)]
    /\ SendCapacity \in Nat \ {0} /\ RecvCapacity \in Nat \ {0}
    /\ Isn \in [Ends -> WrappingInt32]
    /\ \A e \in Ends : 4 * (Len(Stream[e]) + 2 + RecvCapacity) < SeqMod
    /\ 2 * SeqMod <= SizeMax

VARIABLES
    conn,            \* conn[e]: the TCPConnection of e
    net,             \* net[e]: the segments on their way to e
    faults           \* how many segments have been lost or duplicated, and how
                     \* often time has passed with segments still under way

vars == <<conn, net, faults>>

Slice(e, i, n) == SubSeq(Stream[e], i + 1, i + n)

\* A call made connection c of end e; its owner hands the segments it queued to
\* the network, which had `others` on the way to e.
Called(e, c, others) ==
    /\ conn' = [conn EXCEPT ![e] = [c EXCEPT !.segments_out = << >>]]
    /\ net' = [net EXCEPT ![e] = others,
                          ![Peer(e)] = @ \cup Elements(c.segments_out)]
    /\ Cardinality(net'[Peer(e)]) <= NetCapacity

Init ==
    /\ conn = [e \in Ends |-> new_TCPConnection(SendCapacity, RecvCapacity, Isn[e])]
    /\ net = [e \in Ends |-> {}]
    /\ faults = 0

Connect ==
    /\ conn["client"].sender.next_seqno = 0
    /\ Called("client", connect(conn["client"]), net["client"])
    /\ UNCHANGED faults

\* The owner writes to an active connection that has been opened.
Opened(e) == conn[e].active /\ conn[e].sender.next_seqno > 0

Write(e, n) ==
    LET s == conn[e].sender.stream
    IN  /\ Opened(e) /\ ~s.input_end
        /\ n <= remaining_capacity(s)
        /\ s.written + n <= Len(Stream[e])
        /\ Called(e, connection_write(conn[e], Slice(e, s.written, n)), net[e])
        /\ UNCHANGED faults

\* As in main_loop, the server may end its stream before its connection is opened:
\* fill_window then sends a SYN, which crosses that of the client.
EndInput(e) ==
    /\ conn[e].active /\ (e = "client" => Opened(e))
    /\ ~conn[e].sender.stream.input_end
    /\ conn[e].sender.stream.written = Len(Stream[e])
    /\ Called(e, end_input_stream(conn[e]), net[e])
    /\ UNCHANGED faults

Read(e, n) ==
    LET s == stream_out(conn[e].receiver)
    IN  /\ n \in 1 .. buffer_size(s)
        /\ conn' = [conn EXCEPT ![e].receiver.reassembler.output = pop_output(@, n)]
        /\ UNCHANGED <<net, faults>>

\* Time passes at e.  A tick with segments still under way, which may make the
\* timer of e expire before the answer it waits for arrives, counts as a fault.
Quiet == \A e \in Ends : net[e] = {}

Tick(e, ms) ==
    /\ conn[e].sender.consecutive_retransmissions <= MaxRetx
    /\ Quiet \/ faults < MaxFaults
    /\ Called(e, tick(conn[e], ms), net[e])
    /\ faults' = IF Quiet THEN faults ELSE faults + 1

\* The network loses a segment, or makes a second copy of it: a copy stays when
\* the segment is delivered.
Lose(e, seg) ==
    /\ faults < MaxFaults
    /\ net' = [net EXCEPT ![e] = @ \ {seg}]
    /\ faults' = faults + 1
    /\ UNCHANGED conn

Deliver(e, seg) ==
    /\ Called(e, segment_received(conn[e], seg), net[e] \ {seg})
    /\ UNCHANGED faults

DeliverCopy(e, seg) ==
    /\ faults < MaxFaults
    /\ Called(e, segment_received(conn[e], seg), net[e])
    /\ faults' = faults + 1

Next ==
    \/ Connect
    \/ \E e \in Ends :
         \/ \E n \in 1 .. SendCapacity : Write(e, n)
         \/ EndInput(e)
         \/ \E n \in 1 .. RecvCapacity : Read(e, n)
         \/ Tick(e, 1)
         \/ \E seg \in net[e] : Lose(e, seg) \/ Deliver(e, seg) \/ DeliverCopy(e, seg)

Spec == Init /\ [][Next]_vars
-------------------------------------------------------------------------------
(***************************************************************************)
(* Properties                                                              *)
(***************************************************************************)
Output(e) == stream_out(conn[e].receiver)
Sender(e) == conn[e].sender
InError(e) == Output(e).error
ClosedCleanly(e) == ~conn[e].active /\ ~InError(e)

\* The sequence number up to which e has received what its peer sent
Received(e) == IF has_ackno(conn[e].receiver) THEN abs_ackno(conn[e].receiver) ELSE 0

\* The streams of the two applications, as ReliableStreams has them: what has been
\* written, and what has been read or is there to be read
AppWritten == [e \in Ends |-> Slice(e, 0, Sender(e).stream.written)]
AppClosed == [e \in Ends |-> Sender(e).stream.input_end]
AppDelivered == [e \in Ends |-> Slice(Peer(e), 0, Output(e).read) \o Output(e).buffer]
AppFinished == [e \in Ends |-> Output(e).input_end]

Streams == INSTANCE ReliableStreams WITH
    written <- AppWritten, closed <- AppClosed,
    delivered <- AppDelivered, finished <- AppFinished

\* Each application is handed exactly the bytes its peer wrote, in order, nothing
\* that was handed over changes, and the end comes only when the peer has ended its
\* stream and all of it is there, whatever the network lost, repeated or reordered:
\* the two connections and the network implement ReliableStreams.
IsReliable == Streams!Spec

\* What a sender believes acknowledged has been received, and what was received
\* has been sent: no stale, repeated or misread ackno moves recv_ackno past the
\* peer's receiver.
AckHonest ==
    \A e \in Ends :
        /\ Sender(e).recv_ackno <= Received(Peer(e))
        /\ Received(Peer(e)) <= Sender(e).next_seqno

\* A segment with data on its way to e ends inside e's window, or starts no later
\* than the next byte wanted (a probe of a closed window, a retransmission): a
\* sender never makes the reassembler store a substring that starts at the end of
\* its window.
SegmentsInWindow ==
    \A e \in Ends : \A seg \in net[e] :
        LET rx == conn[e].receiver
            index == stream_index(rx, seg, rx.isn)
        IN  has_ackno(rx) /\ seg.payload # << >> =>
              \/ index + Len(seg.payload) <= unaccepted_index(rx.reassembler)
              \/ index <= rx.reassembler.unassembled_index

\* A connection that shuts down cleanly has delivered everything its application
\* wrote, and has received everything the peer's wrote.
CleanCloseIsComplete ==
    \A e \in Ends :
        ClosedCleanly(e) =>
          /\ Output(e).input_end
          /\ Output(e).written = Len(Stream[Peer(e)])
          /\ Output(Peer(e)).input_end
          /\ Output(Peer(e)).written = Len(Stream[e])

\* An end that closes without lingering is never needed again: its peer knows that
\* all it sent has arrived.
NoLingerIsSafe ==
    \A e \in Ends :
        ClosedCleanly(e) /\ ~conn[e].linger =>
          Sender(Peer(e)).set_fin /\ Sender(Peer(e)).segments_unackno = << >>

\* The streams are in error only after one of the two ends has given up
\* retransmitting: no segment of a working connection resets it.
ErrorMeansGaveUp ==
    (\E e \in Ends : InError(e)) =>
        \E e \in Ends : Sender(e).consecutive_retransmissions > MaxRetxAttempts
===============================================================================
