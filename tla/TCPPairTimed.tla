----------------------------- MODULE TCPPairTimed -----------------------------
(***************************************************************************)
(* The two connections of TCPPair with one clock: time passes at both ends *)
(* at once, and at its own pace only while nothing is under way.  With the *)
(* fairness below this is the setting in which a connection must complete. *)
(***************************************************************************)
EXTENDS TCPPair

\* Both owners call tick(1), each only while its connection is active, as the loop of
\* TCPSpongeSocket does.
TickAll ==
    LET ticked == [e \in Ends |-> IF conn[e].active THEN tick(conn[e], 1) ELSE conn[e]]
    IN  /\ Quiet \/ faults < MaxFaults
        /\ conn' = [e \in Ends |-> [ticked[e] EXCEPT !.segments_out = << >>]]
        /\ net' = [e \in Ends |-> net[e] \cup Elements(ticked[Peer(e)].segments_out)]
        /\ faults' = IF Quiet THEN faults ELSE faults + 1

WriteSome(e) == \E n \in 1 .. SendCapacity : Write(e, n)
ReadSome(e) == \E n \in 1 .. RecvCapacity : Read(e, n)
DeliverSome(e) == \E seg \in net[e] : Deliver(e, seg)

TimedNext ==
    \/ Connect
    \/ TickAll
    \/ \E e \in Ends :
         \/ WriteSome(e) \/ EndInput(e) \/ ReadSome(e) \/ DeliverSome(e)
         \/ \E seg \in net[e] : Lose(e, seg) \/ DeliverCopy(e, seg)

CanConnect == conn["client"].sender.next_seqno = 0
CanWrite(e) ==
    LET s == conn[e].sender.stream
    IN  /\ Opened(e) /\ ~s.input_end /\ s.written < Len(Stream[e])
        /\ remaining_capacity(s) > 0
CanEnd(e) ==
    /\ Opened(e) /\ ~conn[e].sender.stream.input_end
    /\ conn[e].sender.stream.written = Len(Stream[e])
CanRead(e) == stream_out(conn[e].receiver).buffer # << >>
TimeMatters ==
    Quiet /\ \E e \in Ends : conn[e].active /\ tick(conn[e], 1) # conn[e]

\* The event loop of each owner serves the network, the application and the clock
\* in turn (tcp_sponge_socket.cc), the applications write, end and read, and the
\* network delivers what it does not lose.  Each conjunct is the weak fairness of
\* an action, with the condition under which it changes the state given by name.
TimedFairness ==
    /\ []<>(~CanConnect) \/ []<><<Connect>>_vars
    /\ []<>(~TimeMatters) \/ []<><<TickAll>>_vars
    /\ \A e \in Ends :
         /\ []<>(~CanWrite(e)) \/ []<><<WriteSome(e)>>_vars
         /\ []<>(~CanEnd(e)) \/ []<><<EndInput(e)>>_vars
         /\ []<>(~CanRead(e)) \/ []<><<ReadSome(e)>>_vars
         /\ []<>(net[e] = {}) \/ []<><<DeliverSome(e)>>_vars

TimedSpec == Init /\ [][TimedNext]_vars /\ TimedFairness

\* With fewer faults than retransmissions allowed, both connections deliver the
\* whole of both streams to the applications and shut down cleanly: no closed
\* window, lost ACK or lost FIN leaves an end waiting, and the end that closed
\* first lingers long enough for the other to finish.
BothFinish ==
    <>(\A e \in Ends : ClosedCleanly(e) /\ Output(e).read = Len(Stream[Peer(e)]))
===============================================================================
