--------------------------- MODULE ReliableStreams ---------------------------
(***************************************************************************)
(* What a TCP connection promises its two applications, without segments,  *)
(* windows or timers: each end has a stream of bytes that it writes and    *)
(* closes, of which the other end is handed a growing prefix, and the end  *)
(* of it once there is nothing more to come.                               *)
(***************************************************************************)
EXTENDS Naturals, Sequences

CONSTANTS
    Byte,            \* what the streams are made of
    Ends,            \* the ends of the connection
    Peer(_)          \* Peer(e): the other end

VARIABLES
    written,         \* written[e]: what the application at e has written
    closed,          \* closed[e]: whether it has ended its stream
    delivered,       \* delivered[e]: what has been put out for it to read
    finished         \* finished[e]: whether it is told that there is no more

vars == <<written, closed, delivered, finished>>

Prefix(s, t) == Len(s) <= Len(t) /\ \A i \in 1 .. Len(s) : s[i] = t[i]

Init ==
    /\ written = [e \in Ends |-> << >>] /\ delivered = [e \in Ends |-> << >>]
    /\ closed = [e \in Ends |-> FALSE] /\ finished = [e \in Ends |-> FALSE]

Write(e) ==
    /\ ~closed[e]
    /\ written'[e] \in Seq(Byte) /\ Prefix(written[e], written'[e])
    /\ written' = [written EXCEPT ![e] = written'[e]]
    /\ UNCHANGED <<closed, delivered, finished>>

Close(e) ==
    /\ closed' = [closed EXCEPT ![e] = TRUE]
    /\ UNCHANGED <<written, delivered, finished>>

Deliver(e) ==
    /\ ~finished[e]
    /\ delivered'[e] \in Seq(Byte)
    /\ Prefix(delivered[e], delivered'[e]) /\ Prefix(delivered'[e], written[Peer(e)])
    /\ delivered' = [delivered EXCEPT ![e] = delivered'[e]]
    /\ \/ UNCHANGED finished
       \/ /\ closed[Peer(e)] /\ delivered'[e] = written[Peer(e)]
          /\ finished' = [finished EXCEPT ![e] = TRUE]
    /\ UNCHANGED <<written, closed>>

Next == \E e \in Ends : Write(e) \/ Close(e) \/ Deliver(e)

Spec == Init /\ [][Next]_vars

\* What is delivered is always the beginning of what the peer wrote, and all of it
\* when the end has been delivered too.
Faithful ==
    \A e \in Ends :
        /\ Prefix(delivered[e], written[Peer(e)])
        /\ finished[e] => closed[Peer(e)] /\ delivered[e] = written[Peer(e)]
===============================================================================
