------------------------------- MODULE MCSocket -------------------------------
EXTENDS SocketSystem

CONSTANTS NTyped, NSent

MCTyped == [i \in 1 .. NTyped |-> i]
MCSent == [i \in 1 .. NSent |-> 10 + i]
MCHere == Address("a", 1)
MCThere == Address("b", 2)

\* An acknowledgement of some other connection, from the peer's host
Other == [EmptySegment(0) EXCEPT !.ack = TRUE]
MCStrays ==
    [connect |-> {<< >>,
        <<[source_address |-> Address("b", 3), destination |-> MCHere, payload |-> Other]>>},
     listen_and_accept |-> {<< >>,
        <<[src |-> "b", dst |-> "a", proto |-> "TCP",
           payload |-> [sport |-> 3, dport |-> 1, seg |-> Other]]>>}]
===============================================================================
