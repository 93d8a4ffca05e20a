------------------------------- MODULE TCPState -------------------------------
(***************************************************************************)
(* tcp_helpers/tcp_state.{hh,cc}: the state of a connection in the terms   *)
(* of the TCP standard.                                                    *)
(***************************************************************************)
EXTENDS TCPConnection

State(sender, receiver, active, linger) ==
    [sender |-> sender, receiver |-> receiver, active |-> active, linger |-> linger]

\* TCPState(State)
TCPStates ==
    [LISTEN      |-> State("CLOSED", "LISTEN", TRUE, TRUE),
     SYN_RCVD    |-> State("SYN_SENT", "SYN_RECV", TRUE, TRUE),
     SYN_SENT    |-> State("SYN_SENT", "LISTEN", TRUE, TRUE),
     ESTABLISHED |-> State("SYN_ACKED", "SYN_RECV", TRUE, TRUE),
     CLOSE_WAIT  |-> State("SYN_ACKED", "FIN_RECV", TRUE, FALSE),
     LAST_ACK    |-> State("FIN_SENT", "FIN_RECV", TRUE, FALSE),
     CLOSING     |-> State("FIN_SENT", "FIN_RECV", TRUE, TRUE),
     FIN_WAIT_1  |-> State("FIN_SENT", "SYN_RECV", TRUE, TRUE),
     FIN_WAIT_2  |-> State("FIN_ACKED", "SYN_RECV", TRUE, TRUE),
     TIME_WAIT   |-> State("FIN_ACKED", "FIN_RECV", TRUE, TRUE),
     RESET       |-> State("ERROR", "ERROR", FALSE, FALSE),
     CLOSED      |-> State("FIN_ACKED", "FIN_RECV", FALSE, FALSE)]

\* TCPConnection::state()
state(c) ==
    State(sender_summary(c.sender), receiver_summary(c.receiver),
          c.active, c.active /\ c.linger)

in_state(c, names) == \E name \in names : state(c) = TCPStates[name]
===============================================================================
