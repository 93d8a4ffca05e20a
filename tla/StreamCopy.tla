------------------------------ MODULE StreamCopy ------------------------------
(***************************************************************************)
(* apps/bidirectional_stream_copy.cc: an event loop of four rules, which   *)
(* copy stdin to a socket and the socket to stdout through two             *)
(* ByteStreams.                                                            *)
(***************************************************************************)
EXTENDS ByteStream

CONSTANTS
    MaxCopyLength,   \* max_copy_length
    CopyBuffer       \* buffer_size

new_StreamCopy ==
    [outbound |-> new_ByteStream(CopyBuffer), inbound |-> new_ByteStream(CopyBuffer),
     outbound_shutdown |-> FALSE, inbound_shutdown |-> FALSE,
     input_eof |-> FALSE, socket_eof |-> FALSE,
     output_closed |-> FALSE,
     rules |-> <<1, 2, 3, 4>>, todo |-> << >>, phase |-> "copy"]

copy_interest(o, r) ==
    CASE r = 1 -> ~o.outbound.error /\ remaining_capacity(o.outbound) > 0 /\ ~o.inbound.error
      [] r = 2 -> o.outbound.buffer # << >> \/ (stream_eof(o.outbound) /\ ~o.outbound_shutdown)
      [] r = 3 -> ~o.inbound.error /\ remaining_capacity(o.inbound) > 0 /\ ~o.outbound.error
      [] r = 4 -> o.inbound.buffer # << >> \/ (stream_eof(o.inbound) /\ ~o.inbound_shutdown)

copy_defunct(o, r) ==
    CASE r = 1 -> o.input_eof [] r = 2 -> FALSE [] r = 3 -> o.socket_eof [] r = 4 -> o.output_closed

copy_cancel(o, r) ==
    IF r \in {1, 2} THEN [o EXCEPT !.outbound = end_input(@)]
                    ELSE [o EXCEPT !.inbound = end_input(@)]

\* An empty read is the end of the input, unless nothing was asked for.
copy_1(o, data) ==
    IF data = << >> /\ remaining_capacity(o.outbound) > 0
      THEN [o EXCEPT !.input_eof = TRUE, !.outbound = end_input(@)]
      ELSE [o EXCEPT !.outbound = stream_write(@, data)]

copy_2_data(o) == peek_output(o.outbound, MaxCopyLength)

copy_2(o, n) ==
    LET popped == [o EXCEPT !.outbound = pop_output(@, n)]
    IN  [popped EXCEPT !.outbound_shutdown = @ \/ stream_eof(popped.outbound)]

copy_3(o, data) ==
    IF data = << >> /\ remaining_capacity(o.inbound) > 0
      THEN [o EXCEPT !.socket_eof = TRUE, !.inbound = end_input(@)]
      ELSE [o EXCEPT !.inbound = stream_write(@, data)]

copy_4_data(o) == peek_output(o.inbound, MaxCopyLength)

copy_4(o) ==
    LET popped == [o EXCEPT !.inbound = pop_output(@, Len(copy_4_data(o)))]
        ended == stream_eof(popped.inbound)
    IN  [popped EXCEPT !.output_closed = @ \/ ended, !.inbound_shutdown = @ \/ ended]
===============================================================================
