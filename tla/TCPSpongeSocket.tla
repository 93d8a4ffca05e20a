---------------------------- MODULE TCPSpongeSocket ----------------------------
(***************************************************************************)
(* tcp_helpers/tcp_sponge_socket.{hh,cc}: the thread that runs a           *)
(* TCPConnection, as a record.  Its event loop has four rules, which move  *)
(* segments and bytes between the datagram adapter, the connection and one *)
(* end of a socket pair; the owner of the socket has the other end.        *)
(***************************************************************************)
EXTENDS TCPState, FdAdapter

CONSTANT MaxCopy         \* the most rule 3 writes at once: 65536 in the build

\* `call` is connect or listen_and_accept, which run the loop themselves until the
\* connection is established; `phase` goes from there to main (the thread runs),
\* exiting (the loop is left) and done.
new_TCPSpongeSocket(call, connection, adapter) ==
    [tcp |-> IF call = "connect" THEN connect(connection) ELSE connection,
     adapter |-> adapter, call |-> call, phase |-> call,
     data_eof |-> FALSE,             \* _thread_data.eof()
     inbound_shutdown |-> FALSE, outbound_shutdown |-> FALSE,
     elapsed |-> 0,                  \* the time since base_time, as far as it matters
     rules |-> <<1, 2, 3, 4>>, todo |-> << >>]

inbound_stream(t) == stream_out(t.tcp.receiver)
remaining_outbound_capacity(t) == remaining_capacity(t.tcp.sender.stream)

\* connect() goes over UDP and listen_and_accept() over IPv4, so that both adapters
\* are used.
adapter_read(t, dgram) ==
    IF t.call = "connect" THEN udp_read(t.adapter, dgram) ELSE unwrap_tcp_in_ip(t.adapter, dgram)

adapter_after_read(t, dgram) ==
    IF t.call = "connect" THEN udp_after_read(t.adapter, dgram) ELSE after_unwrap(t.adapter, dgram)

adapter_write(t, seg) ==
    IF t.call = "connect" THEN udp_write(t.adapter, seg) ELSE wrap_tcp_in_ip(t.adapter, seg)

-------------------------------------------------------------------------------
\* The rules of _initialize_TCP

rule_interest(t, r) ==
    CASE r = 1 -> t.tcp.active
      [] r = 2 -> t.tcp.active /\ ~t.outbound_shutdown /\ remaining_outbound_capacity(t) > 0
      [] r = 3 -> \/ inbound_stream(t).buffer # << >>
                  \/ /\ stream_eof(inbound_stream(t)) \/ inbound_stream(t).error
                     /\ ~t.inbound_shutdown
      [] r = 4 -> t.tcp.segments_out # << >>

rule_defunct(t, r) == r = 2 /\ t.data_eof

finish_outbound(t) ==
    [t EXCEPT !.tcp = end_input_stream(@), !.outbound_shutdown = TRUE]

rule_cancel(t, r) == IF r = 2 THEN finish_outbound(t) ELSE t

rule_1(t, dgram) ==
    LET read == adapter_read(t, dgram)
    IN  [t EXCEPT !.adapter = adapter_after_read(t, dgram),
                  !.tcp = IF read = {} THEN @
                          ELSE segment_received(@, CHOOSE seg \in read : TRUE)]

\* `data` was read from the pair; it is empty at its end, unless nothing was asked for.
rule_2(t, data) ==
    LET written == [t EXCEPT !.tcp = connection_write(@, data),
                             !.data_eof = @ \/ (data = << >> /\ remaining_outbound_capacity(t) > 0)]
    IN  IF written.data_eof THEN finish_outbound(written) ELSE written

accepts_less(t, data) == bytes_accepted(t.tcp.sender.stream, data) # Len(data)

rule_3_data(t) == peek_output(inbound_stream(t), MaxCopy)

\* Variant: all that was offered is popped, though the pair took only n bytes.
rule_3_pops_all(t, n) ==
    LET popped == [t EXCEPT !.tcp.receiver.reassembler.output = pop_output(@, Len(rule_3_data(t)))]
    IN  [popped EXCEPT !.inbound_shutdown =
            @ \/ stream_eof(inbound_stream(popped)) \/ inbound_stream(popped).error]

\* The pair took n bytes of rule_3_data; at the end of the stream rule 3 also shuts
\* the pair down.
rule_3(t, n) ==
    LET popped == [t EXCEPT !.tcp.receiver.reassembler.output = pop_output(@, n)]
    IN  [popped EXCEPT !.inbound_shutdown =
            @ \/ stream_eof(inbound_stream(popped)) \/ inbound_stream(popped).error]

rule_3_shuts(t, n) == rule_3(t, n).inbound_shutdown

rule_4(t) == [t EXCEPT !.tcp.segments_out = << >>]

-------------------------------------------------------------------------------
\* The loop's condition while connecting
still_opening(t) ==
    CASE t.phase = "connect" -> in_state(t.tcp, {"SYN_SENT"})
      [] t.phase = "listen_and_accept" -> in_state(t.tcp, {"LISTEN", "SYN_RCVD", "SYN_SENT"})
      [] OTHER -> TRUE

\* The rest of a turn of _tcp_loop after wait_next_event returned: leave the loop
\* on Exit or when the owner asked for it, tick, and test the condition.
leave_loop(t) ==
    [t EXCEPT !.phase = IF @ = "main" THEN "exiting" ELSE "main"]

\* Variant: a connection is ticked only while the owner may still write.
ticked_half_open(t) ==
    [t EXCEPT !.tcp = IF @.active /\ ~t.outbound_shutdown THEN tick(@, t.elapsed) ELSE @,
              !.elapsed = 0]

ticked(t) ==
    [t EXCEPT !.tcp = IF @.active THEN tick(@, t.elapsed) ELSE @, !.elapsed = 0]

turn(t, abort) ==
    IF abort THEN leave_loop(t)
    ELSE LET u == ticked(t)
         IN  IF still_opening(u) THEN u ELSE leave_loop(u)

\* _tcp.reset() runs the destructor of an active connection, which queues a RST.
destroyed(t) ==
    [t EXCEPT !.phase = "done",
              !.tcp = IF @.active THEN send_rst_segment(set_shutdown(@, FALSE)) ELSE @]
===============================================================================
