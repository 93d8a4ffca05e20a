----------------------------- MODULE SocketSystem -----------------------------
(***************************************************************************)
(* The program of apps/tcp_udp.cc and apps/tcp_ipv4.cc: a TCPSpongeSocket  *)
(* that connects or accepts, bidirectional_stream_copy between it and the  *)
(* user, and wait_until_closed.  Two threads share a socket pair; the      *)
(* peer is another TCPConnection, used directly, whose application reads   *)
(* at once.  Datagrams reach the peer at once, and the program after any   *)
(* time, in order, unless the lossy adapter drops them.                    *)
(***************************************************************************)
EXTENDS TCPSpongeSocket, StreamCopy, SocketPair, FiniteSets

SX == INSTANCE SequencesExt

CONSTANTS
    Typed,           \* the bytes the user types before ending the input
    Sent,            \* the bytes the peer's application sends before ending
    SendCapacity, RecvCapacity,
    Here, There,     \* the addresses of the program and of the peer
    Strays,          \* Strays[call]: the sequences of datagrams of others that may
                     \* be there first
    MaxFaults        \* bound: drops, a reset by the peer, the destruction
                     \* of the socket

VARIABLES
    thread,          \* the TCP thread (the owner itself while connecting)
    owner,           \* the owner's thread
    pair,            \* the socket pair: to_tcp and to_owner
    stdin, stdout,   \* what the user typed and is shown
    net,             \* datagrams on their way to the program
    peer,            \* the peer's TCPConnection
    faults

vars == <<thread, owner, pair, stdin, stdout, net, peer, faults>>

TL == INSTANCE EventLoop WITH Defunct <- rule_defunct, Interest <- rule_interest,
                              Cancel <- rule_cancel
OL == INSTANCE EventLoop WITH Defunct <- copy_defunct, Interest <- copy_interest,
                              Cancel <- copy_cancel

\* The peer's adapter, and what it sends to the program that makes `call`
PeerAdapter == new_adapter(There, Here, FALSE)
FromPeer(call, seg) ==
    IF call = "connect" THEN udp_write(PeerAdapter, seg) ELSE wrap_tcp_in_ip(PeerAdapter, seg)

SegmentIn(dgram, call) == IF call = "connect" THEN dgram.payload ELSE dgram.payload.seg

\* Of what the program sends, what reaches the peer
Arrives(dgram, call) ==
    IF call = "connect" THEN dgram.destination = There
    ELSE dgram.dst = There.ip /\ dgram.payload.dport = There.port

\* The peer's connection after it received each datagram and its application read
RECURSIVE PeerReceives(_, _, _)
PeerReceives(c, dgrams, call) ==
    IF dgrams = << >> THEN c
    ELSE LET d == IF Arrives(Head(dgrams), call)
                    THEN segment_received(c, SegmentIn(Head(dgrams), call)) ELSE c
         IN  PeerReceives([d EXCEPT !.receiver.reassembler.output = pop_output(@, Len(@.buffer))],
                          Tail(dgrams), call)

\* What the peer has queued is sent.
Sends(c, call) == net \o [i \in DOMAIN c.segments_out |-> FromPeer(call, c.segments_out[i])]

Init ==
    \E call \in {"connect", "listen_and_accept"} : \E strays \in Strays[call] :
        LET there == new_TCPConnection(SendCapacity, RecvCapacity, 3)
            opened == IF call = "connect" THEN there ELSE connect(there)
        IN  /\ thread = new_TCPSpongeSocket(call, new_TCPConnection(SendCapacity, RecvCapacity, SeqMod - 1),
                          IF call = "connect" THEN new_adapter(Here, There, FALSE)
                                              ELSE new_adapter(Here, Here, TRUE))
            /\ peer = [opened EXCEPT !.segments_out = << >>]
            /\ net = strays \o [i \in DOMAIN opened.segments_out |-> FromPeer(call, opened.segments_out[i])]
            /\ owner = new_StreamCopy
            /\ pair = [to_tcp |-> NewPipe, to_owner |-> NewPipe]
            /\ stdin = [NewPipe EXCEPT !.bytes = Typed] /\ stdout = << >>
            /\ faults = 0

-------------------------------------------------------------------------------
(* The TCP thread *)
Running(t) == t.phase \in {"connect", "listen_and_accept", "main"} /\ owner.phase # "killed"
Abort == owner.phase = "destroying"

\* The rules whose descriptors are ready, and those whose descriptors have hung up
ThreadReady ==
    {r \in 1 .. 4 : /\ r = 1 => net # << >>
                    /\ r = 2 => Readable(pair.to_tcp)
                    /\ r = 3 => Writable(pair.to_owner)}
ThreadHup == {r \in {2, 3} : HungUp(pair.to_tcp, pair.to_owner)}

\* wait_next_event up to the return of poll, and the rest of the turn if there is
\* nothing to call back
ThreadWait ==
    LET w == TL!waiting(thread)
        polled == TL!results(w, ThreadReady, ThreadHup)
    IN  /\ Running(thread) /\ thread.todo = << >>
        /\ \/ /\ w.asked = {}
              /\ thread' = leave_loop(w.o)
           \/ /\ w.asked # {}
              /\ TL!poll_returns(w, ThreadReady, ThreadHup) \/ thread.elapsed > 0
              /\ thread' = IF polled.todo = << >> THEN turn(polled, Abort) ELSE polled
        /\ UNCHANGED <<owner, pair, stdin, stdout, net, peer, faults>>

\* The next result to act on is that of rule r.  Of the TCP thread's rules only the
\* third can be cancelled for a hangup: the second, which reads the pair, is ready
\* then.
Due(r) == Running(thread) /\ thread.todo # << >> /\ Head(thread.todo).rule = r
Cancelled(o) == Head(o.todo).action = "cancel"

\* The rest of the turn after the last result
ThreadGoesOn(t) == thread' = IF t.todo = << >> THEN turn(t, Abort) ELSE t

\* Rule r's callback made the thread t.
ThreadBecomes(t, r, served) ==
    IF TL!busy_wait(t, r, served)
      THEN thread' = [t EXCEPT !.phase = "thrown"]
      ELSE ThreadGoesOn(TL!called_back(t))

\* _should_drop says yes n times, as far as the bound allows.
should_drop(n) == faults + n <= MaxFaults /\ faults' = faults + n

\* The lossy adapter may drop the datagram once it is read.
ThreadRule1 ==
    /\ Due(1)
    /\ \/ ThreadBecomes(rule_1(thread, Head(net)), 1, TRUE) /\ UNCHANGED faults
       \/ /\ should_drop(1)
          /\ ThreadBecomes([thread EXCEPT !.adapter = adapter_after_read(thread, Head(net))],
                           1, TRUE)
    /\ net' = Tail(net)
    /\ UNCHANGED <<owner, pair, stdin, stdout, peer>>

ThreadRule2 ==
    LET data == ReadFrom(pair.to_tcp, remaining_outbound_capacity(thread))
    IN  /\ Due(2)
        /\ IF accepts_less(thread, data)
             THEN thread' = [thread EXCEPT !.phase = "thrown"]
             ELSE ThreadBecomes(rule_2(thread, data), 2, TRUE)
        /\ pair' = [pair EXCEPT !.to_tcp = AfterRead(@, Len(data))]
        /\ UNCHANGED <<owner, stdin, stdout, net, peer, faults>>

\* Variant: rule 3 shuts both directions down.
ShutByRule3_both(written) ==
    [to_tcp |-> ShutDown(pair.to_tcp), to_owner |-> ShutDown(written)]

ShutByRule3(written) == [pair EXCEPT !.to_owner = ShutDown(written)]

ThreadRule3 ==
    LET data == rule_3_data(thread)
        n == Taken(pair.to_owner, data)
        written == AfterWrite(pair.to_owner, data)
    IN  /\ Due(3)
        /\ CASE Cancelled(thread) -> ThreadGoesOn(TL!hung_up(thread)) /\ UNCHANGED pair
             [] ~Cancelled(thread) /\ BrokenPipe(pair.to_owner, data) ->
                  thread' = [thread EXCEPT !.phase = "thrown"] /\ UNCHANGED pair
             [] OTHER ->
                  /\ ThreadBecomes(rule_3(thread, n), 3, TRUE)
                  /\ pair' = IF rule_3_shuts(thread, n) THEN ShutByRule3(written)
                             ELSE [pair EXCEPT !.to_owner = written]
        /\ UNCHANGED <<owner, stdin, stdout, net, peer, faults>>

\* Each segment is written, or dropped by the lossy adapter.
ThreadRule4 ==
    LET out == thread.tcp.segments_out
    IN  /\ Due(4)
        /\ \E dropped \in SUBSET DOMAIN out :
             LET kept == SX!SetToSortSeq(DOMAIN out \ dropped, <)
                 sent == [i \in DOMAIN kept |-> adapter_write(thread, out[kept[i]])]
             IN  /\ should_drop(Cardinality(dropped))
                 /\ LET c == PeerReceives(peer, sent, thread.call)
                    IN  /\ peer' = [c EXCEPT !.segments_out = << >>]
                        /\ net' = Sends(c, thread.call)
                 /\ ThreadBecomes(rule_4(thread), 4, kept # << >>)
        /\ UNCHANGED <<owner, pair, stdin, stdout>>

\* The end of _tcp_main
ThreadExit ==
    /\ thread.phase = "exiting" /\ owner.phase # "killed"
    /\ thread' = destroyed(thread)
    /\ pair' = [d \in DOMAIN pair |-> ShutDown(pair[d])]
    /\ UNCHANGED <<owner, stdin, stdout, net, peer, faults>>

ThreadStep ==
    ThreadWait \/ ThreadRule1 \/ ThreadRule2 \/ ThreadRule3 \/ ThreadRule4
      \/ ThreadExit
-------------------------------------------------------------------------------
(* The owner's thread *)
Copying == owner.phase = "copy" /\ thread.phase \notin {"connect", "listen_and_accept", "thrown"}

OwnerReady ==
    {r \in 1 .. 4 : /\ r = 1 => Readable(stdin)
                    /\ r = 2 => Writable(pair.to_tcp)
                    /\ r = 3 => Readable(pair.to_owner)}
OwnerHup == {r \in {2, 3} : HungUp(pair.to_tcp, pair.to_owner)}

OwnerWait ==
    LET w == OL!waiting(owner)
        polled == OL!results(w, OwnerReady, OwnerHup)
    IN  /\ Copying /\ owner.todo = << >>
        /\ \/ w.asked = {} /\ owner' = [w.o EXCEPT !.phase = "closing"]
           \/ w.asked # {} /\ OL!poll_returns(w, OwnerReady, OwnerHup) /\ owner' = polled
        /\ UNCHANGED <<thread, pair, stdin, stdout, net, peer, faults>>

OwnerHungUp ==
    /\ Copying /\ owner.todo # << >> /\ Cancelled(owner)
    /\ owner' = OL!hung_up(owner)
    /\ UNCHANGED <<thread, pair, stdin, stdout, net, peer, faults>>

OwnerDue(r) ==
    Copying /\ owner.todo # << >> /\ ~Cancelled(owner) /\ Head(owner.todo).rule = r

OwnerRule1 ==
    LET data == ReadFrom(stdin, remaining_capacity(owner.outbound))
    IN  /\ OwnerDue(1)
        /\ owner' = OL!called_back(copy_1(owner, data))
        /\ stdin' = AfterRead(stdin, Len(data))
        /\ UNCHANGED <<thread, pair, stdout, net, peer, faults>>

\* Writing to a pair that the TCP thread has shut down raises SIGPIPE.
OwnerRule2 ==
    LET data == copy_2_data(owner)
        o == copy_2(owner, Taken(pair.to_tcp, data))
        written == AfterWrite(pair.to_tcp, data)
    IN  /\ OwnerDue(2)
        /\ IF BrokenPipe(pair.to_tcp, data)
             THEN owner' = [owner EXCEPT !.phase = "killed"] /\ UNCHANGED pair
             ELSE /\ owner' = OL!called_back(o)
                  /\ pair' = [pair EXCEPT !.to_tcp =
                       IF o.outbound_shutdown THEN ShutDown(written) ELSE written]
        /\ UNCHANGED <<thread, stdin, stdout, net, peer, faults>>

OwnerRule3 ==
    LET data == ReadFrom(pair.to_owner, remaining_capacity(owner.inbound))
    IN  /\ OwnerDue(3)
        /\ owner' = OL!called_back(copy_3(owner, data))
        /\ pair' = [pair EXCEPT !.to_owner = AfterRead(@, Len(data))]
        /\ UNCHANGED <<thread, stdin, stdout, net, peer, faults>>

OwnerRule4 ==
    /\ OwnerDue(4)
    /\ owner' = OL!called_back(copy_4(owner))
    /\ stdout' = stdout \o copy_4_data(owner)
    /\ UNCHANGED <<thread, pair, stdin, net, peer, faults>>

\* wait_until_closed
OwnerCloses ==
    /\ owner.phase = "closing"
    /\ owner' = [owner EXCEPT !.phase = "joining"]
    /\ pair' = [d \in DOMAIN pair |-> ShutDown(pair[d])]
    /\ UNCHANGED <<thread, stdin, stdout, net, peer, faults>>

\* The destructor of the socket, should the owner leave early
OwnerDestroys ==
    /\ Copying /\ faults < MaxFaults /\ faults' = faults + 1
    /\ owner' = [owner EXCEPT !.phase = "destroying"]
    /\ UNCHANGED <<thread, pair, stdin, stdout, net, peer>>

OwnerJoins ==
    /\ owner.phase \in {"joining", "destroying"} /\ thread.phase = "done"
    /\ owner' = [owner EXCEPT !.phase = IF @ = "joining" THEN "closed" ELSE "destroyed"]
    /\ UNCHANGED <<thread, pair, stdin, stdout, net, peer, faults>>

OwnerStep ==
    OwnerWait \/ OwnerHungUp \/ OwnerRule1 \/ OwnerRule2 \/ OwnerRule3 \/ OwnerRule4
      \/ OwnerCloses \/ OwnerJoins
-------------------------------------------------------------------------------
(* The user, the peer, the network and the clock *)
EndsInput ==
    /\ ~stdin.shut
    /\ stdin' = ShutDown(stdin)
    /\ UNCHANGED <<thread, owner, pair, stdout, net, peer, faults>>

\* A call made the peer's connection c, which then sends what it queued.
PeerBecomes(c) ==
    /\ peer' = [c EXCEPT !.segments_out = << >>]
    /\ net' = Sends(c, thread.call)
    /\ UNCHANGED <<owner, pair, stdin, stdout>>

PeerOpen == peer.active /\ in_state(peer, {"ESTABLISHED", "CLOSE_WAIT"}) /\ ~peer.sender.stream.input_end

PeerWrites ==
    LET s == peer.sender.stream
        rest == SubSeq(Sent, s.written + 1, Len(Sent))
    IN  /\ PeerOpen /\ s.written < Len(Sent) /\ remaining_capacity(s) > 0
        /\ PeerBecomes(connection_write(peer, rest))
        /\ UNCHANGED <<thread, faults>>

PeerEnds ==
    /\ PeerOpen /\ peer.sender.stream.written = Len(Sent)
    /\ PeerBecomes(end_input_stream(peer))
    /\ UNCHANGED <<thread, faults>>

\* The peer's connection is destroyed while it is active, established or not yet: a
\* RST is sent.
PeerResets ==
    /\ faults < MaxFaults /\ faults' = faults + 1
    /\ peer.active
    /\ PeerBecomes(send_rst_segment(set_shutdown(peer, FALSE)))
    /\ UNCHANGED thread

\* Time passes, by the least that poll's timeout and the timers can tell, at the
\* two ends at once, when nothing else is left to do.
ThreadIdle ==
    \/ ~Running(thread) /\ thread.phase # "exiting"
    \/ LET w == TL!waiting(thread)
       IN  /\ Running(thread) /\ thread.todo = << >> /\ w.asked # {}
           /\ TL!results(w, ThreadReady, ThreadHup).todo = << >>
OwnerIdle ==
    \/ owner.phase \in {"closed", "destroyed", "killed"}
    \/ owner.phase \in {"joining", "destroying"} /\ thread.phase # "done"
    \/ owner.phase = "copy" /\ ~Copying
    \/ LET w == OL!waiting(owner)
       IN  /\ Copying /\ owner.todo = << >> /\ w.asked # {}
           /\ OL!results(w, OwnerReady, OwnerHup).todo = << >>
Rest == net = << >> /\ ThreadIdle /\ OwnerIdle

Clock ==
    /\ Rest
    /\ IF Running(thread) THEN thread.elapsed = 0 ELSE peer.active
    /\ thread' = IF Running(thread) THEN [thread EXCEPT !.elapsed = 1] ELSE thread
    /\ PeerBecomes(IF peer.active THEN tick(peer, 1) ELSE peer)
    /\ UNCHANGED faults

Next ==
    \/ ThreadStep
    \/ OwnerStep \/ OwnerDestroys
    \/ EndsInput \/ PeerWrites \/ PeerEnds \/ PeerResets
    \/ Clock

\* Both threads are scheduled, the user ends the input,
\* the peer's application writes and ends, and time passes.  Each
\* conjunct is the weak fairness of an action that changes the state under the
\* condition given.
Fairness ==
    /\ []<>(ThreadIdle /\ ~(Running(thread) /\ thread.elapsed > 0)) \/ []<><<ThreadStep>>_vars
    /\ []<>OwnerIdle \/ []<><<OwnerStep>>_vars
    /\ []<>(stdin.shut) \/ []<><<EndsInput>>_vars
    /\ []<>(~PeerOpen) \/ []<><<PeerWrites \/ PeerEnds>>_vars
    /\ []<>(~Rest \/ thread.elapsed > 0 \/ ~Running(thread)) \/ []<><<Clock>>_vars

Spec == Init /\ [][Next]_vars /\ Fairness
-------------------------------------------------------------------------------
(* Properties *)

\* Whether an end has given up or been destroyed, so that bytes may be lost
Broken == stream_out(peer.receiver).error \/ inbound_stream(thread).error

\* The TCP thread does not throw: connection_write takes all that rule 2 read for it,
\* no rule waits busily, and rule 3 does not write to a pair that it has shut down.
\* The one exception is a connection that breaks while bytes wait that the pair had no
\* room for: rule 3 shuts the pair down and later tries to write the rest.
\* The owner is killed by SIGPIPE only if the connection was broken.
NoThreadDies ==
    /\ thread.phase = "thrown" =>
         /\ inbound_stream(thread).error /\ thread.inbound_shutdown
         /\ inbound_stream(thread).buffer # << >>
    /\ owner.phase = "killed" => Broken

\* Every byte is at one place on its way: what the user is shown, followed by what
\* the owner, the pair and the TCP thread hold, is the beginning of what the peer
\* sent, and what the peer has got followed by what is held on the way there is
\* the beginning of what the user typed.
BytesInOrder ==
    LET shown == stdout \o owner.inbound.buffer \o pair.to_owner.bytes \o inbound_stream(thread).buffer
        taken == stream_out(peer.receiver).written
        typed == thread.tcp.sender.stream.buffer \o pair.to_tcp.bytes \o owner.outbound.buffer \o stdin.bytes
    IN  /\ SX!IsPrefix(shown, Sent)
        /\ Len(shown) = inbound_stream(thread).written
        /\ SX!IsPrefix(SubSeq(Typed, 1, thread.tcp.sender.stream.read) \o typed, Typed)
        /\ taken <= thread.tcp.sender.stream.read

\* When wait_until_closed returns and the connection was not broken, everything was
\* delivered in both directions.
CloseIsComplete ==
    owner.phase = "closed" /\ ~Broken =>
        stdout = Sent /\ stream_out(peer.receiver).written = Len(Typed)

\* The program always comes to an end: the loop of the TCP thread is left once the
\* connection is over, and join returns.  An exception of the thread ends it too.
ProgramEnds ==
    <>(owner.phase \in {"closed", "destroyed", "killed"} \/ thread.phase = "thrown")

\* What tcp_sponge_socket.hh and tcp_connection.hh promise of the destructor: the
\* RST it makes for a connection that is still open is sent.
DestructorSendsReset ==
    owner.phase = "destroyed" =>
        \A i \in DOMAIN thread.tcp.segments_out : ~thread.tcp.segments_out[i].rst
===============================================================================
