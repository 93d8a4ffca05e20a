# A TLA+ model of the sponge TCP/IP stack

This directory holds a formal model of the network stack in `src/libsponge`: a
byte stream, a reassembler, a TCP sender, receiver and connection, an Ethernet
network interface with ARP, a router, and the sockets and event loop that run
them. The modules are translated from the C++ code and keep its names. TLC
checks them on small instances and TLAPS proves some of their properties for all
values of their constants.

`PROJECT.json` lists every run, the source lines each definition stands for, the
hazards the properties are aimed at, and for each property a deliberately wrong
variant of the code that the property rejects.

## The system

| Part | State | Operations | What makes it hard |
|---|---|---|---|
| `ByteStream` | buffer, two byte counters, end and error flags | write, read (peek, pop), end_input, set_error | capacity |
| `StreamReassembler` | output stream, map of stored substrings, their byte count, next index, end index | push_substring, merge_string | overlap and order of arrival, capacity shared by two buffers, a count kept by hand, 64-bit indices that wrap |
| `wrap`, `unwrap` | none | conversion between 32 and 64 bits | rounding, several wraps, overflow |
| `TCPReceiver` | reassembler, ISN, SYN and FIN seen | segment_received, ackno, window_size | segments below the window, FIN before data |
| `TCPSender`, `Timer` | outgoing stream, next_seqno, recv_ackno, unacknowledged segments, bytes in flight, peer's window, timer, retransmission count | fill_window, ack_received, tick, send_empty_segment | stale, partial and premature ACKs, zero window, FIN and window, timer and backoff |
| `TCPConnection` | sender, receiver, queue, linger, active, time since last segment | connect, write, end_input_stream, segment_received, tick, destructor | lost, repeated, reordered segments; closing; TIME_WAIT; RST |
| `NetworkInterface` | ARP table, pending requests, waiting datagrams, frames | send_datagram, recv_frame, tick | three tables with two clocks, late replies, changing addresses |
| `Router` | interfaces, routing table | add_interface, add_route, route | longest prefix, repeated routes, TTL |
| `TCPSpongeSocket` | connection, event loop, socket pair, thread, abort flag | connect, listen_and_accept, wait_until_closed, destructor; the TCP thread | two threads, half-closed streams, shutdown order |
| `EventLoop` | rules | add_rule, wait_next_event | rules that cancel, starve or spin |
| `bidirectional_stream_copy` | two byte streams, event loop | the four rules of the owner's thread | end of input, hangup, broken pipe |
| Fd adapters | listening flag, peer address | read, write | what is accepted while listening, drops |
| Codecs, buffers | - | parse, serialize, remove_prefix | lengths, checksums, partial writes |

An application thread talks to the TCP thread over a socket pair; the TCP thread's
event loop moves bytes between that pair and a `TCPConnection`, and segments
between the connection and a datagram adapter. A connection drives its sender and
receiver; the receiver drives the reassembler, the sender reads from and the
reassembler writes to a byte stream. An adapter may send its datagrams through a
network interface; a router moves datagrams between interfaces.

## Modules

An object is a record and a method an operator from the old record (and the
arguments) to the new one; a method that also returns a value has a second
operator for it. So a class is written once and used both alone, in a module that
drives it with everything its environment may do, and inside the classes that own
it. Loops are given by what they compute; the loops themselves, as recursive
operators, are in modules of their own, and TLC compares the two.

| Module | Models |
|---|---|
| `SizeArith` | `size_t` arithmetic that wraps at `SizeMax + 1` |
| `ByteStream` | `byte_stream.{hh,cc}` |
| `StreamReassembler` | `stream_reassembler.{hh,cc}` |
| `ReassemblerSystem` | a reassembler, a network that pushes any substring, a reading application |
| `ReassemblerLoops` | the loops of `merge_string` and `push_substring` as written |
| `WrappingIntegers`, `SeqnoSystem` | `wrapping_integers.{hh,cc}`; a position tracked through its wrapped form |
| `TCPSegment` | the fields of a segment and its length in sequence space |
| `TCPReceiver` | `tcp_receiver.{hh,cc}` |
| `TCPSender` | `tcp_sender.{hh,cc}`, the `Timer` included |
| `SenderSystem` | a sender, an application that writes, a peer with any acknowledgments |
| `SenderLoops` | `push_segment`, and the loops of `fill_window` and `ack_received` as written |
| `TCPConnection` | `tcp_connection.{hh,cc}`, the state summaries of `tcp_state.cc` |
| `TCPState` | the named states of `tcp_state.{hh,cc}` |
| `TCPPair` | two connections, two applications, an unreliable network; the steps are those of `apps/tcp_benchmark.cc`, in any order |
| `TCPPairTimed`, `MCPair` | the same with one clock and fairness; the streams and ISNs of the runs of both |
| `ReliableStreams` | what a connection promises: two streams of which growing prefixes are delivered |
| `NetworkInterface` | `network_interface.{hh,cc}` |
| `InterfaceSystem` | an interface, a host that sends, any frames, time |
| `Router` | `router.{hh,cc}` |
| `NetworkSystem`, `MCNetwork` | `apps/network_simulator.cc`: hosts, routers and links, served in any order |
| `EventLoop` | `eventloop.{hh,cc}`, for a set of rules and the sets of them that are ready or hung up |
| `FdAdapter` | `fd_adapter.{hh,cc}`, `tcp_over_ip.cc`: the UDP and IPv4 adapters |
| `TCPSpongeSocket` | `tcp_sponge_socket.{hh,cc}`: the TCP thread and its four rules |
| `StreamCopy` | `apps/bidirectional_stream_copy.cc`: the owner's four rules |
| `SocketPair` | a pair of stream sockets, with `read`, `write` and `shutdown` of `file_descriptor.cc` and `socket.cc` |
| `SocketSystem`, `MCSocket` | the program of `tcp_udp` and `tcp_ipv4`: both threads, the pair, the adapter, a peer, the user, the clock |
| `NetParser` | `parser.{hh,cc}`, the lists of `buffer.{hh,cc}`, `InternetChecksum` |
| `Headers` | parse and serialize of Ethernet, ARP, IPv4 and TCP |
| `CodecSystem`, `MCCodec` | a frame from one adapter to another, by way of a router, with damage |
| `Flow`, `SenderFlow`, `ReassemblerFlow`, `ConnectionFlow` | what the proofs say of one direction of a connection, of its sender, of its reassembler, and of a connection and its peer, with the rules by which the lemmas about the one rely on the other |
| `SenderLemmas`, `SenderProofs` | what the sender's methods do, and the theorems about `SenderSystem` and `SeqnoSystem` |
| `ReassemblerLemmas`, `ReassemblerProofs` | what the reassembler's methods do, and the theorems about `ReassemblerSystem` |
| `ConnectionLemmas` | what a connection's methods do to it and its peer |
| `PairLemmas`, `PairProofs` | what the steps of the pair do, and the theorems about `TCPPair` and `ReliableStreams` |
| `InterfaceProofs` | theorems about `InterfaceSystem` |

### How the composed modules correspond to the code

- `TCPPair`: an action is one call into a connection, after which its owner moves
  everything queued to the network, as `move_segments` does. The server may end its
  stream before it is opened, as `main_loop` does, so that two SYNs can cross. `Tick` is
  called on a connection whether it is active or not, as `main_loop` does;
  `TCPPairTimed` ticks only active ones, as `_tcp_loop` does.
- `NetworkSystem`: `SendTo`, `Route` and `Exchange` are `Host::send_to`,
  `Router::route` and `exchange_frames`. The simulator alternates the last two in a
  fixed order with one router; the model takes them in any order with any number.
- `SocketSystem`: a step of the TCP thread or of the owner is the part of
  `wait_next_event` up to the return of `poll` (`ThreadWait`, `OwnerWait`) or one
  callback or cancellation (`ThreadRule1` ... `OwnerRule4`), because the other thread
  may run between any two of them. `thread.todo` is what the results of `poll` leave
  to do. `ThreadExit` is the end of `_tcp_main`, with the destructor of the
  connection; `OwnerCloses`, `OwnerDestroys` and `OwnerJoins` are
  `wait_until_closed` and the destructor of the socket. A run of the program either
  connects over UDP or accepts over IPv4.
- `CodecSystem`: `Write` is one turn of the loop in `FileDescriptor::write`;
  `Forward` is a router's `recv_frame` and `route_one_datagram`; `Receive` is the
  receiving adapter's `read`.

Operators whose name extends that of a method (`write_in_order_uncut`,
`sender_tick_counts_probes`, ...), introduced by a comment that says "Variant", are wrong
on purpose and used by no specification; `PROJECT.json` pairs each with the
property that rejects it.

### What is abstracted

- Bytes are small numbers and streams sequences of them, all different, so that a
  byte out of place is seen. Datagrams are numbered.
- `2^64` and `2^32` are the constants `SizeMax + 1` and `SeqMod`, small enough that
  the wrap-arounds happen. Two sums of the reassembler that cannot exceed the end
  of the window are plain sums.
- Outside `Headers`, a segment carries what the sender, receiver and connection
  read: no ports, no checksum. Parsing inverts serialization there, which the run
  `codec` checks byte by byte, and a payload that does not parse is a value of its
  own.
- A 32-bit field of a header is a pair of 16-bit numbers, because TLC's integers
  have 32 bits.
- In `SocketSystem` time passes only when both threads have nothing to do, and
  datagrams reach the peer at once. The peer is a bare `TCPConnection` whose
  application reads at once. It may reset at any time, also in answer to the SYN, so that
  `connect()` and `listen_and_accept()` return with a connection that is already dead.
- In `TCPConnection`, the time since the last segment is counted up to the linger
  time, which is the only thing it is compared with.
- Each action is one call into an object followed by its owner emptying the output
  queue, as the owners in the code do after every event.

## Runs

| Run | Configuration | Shows |
|---|---|---|
| `reassembler` | `ReassemblerLoops.cfg` | output is the stream; entries disjoint and right; nothing contiguous left behind; memory bound; exact end; for a peer inside the window exact byte count and delivery of everything; closed forms equal the loops |
| `reassembler_edge` | `MCReassemblerEdge.cfg` | **violated**: a byte is counted that is not stored (see Findings) |
| `seqno` | `SeqnoSystem.cfg` | no error builds up over wraps; `unwrap` is nearest to the checkpoint |
| `sender` | `SenderLoops.cfg` | queue, counter, timer, window, payload, FIN, backoff, zero-window probe; closed forms equal the loops |
| `pair` | `MCPair.cfg` | two connections implement `ReliableStreams` (`IsReliable`); ACKs honest, closing complete and safe, errors only after giving up |
| `pair_timed` | `MCPairTimed.cfg` | both ends finish and close cleanly; nothing is sent past the window |
| `interface` | `MCInterface.cfg` | queues, addresses, order, request rate; no queue waits for ever |
| `network` | `MCNetwork.cfg` | every datagram goes where the longest prefixes lead, is never duplicated, and comes to its end, also in a loop of routers |
| `network_prefix` | `MCNetworkPrefix.cfg` | **violated**: a route with bits below its prefix length is never used (see Findings) |
| `socket` | `MCSocket.cfg` | no thread dies (but for the case below), bytes are in order at every place on the way, a close without error is complete, the program ends |
| `socket_destroy` | `MCSocketDestroy.cfg` | **violated**: the RST of the destructor is never sent (see Findings) |
| `codec` | `MCCodec.cfg` | an undamaged frame is understood, and its checksums are those of the RFCs; no damaged segment is accepted |

Three properties need a word more.

- `BackoffExact` compares the sender with `lost`, a history variable of `SenderSystem`: the
  segments repeated into an open window since one was last acknowledged in full. The count of
  retransmissions must be `lost` and the timeout `Rto * 2^lost`, so that a sender that counted
  the probes of a closed window for both would be noticed.
- `NoThreadDies` has one exception. If the connection breaks while the pair has room for only a
  part of what rule 3 offers, rule 3 shuts the pair down (`tcp_sponge_socket.cc`, line 136)
  with bytes left, and when it is next called it writes to a pair that is shut down: the write
  fails and the TCP thread throws. It takes more unread bytes than the socket pair holds, and
  the receive capacity is 64000 bytes by default. The run shows that this is the only way.
- `RoundTrip` compares the checksums on the wire with a sum defined by itself, because a
  writer and a reader that share a mistake about a payload of odd length understand each other.

### Bounds

- Reassembler: 6 bytes and capacity 4, so that the window moves past its first
  position and entries can be stored apart and merged by one push. Every substring,
  with and without the end, is pushed in every state, and the one that starts one byte
  below the stream.
- Sequence numbers: `SeqMod` 8 and `SizeMax` 63 give eight wraps.
- Sender: 4 bytes, 2 per segment, capacity 3, windows 0, 1, 3 and 5, acknowledgments
  from 0 to one past `next_seqno`, three retransmissions in a row, an ISN two below
  the wrap.
- Pair: the client writes 2 bytes in segments of 1 with window 2 and two faults; the
  server writes none but opens, acknowledges, ends and closes its stream. A fault is
  a loss, a duplication, or a tick while something is under way, which lets a
  timeout race an answer. At most `NetCapacity` = 2 segments are under way in a
  direction. One retransmission is allowed before giving up, so that giving up
  happens; a connection that has given up is still ticked and still retransmits, until
  its count exceeds `MaxRetx` = 2. The client's ISN makes its numbers wrap after the SYN.
- Timed pair: window 1 and segments of up to 2 bytes, so that the window closes and is
  probed; one fault, and more retransmissions allowed than faults (so that `MaxRetx`
  plays no part). `NetCapacity` is not reached here.
- Interface: two neighbours with two addresses, three datagrams, steps of time of 1
  and 3 with TTLs 2 and 4, so that one step can expire a request alone, or both.
- Network: addresses of 4 bits; two routers whose default routes point at each other,
  a longer prefix that leads elsewhere than the shorter one, a link of three; two
  datagrams with TTL 1 or 3 to a near host, a far host, an absent host, and an
  address to which either router knows only the way through the other.
- Socket: one byte typed and two sent by the peer, buffers of 1 to 3 bytes so that
  each of them fills. The pair holds one byte and the receiver two, so that rule 3 writes
  less than it has. One fault (a drop, a reset by the peer, or the destruction of
  the socket), a stray datagram before the first.
- Codec: segments without payload, with odd and even payload and with options, ARP
  requests and replies; one byte changed by 1, 16, 128 or 255, or the frame cut or
  padded to one of seven lengths around the ends of the headers; writes split
  anywhere in up to 60 bytes.

Runs of the pair, the sender, the reassembler, the socket and the codec switch the
deadlock check off: a closed connection, a finished stream or program, a delivered
frame or a spent fault budget may really stop.

### Fairness

- `ReassemblerSystem`: the peer retransmits what is wanted next until it is taken,
  as a `TCPSender` does; the application keeps reading. The condition `CanPushNext`
  is `ENABLED <<PushNext>>_vars` written out, because TLC is slow to find it.
- `TCPPairTimed`: `_tcp_loop` in `tcp_sponge_socket.cc` serves the network, the
  application and the clock in turn, so each of connect, write, end, read, deliver
  and tick is weakly fair. Losing and duplicating are not fair, and are bounded.
  Again each `ENABLED` is written out as a named condition.
- `InterfaceSystem`: time passes. Nothing is assumed of replies.
- `NetworkSystem`: every router and every link goes on being served, as `simulate`
  does in each of its 256 rounds.
- `SocketSystem`: the operating system schedules both threads, the user ends the
  input, the peer's application writes and ends, and the clock runs. Drops, resets
  and the destruction of the socket are not fair, and are bounded.

## Findings

`reassembler_edge`: `push_substring` lets a substring through that starts exactly at
the end of the window (`index > _unaccepted_index` on line 42 of
`stream_reassembler.cc`). `merge_string` stores it as an empty entry. Once the
window has moved, data at the same index is added to `_unassembled_cnt`, but the
`insert` on line 131 leaves the empty entry in place. The data is counted and not
stored, and counted again when it is repeated, against "it should only be counted
once" (`stream_reassembler.hh`, lines 52 and 53). The wrong count can also leave no
room for the byte wanted next, so that nothing more is delivered. `pair_timed` shows
(`SegmentsInWindow`) that a `TCPSender` never sends such a segment.

`network_prefix`: `route_one_datagram` compares the whole `route_prefix` with the
masked destination (`router.cc`, line 53), so that a route whose prefix has a bit set
beyond `prefix_length` applies to nothing. The comment on line 22 says that
`prefix_length` is how many bits "will need to match the corresponding bits of the
datagram's destination address". `network_simulator.cc` adds such a route on line 232
(128.30.76.255/16).

`socket_destroy`: the destructor of a socket with an open connection stops the TCP
thread's loop and then destroys the connection, which queues a RST
(`tcp_connection.cc`, lines 147 and 148). Rule 4, which would send it, does not run
any more. `tcp_sponge_socket.hh`, line 75, says "When a connected socket is
destructed, it will send a RST", and `tcp_connection.hh`, line 96, the same of the
connection. The peer finds out only by its own retransmissions.

Two more disagreements, met while modelling, have no run of their own:

- `router.hh`, line 28, says that an ARP reply teaches a mapping "from the "target" fields".
  The code (`network_interface.cc`) learns from the sender fields of requests and replies
  alike, as `network_interface.hh`, line 83, says; `NetworkInterface` models the code.
- `IPv4Datagram::parse` drops the result of `IPv4Header::parse`, so that a router may come to
  forward a datagram whose version or header length was damaged. `IPv4Header::serialize` throws
  for these (`ipv4_header.cc`, lines 80 to 85), and nothing catches it. `CodecSystem` models it
  (`Thrown`); `RoundTrip` says that an undamaged frame never causes it.

## Proofs

### The network interface

`InterfaceProofs` proves, for every set of neighbours and addresses, every number of
datagrams, every size of time step and all TTLs with `0 < ReplyTTL <= EntryTTL`:

- `TypeCorrect`, `QueuedWhilePending`, `FreshAddress`: the invariants `TypeOK`,
  `WaitsForPendingRequest` and `SentToFreshAddress`;
- `TableIsFresh`: the table holds exactly the neighbours heard from within the TTL, with
  their latest addresses;
- `RateLimited`: the action property `RequestsRateLimited`;
- `OnceInOrder`: the invariant `SentOnceInOrder`.

`WaitsForPendingRequest` (datagrams wait exactly for addresses that are requested and
not known) is not inductive. A tick that forgets an address while its request is
still pending would break it. That cannot happen because an address in the table is
never older than a pending request for it (`TableOutlivesRequest`): it was learned
after the request was sent, since no request is sent for a known address, and
`ReplyTTL <= EntryTTL`. The inductive invariant `ARPInv` adds this, and that table
and requests are what the histories of messages heard and requests sent say. For
each method a `Form` lemma gives its result on an interface written field by field,
an `Effect` lemma its effect on the state, and an `Inv` lemma shows that it preserves
`ARPInv`.

`SentOnceInOrder` speaks only of what has left; what it needs to be inductive is in the
queues. `QueuesInOrder` says that each queue is in the order of the calls, and that what
waits for a next hop was given to the interface after everything that left for it. The
second part holds because a datagram is sent at once only to a hop without a queue
(`WaitsForPendingRequest` again), and a queue leaves as a whole.

The assumptions are those named in the modules: the order of the TTLs, that the
interface's own addresses differ from its neighbours', and that a datagram or an ARP
message is not the malformed payload.

### The reassembler

`ReassemblerProofs` proves, for every stream, every capacity with
`Len(Stream) + Capacity < SizeMax` and every sequence of pushes and reads, pushes at the
end of the window included, what the run `reassembler` checks for 6 bytes:

- `AlwaysTyped`, `AlwaysOutput`, `AlwaysStored`, `AlwaysWithin`, `AlwaysEnds`: the
  invariants `TypeOK`, `OutputIsStream`, `StoredIsStream`, `WithinCapacity`,
  `EndsExactly`;
- `AlwaysCounted`: `CountedOnceInWindow`, the count for a sender inside the window.

No one of these is inductive. That `merge_string` stores nothing past the memory bound
depends on `free_space`, hence on the count; that the count is not below what is stored
depends on the entries being apart; that `drain` writes bytes of the stream depends on
what the entries hold, and that all it takes fits the output depends on the bound. The
inductive invariant `Inv` therefore says all of it together (`Healthy`): the output is
the stream up to `unassembled_index`; the entries are pieces of the stream, apart,
past that index and inside the window; the count is at least the number of bytes stored,
and with the output at most the capacity; without pushes at the end of the window the
count is exact and no entry is empty (the empty entry of the finding is what makes it
inexact); and the output has ended exactly when the known end is reached.
`ReassemblerLemmas` shows that each step of the methods keeps this: `EraseEntries`
(erasing takes exactly its bytes from the count), `FirstGap` and `StoredByte` (what
`drain` writes is the next piece of the stream), `Merged` (the substring joined with
what sticks out of the entries it meets is a piece of the stream apart from the
others), `CutToFit` and `RoomForNext` (the two cuts of `insert_merged` and what they
leave), ending in `Drain` and `MergeString`.

The proofs are about the closed forms of the two loops; that they equal the loops as
written is `LoopsAgree`, which is model-checked.

### The sender

`SenderProofs` proves, for every stream, initial sequence number, maximal payload and
timeout, every set of windows, and every sequence of writes, acknowledgments (late,
repeated, for numbers never sent) and ticks, all the invariants the run `sender` checks
of `SenderSystem`: `AlwaysTypeOK`, `AlwaysTiles` (`QueueTilesFlight`), `AlwaysInWindow`
(`WindowRespected`), `AlwaysStreamPayload` (`PayloadIsStream`), `AlwaysFinLast`
(`FinIsLast`), `AlwaysBackoff` (`BackoffExact`) and `AlwaysBusy` (`NeverIdleWithData`).
The assumption that matters is that SYN, stream and FIN take less than half of the
sequence space (`SenderAssumption`).

The difficulty is that a queued segment carries a 32-bit number and the code recovers
the 64-bit one anew for each acknowledgment, relative to the `next_seqno` of that moment.
`Start(flow, seg)` is the number as a function of the segment and of the flow it belongs to
(a record of the stream, the ISN and the timeout), and `UnwrapStart` shows that `unwrap`
returns it for every checkpoint the sender can use. `Carries` says that the segment holds
the part of the stream at its `Start`, and `Tiled(flow, q, a, b)` that the segments of a
queue carry the stream and follow each other from `a` to `b`. `Ready` then says of a
sender: the buffer is the part of the stream from `read` to `written`; `next_seqno` counts
the SYN, the bytes read and the FIN; the queue is tiled from `next_seqno - bytes_in_flight`
to `next_seqno`, with `recv_ackno` in between; everything sent and the current window lie
below an edge; the timer runs exactly while the queue is not empty; and what is queued for
the owner carries the stream too. The inductive invariant `SenderInv` is this, and that
nothing waits with nothing in flight. `FillWindow` shows that `fill_window` keeps it (the
pieces `push_segment` cuts, `Offsets` and `PieceCarries`, extend the tiling), `AckedReady`
that removing what an ackno covers does.

`BackoffExact` uses `Pow2`, a recursive function; that its defining equation has a solution,
which a proof must show before using it, is the lemma `Powers`. As for the reassembler, the
proofs are about the closed forms of the loops, and `LoopsAgree` is model-checked.

### Sequence numbers

`SenderProofs` also proves, for every even modulus that divides `SizeMax + 1` and every ISN,
`AlwaysTracks` (a position that moves less than half the sequence space at a time is
recovered from its wrapped form) and `AlwaysClosest` (no number that wraps to the seqno
is closer to the checkpoint than the one `unwrap` returns). The inductive invariant
`SeqInv` adds that the numbers stay half of the sequence space below the end of the
64-bit ones, where the sum in `unwrap` would overflow.

### The pair of connections

`PairProofs` proves of `TCPPair`, for any two streams, ISNs, capacities, maximal payload,
timeout and number of retransmissions, and for any number of losses, duplications and
timeouts that race an answer, in any order of delivery:

- `PairIsReliable`: the refinement `IsReliable`, that is `Spec => Streams!Spec`: every step
  of the two connections and the network is a step of `ReliableStreams` or leaves what the
  applications see unchanged;
- `PairIsFaithful`: at both ends, what is delivered is a prefix of what the peer wrote, and
  all of it once the end is delivered (from the refinement, and the lemma `AlwaysFaithful`
  that `ReliableStreams` itself has this property);
- `AckHonestHolds`, `CleanCloseIsCompleteHolds`, `NoLingerIsSafeHolds` and
  `ErrorMeansGaveUpHolds`: the invariants `AckHonest`, `CleanCloseIsComplete`,
  `NoLingerIsSafe` and `ErrorMeansGaveUp`.

The assumptions are `PairAssumption` (each stream with its SYN, its FIN and a window
takes less than a quarter of the sequence space, which is at most half of the 64-bit
numbers; capacities are positive) and those of the components.

The inductive invariant `PairInv` relates the two ends through the flows between them. A
sender `Stands` as in the section above. The receiver at its other end is `Receiving` from
it: its reassembler is healthy, in the sense of the reassembler's invariant, for the part
of the stream that the sender has *sent so far*, and knows the end only if the FIN was sent.
Everything under way is a segment that the sender `Says`: one it has sent (carrying the
stream at its number), an empty answer or a reset, with an ackno that the receiver at its
origin has reached. That is what makes `AckHonest` inductive: an old segment stays true,
because the receiver only gets further. The receiver in its turn computes the index of a
segment from its own position; `SegmentIndex` shows that this is the index the bytes have in
the stream, because everything under way is less than half of the sequence space away.

For `NoLingerIsSafe` the invariant adds `Released`: an end stops lingering only when the
peer's FIN came before it sent its own, so that its own FIN and all later segments
acknowledge everything, and a peer that has seen this FIN knows. For `ErrorMeansGaveUp` it
says that a reset is only made by an end that has given up, and that such an end stays
dead.

The argument is split by two contracts, both in `ConnectionFlow`. `Rules` has one rule for
each fact about the sender or the reassembler that a connection needs (`AckRule`, `FillRule`,
`PushRule`, ...).
`ConnectionLemmas` takes these rules as its assumption: `TakesSegment`, `Sends`, `GivesUp`
and the like show for each method of the connection that it keeps what the invariant says of
the two ends (`CallOK`). What the pair needs of a call in turn
(`SegmentRule`, `ConnectionTickRule`, `KeepRule`, ...) is `Contract`, and
`ContractKept` proves it from the first rules. `PairLemmas` assumes only `Contract`:
`NextSteps` shows that every step of `TCPPair` is one such call, and `StepKeeps` that these
preserve `PairInv`, the network included. `RulesHold` in `PairProofs` proves
`Rules` from the lemmas about the two components, and the theorems follow. No rule is
left as an assumption of a theorem. `MaxRetx` and `NetCapacity`, which bound the model for
TLC, are arbitrary in the theorems.

### Only model-checked

- Liveness (`AllDelivered`, `BothFinish`, `QueuesEmpty`, `EveryDatagramSettles`,
  `ProgramEnds`): fairness and `ENABLED` are beyond the prover.
- The comparisons with the loops of the code (`LoopsAgree`, and those of the sender) and
  everything about `Headers` and `NetParser`: recursive definitions are beyond it too.
- `SegmentsInWindow` of the pair. It needs the right edge of the peer's window, which moves
  as the peer's application reads, in the invariant of every segment and every sender.
- The safety properties of the network and the socket: `NetworkSystem`, `EventLoop` and
  `SocketSystem` use `RECURSIVE` operators, which the prover does not take.

## Not modelled

- The programs in `apps` other than `tcp_benchmark`, `network_simulator` and
  `bidirectional_stream_copy`: command lines and wiring. `tcp_udp` and `tcp_ipv4` run
  what `SocketSystem` models. The network thread of `lab7` and `bouncer` move frames and
  datagrams between UDP sockets and the components of `NetworkSystem`, whose links
  already deliver in any order.
- `TCPOverIPv4OverEthernetAdapter` as a whole: the path of a segment through it is in
  `CodecSystem`, its interface in `InterfaceSystem`; its `tick` calls the
  interface's and sends the frames queued there.
- `Address`, `TunFD`, the opening, binding and options of sockets: conversions and
  system calls without state of their own.
- In `EventLoop`, the exception for a descriptor on which `poll` reports `POLLERR` or
  `POLLNVAL`, and the `Exit` for a `poll` interrupted by a signal (`eventloop.cc`, lines 102 to
  104 and 112 to 115). The programs install no signal handlers; an error of the terminal or of
  the device below the adapter is outside the model.
- Printing (`summary`, `to_string`, `name`) and the tests.

## Running

    tlc -workers 2 -config MCPair.cfg MCPair
    tlapm InterfaceProofs.tla

and likewise for the other configurations of the table above, each with the module that
`PROJECT.json` names for its run (`MCPairTimed.cfg` with `MCPair`, `MCReassemblerEdge.cfg`
with `ReassemblerLoops`), and for
`ReassemblerLemmas`, `ReassemblerProofs`, `SenderLemmas`, `SenderProofs`,
`ConnectionLemmas`, `PairLemmas` and `PairProofs`. The larger ones take some ten minutes
each.
