------------------------------ MODULE CodecSystem ------------------------------
(***************************************************************************)
(* A frame on its way: a TCP segment in an IPv4 datagram, or an ARP        *)
(* message, is serialized, written to a file descriptor (which may take    *)
(* part of it at a time), perhaps forwarded by a router, and parsed layer  *)
(* by layer as TCPOverIPv4OverEthernetAdapter::read does.  On the way a    *)
(* byte may change, or bytes be cut off or added.                          *)
(***************************************************************************)
EXTENDS Headers

CONSTANTS
    Segments,          \* TCP segments to send: a header h and a payload
    Arps,              \* ARP messages to send
    Flips,             \* what may be added to a byte, modulo 256
    Lengths,           \* what a frame may be cut off or padded to
    MaxWrite           \* bound: the most bytes one writev takes

VARIABLES
    sent,              \* the message
    via,               \* whether it goes through the router
    views,             \* what is left to write
    wire,              \* the frame, as far as it was written
    altered,           \* whether it was changed on the way
    got                \* what the receiver makes of it

vars == <<sent, via, views, wire, altered, got>>

\* The sender's, the router's and the receiver's addresses
Eth == [sender |-> <<2, 0, 0, 0, 0, 1>>, router |-> <<2, 0, 0, 0, 0, 9>>, receiver |-> <<2, 0, 0, 0, 0, 2>>]
Ip == [sender |-> <<2560, 1>>, receiver |-> <<2816, 2>>]
ETHERNET_BROADCAST == [i \in 1 .. 6 |-> 255]

Nothing == [kind |-> "nothing"]
Dropped == [kind |-> "dropped"]
Thrown == [kind |-> "thrown"]
Segment(h, payload) == [kind |-> "TCP", h |-> [h EXCEPT !.cksum = 0], payload |-> payload]
Arp(h) == [kind |-> "ARP", h |-> h]

Frame(src, dst, type, payload) ==
    frame_serialize([dst |-> Eth[dst], src |-> Eth[src], type |-> type], payload)

\* wrap_tcp_in_ip, apart from the ports, which are those of the segment
wrap_tcp_in_ip(seg) ==
    LET h == [NewIPv4Header EXCEPT !.src = Ip.sender, !.dst = Ip.receiver,
                 !.len = (4 * NewIPv4Header.hlen + 4 * seg.h.doff + Len(seg.payload)) % 65536]
    IN  datagram_serialize(h, segment_serialize(seg.h, seg.payload, pseudo_cksum(h)))

Init ==
    /\ wire = << >> /\ altered = FALSE /\ got = Nothing
    /\ \/ \E seg \in Segments : \E v \in BOOLEAN :
            /\ sent = Segment(seg.h, seg.payload) /\ via = v
            /\ views = Frame("sender", IF v THEN "router" ELSE "receiver", TYPE_IPv4, wrap_tcp_in_ip(seg))
       \/ \E h \in Arps :
            /\ sent = Arp(h) /\ via = FALSE
            /\ views = Frame("sender", "receiver", TYPE_ARP, <<arp_serialize(h)>>)

\* A turn of the loop of FileDescriptor::write
Write ==
    /\ list_size(views) > 0
    /\ \E n \in 1 .. Min({MaxWrite, list_size(views)}) :
         /\ wire' = wire \o SubSeq(concatenate(views), 1, n)
         /\ views' = remove_prefix(views, n)
    /\ UNCHANGED <<sent, via, altered, got>>

OnTheWire == list_size(views) = 0 /\ got = Nothing

Alter ==
    /\ OnTheWire /\ ~altered /\ altered' = TRUE
    /\ \/ \E i \in DOMAIN wire : \E d \in Flips : wire' = [wire EXCEPT ![i] = (@ + d) % 256]
       \/ \E n \in Lengths \ {Len(wire)} : wire' = resize(wire, n)
    /\ UNCHANGED <<sent, via, views, got>>

\* What recv_frame of the interface with address `me` gives: a set of at most one
Received(me, type) ==
    LET f == frame_parse(wire)
        d == IF type = TYPE_IPv4 THEN datagram_parse(f.payload) ELSE arp_parse(f.payload)
    IN  IF /\ f.r = "NoError" /\ f.h.dst \in {Eth[me], ETHERNET_BROADCAST}
           /\ f.h.type = type /\ d.r = "NoError"
          THEN {d} ELSE {}

\* The router sends the datagram on, with one hop less.
Forward ==
    /\ OnTheWire /\ via /\ via' = FALSE
    /\ \/ /\ \E d \in Received("router", TYPE_IPv4) :
               IF ~ipv4_header_sound(d.h) /\ d.h.ttl > 1
                 THEN got' = Thrown /\ UNCHANGED <<views, wire>>
                 ELSE /\ d.h.ttl > 1
                      /\ wire' = << >>
                      /\ views' = Frame("router", "receiver", TYPE_IPv4,
                                    datagram_serialize([d.h EXCEPT !.ttl = @ - 1], <<d.payload>>))
                      /\ UNCHANGED got
       \/ /\ \A d \in Received("router", TYPE_IPv4) : d.h.ttl <= 1
          /\ got' = Dropped /\ UNCHANGED <<views, wire>>
    /\ UNCHANGED <<sent, altered>>

\* The segment that unwrap_tcp_in_ip finds in a datagram: a set of at most one
unwrapped(d) ==
    LET s == segment_parse(d.payload, pseudo_cksum(d.h))
    IN  IF /\ d.h.dst = Ip.receiver /\ d.h.src = Ip.sender /\ d.h.proto = PROTO_TCP
           /\ s.r = "NoError" /\ s.h.dport = sent.h.dport /\ s.h.sport = sent.h.sport
          THEN {Segment(s.h, s.payload)} ELSE {}

Receive ==
    LET segments == UNION {unwrapped(d) : d \in Received("receiver", TYPE_IPv4)}
        arps == {Arp(d.h) : d \in Received("receiver", TYPE_ARP)}
    IN  /\ OnTheWire /\ ~via
        /\ got' \in IF segments \cup arps = {} THEN {Dropped} ELSE segments \cup arps
        /\ UNCHANGED <<sent, via, views, wire, altered>>

Next == Write \/ Alter \/ Forward \/ Receive

Spec == Init /\ [][Next]_vars
-------------------------------------------------------------------------------
(* Properties *)

\* The Internet checksum of the RFCs that util.cc names: the bytes are the high and
\* low ones of 16-bit words, the last padded with a zero, and the words of data that
\* contains its own checksum add up to 0 in ones' complement.
SumsToZero(bytes) ==
    MapThenSumSet(LAMBDA i : IF i % 2 = 1 THEN 256 * bytes[i] ELSE bytes[i], DOMAIN bytes) % 65535 = 0

\* Both checksums of a frame without IP options: that of the IP header, and that of
\* the segment after the addresses, the protocol and its length
Checksummed(frame) ==
    LET datagram == SubSeq(frame, 15, Len(frame))
        segment == SubSeq(datagram, 21, Len(datagram))
        length == <<Len(segment) \div 256, Len(segment) % 256>>
    IN  /\ SumsToZero(SubSeq(datagram, 1, 20))
        /\ SumsToZero(SubSeq(datagram, 13, 20) \o <<0, PROTO_TCP>> \o length \o segment)

\* A frame that nothing happened to on the way is understood, however its bytes
\* were split over several writes and though a router took it apart and put it
\* together again: the receiver has the segment or the ARP message that was sent.
\* It would be by other implementations too: its checksums are those of the RFCs,
\* for a payload of odd length as well.
RoundTrip ==
    ~altered => /\ got # Nothing => got = sent
                /\ OnTheWire /\ sent.kind = "TCP" => Checksummed(wire)

\* A segment that the receiver accepts is the one that was sent, whatever happened to
\* one byte of the frame or to its length: the lengths and the TCP checksum, which
\* covers the addresses, the protocol and the length in the IP header too, catch the
\* rest, although IPv4Datagram::parse drops the result of IPv4Header::parse and a
\* router gives a damaged header a new checksum.
AcceptedIsSent == got.kind = "TCP" => got = sent
===============================================================================
