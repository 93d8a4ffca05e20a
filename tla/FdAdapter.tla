------------------------------- MODULE FdAdapter -------------------------------
(***************************************************************************)
(* tcp_helpers/fd_adapter.{hh,cc} and tcp_over_ip.cc: what stands between  *)
(* a TCPConnection and the datagrams that carry its segments.  An address  *)
(* is a record of ip and port.  A UDP datagram has a source_address, a     *)
(* destination and a payload, an IPv4 datagram src, dst, proto and a       *)
(* payload with the ports of its TCP header.  NoSegment does not parse.     *)
(***************************************************************************)
EXTENDS TCPSegment

CONSTANT NoSegment

Address(ip, port) == [ip |-> ip, port |-> port]

\* FdAdapterBase: config() and the listening flag
new_adapter(source, destination, listening) ==
    [source |-> source, destination |-> destination, listening |-> listening]

\* A listening adapter takes the first SYN's sender as its peer.
opens(seg) == seg.syn /\ ~seg.rst

-------------------------------------------------------------------------------
(* TCPOverUDPSocketAdapter *)

\* The segment read() returns: a set of at most one
udp_read(a, dgram) ==
    IF /\ a.listening \/ dgram.source_address = a.destination
       /\ dgram.payload # NoSegment
       /\ a.listening => opens(dgram.payload)
      THEN {dgram.payload} ELSE {}

udp_after_read(a, dgram) ==
    IF a.listening /\ udp_read(a, dgram) # {}
      THEN new_adapter(a.source, dgram.source_address, FALSE)
      ELSE a

udp_write(a, seg) ==
    [source_address |-> a.source, destination |-> a.destination, payload |-> seg]

-------------------------------------------------------------------------------
(* TCPOverIPv4Adapter *)

from_peer(a, dgram) ==
    a.listening \/ (dgram.dst = a.source.ip /\ dgram.src = a.destination.ip)

unwrap_tcp_in_ip(a, dgram) ==
    IF /\ from_peer(a, dgram)
       /\ dgram.proto = "TCP" /\ dgram.payload.seg # NoSegment
       /\ dgram.payload.dport = a.source.port
       /\ IF a.listening THEN opens(dgram.payload.seg)
                         ELSE dgram.payload.sport = a.destination.port
      THEN {dgram.payload.seg} ELSE {}

after_unwrap(a, dgram) ==
    IF a.listening /\ unwrap_tcp_in_ip(a, dgram) # {}
      THEN new_adapter(Address(dgram.dst, a.source.port),
                       Address(dgram.src, dgram.payload.sport), FALSE)
      ELSE a

wrap_tcp_in_ip(a, seg) ==
    [src |-> a.source.ip, dst |-> a.destination.ip, proto |-> "TCP",
     payload |-> [sport |-> a.source.port, dport |-> a.destination.port, seg |-> seg]]
===============================================================================
