-------------------------------- MODULE Router --------------------------------
(***************************************************************************)
(* libsponge/router.{hh,cc}: a router with several network interfaces that *)
(* forwards each datagram along the matching route with the longest        *)
(* prefix.  An address is a number of AddrBits bits.  A datagram is a      *)
(* record of which the router uses dst and ttl.                            *)
(***************************************************************************)
EXTENDS NetworkInterface, SequencesExt

CONSTANT AddrBits        \* 32 in the build

-------------------------------------------------------------------------------
\* AsyncNetworkInterface: the datagrams recv_frame returns are queued.
new_AsyncNetworkInterface(mac, ip) ==
    [ni |-> new_NetworkInterface(mac, ip), datagrams_out |-> << >>]

async_recv_frame(a, frame) ==
    [ni |-> recv_frame(a.ni, frame),
     datagrams_out |-> a.datagrams_out \o SetToSeq(received_datagram(a.ni, frame))]

-------------------------------------------------------------------------------
\* next_hop is a set of at most one address: empty when directly attached.
RouteEntry(route_prefix, prefix_length, next_hop, interface_num) ==
    [route_prefix |-> route_prefix, prefix_length |-> prefix_length,
     next_hop |-> next_hop, interface_num |-> interface_num]

\* RouteEntry::operator<, which orders the set _route_table
before(e, f) ==
    \/ e.prefix_length > f.prefix_length
    \/ e.prefix_length = f.prefix_length /\ e.route_prefix < f.route_prefix
    \/ /\ e.prefix_length = f.prefix_length /\ e.route_prefix = f.route_prefix
       /\ e.interface_num < f.interface_num

new_Router(interfaces) == [interfaces |-> interfaces, route_table |-> {}]

\* set::insert: an entry equivalent under operator< is kept, next hop and all.
add_route(r, e) ==
    IF \E f \in r.route_table : ~before(e, f) /\ ~before(f, e)
      THEN r
      ELSE [r EXCEPT !.route_table = @ \cup {e}]

\* Interfaces are numbered from 0.
interface_send(r, num, dgram, next_ip) ==
    [r EXCEPT !.interfaces[num + 1].ni = send_datagram(@, dgram, next_ip)]

\* mask & ip, where the mask has prefix_length ones followed by zeros
masked(ip, prefix_length) ==
    IF prefix_length = 0 THEN 0 ELSE ip - (ip % 2^(AddrBits - prefix_length))

matching(r, ip) ==
    {e \in r.route_table : e.route_prefix = masked(ip, e.prefix_length)}

\* Variant: the first match in the order of the prefixes is taken.
best_route_first(r, ip) ==
    LET m == matching(r, ip)
    IN  {e \in m : \A f \in m : e.route_prefix <= f.route_prefix}

\* The loop goes through the table in its order and replaces the best route by a
\* strictly longer one.  A set of at most one entry.
best_route(r, ip) ==
    LET m == matching(r, ip)
    IN  {e \in m : \A f \in m \ {e} : before(e, f)}

\* Variant: the time to live is not counted down.
route_one_datagram_no_ttl(r, dgram) ==
    LET best == best_route(r, dgram.dst)
    IN  IF dgram.ttl <= 1 \/ best = {}
          THEN r
          ELSE LET e == CHOOSE e \in best : TRUE
               IN  interface_send(r, e.interface_num, dgram,
                                  CHOOSE ip \in (IF e.next_hop = {} THEN {dgram.dst} ELSE e.next_hop) : TRUE)

route_one_datagram(r, dgram) ==
    LET best == best_route(r, dgram.dst)
    IN  IF dgram.ttl <= 1 \/ best = {}
          THEN r
          ELSE LET e == CHOOSE e \in best : TRUE
                   next_ip == IF e.next_hop = {} THEN dgram.dst
                              ELSE CHOOSE ip \in e.next_hop : TRUE
               IN  interface_send(r, e.interface_num,
                                  [dgram EXCEPT !.ttl = @ - 1], next_ip)

\* Every datagram received so far, interface by interface
route(r) ==
    LET queued == FlattenSeq([i \in DOMAIN r.interfaces |-> r.interfaces[i].datagrams_out])
        emptied == [r EXCEPT !.interfaces =
                      [i \in DOMAIN @ |-> [@[i] EXCEPT !.datagrams_out = << >>]]]
    IN  FoldLeft(route_one_datagram, emptied, queued)
===============================================================================
