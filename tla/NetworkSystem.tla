---------------------------- MODULE NetworkSystem ----------------------------
(***************************************************************************)
(* apps/network_simulator.cc: hosts and routers whose interfaces are       *)
(* joined by links of two or three interfaces.  The simulator has one      *)
(* router and serves the links in a fixed order; here there may be several *)
(* routers (so that datagrams can go round in circles), the routers and    *)
(* the links are served in any order, and hosts send at any time.          *)
(***************************************************************************)
EXTENDS Router, FiniteSets

CONSTANTS
    Hosts,           \* the hosts, each with one interface
    Routers,         \* the routers
    Ips,             \* Ips[n]: the addresses of node n's interfaces, a sequence
    HostNextHop,     \* HostNextHop[h]: where h sends all its datagrams
    Routes,          \* Routes[r]: the entries given to add_route, in order
    Links,           \* sequences of ports <<node, number of the interface>>
    Destinations,    \* the addresses the hosts send to
    Ttls,            \* the values of ttl they send with
    MaxSent          \* bound: datagrams sent in a behaviour

Nodes == Hosts \cup Routers
LinkSet == {Links[i] : i \in DOMAIN Links}
Ports(link) == {link[i] : i \in DOMAIN link}

VARIABLES
    node,            \* node[n]: a Router, or a Host as its one interface
    sent             \* history: the datagrams as sent, and by whom

vars == <<node, sent>>

\* The Ethernet address of an interface is its port.
NewNode(n) ==
    new_Router([i \in DOMAIN Ips[n] |-> new_AsyncNetworkInterface(<<n, i>>, Ips[n][i])])

\* Network::Network
Init ==
    /\ node = [n \in Nodes |-> IF n \in Hosts THEN NewNode(n)
                               ELSE FoldLeft(add_route, NewNode(n), Routes[n])]
    /\ sent = << >>

\* Host::send_to
SendTo(h, destination, ttl) ==
    LET dgram == [ident |-> Len(sent) + 1, dst |-> destination, ttl |-> ttl]
    IN  /\ Len(sent) < MaxSent
        /\ node' = [node EXCEPT ![h] = interface_send(@, 0, dgram, HostNextHop[h])]
        /\ sent' = Append(sent, [src |-> h, dgram |-> dgram])

Route(r) ==
    /\ node' = [node EXCEPT ![r] = route(@)]
    /\ UNCHANGED sent

-------------------------------------------------------------------------------
At(p) == node[p[1]].interfaces[p[2]]

\* Network::deliver, from each of the other ports of the link in its order.  The
\* frames were copied before the first delivery; what the deliveries add to p's
\* own queue stays there when the copied frames are cleared.
delivered(p, link) ==
    FoldLeft(async_recv_frame,
             [At(p) EXCEPT !.ni.frames_out = << >>],
             FlattenSeq([i \in DOMAIN link |->
                IF link[i] = p THEN << >> ELSE At(link[i]).ni.frames_out]))

exchange_frames(link) ==
    node' = [n \in Nodes |-> [node[n] EXCEPT !.interfaces =
               [i \in DOMAIN @ |-> IF <<n, i>> \in Ports(link)
                                     THEN delivered(<<n, i>>, link) ELSE @[i]]]]

Exchange(link) == exchange_frames(link) /\ UNCHANGED sent

Next ==
    \/ \E h \in Hosts, d \in Destinations, ttl \in Ttls : SendTo(h, d, ttl)
    \/ \E r \in Routers : Route(r)
    \/ \E link \in LinkSet : Exchange(link)

\* simulate() goes on serving every router and every link.
Fairness ==
    /\ \A r \in Routers : WF_vars(Route(r))
    /\ \A link \in LinkSet : WF_vars(Exchange(link))

Spec == Init /\ [][Next]_vars /\ Fairness
-------------------------------------------------------------------------------
(***************************************************************************)
(* What the documentation of add_route and route_one_datagram promises: a  *)
(* route applies when its prefix_length high-order bits are those of the   *)
(* destination, the longest such route is taken, the next hop of a route   *)
(* without one is the destination, and ttl falls at each router.           *)
(***************************************************************************)
Applies(e, ip) ==
    e.route_prefix \div 2^(AddrBits - e.prefix_length) = ip \div 2^(AddrBits - e.prefix_length)

Documented(r, ip) ==
    LET applicable == {Routes[r][i] : i \in {j \in DOMAIN Routes[r] : Applies(Routes[r][j], ip)}}
    IN  {e \in applicable : \A f \in applicable : e.prefix_length >= f.prefix_length}

PortsWith(ip, from) ==
    {p \in UNION {Ports(link) : link \in {l \in LinkSet : from \in Ports(l)}} \ {from} :
       Ips[p[1]][p[2]] = ip}

\* Where a datagram that leaves port `from` for address ip ends, and with which
\* ttl: at a host, dropped by a router, or waiting for an address nobody answers.
RECURSIVE Fate(_, _, _, _)
Fate(from, ip, dst, ttl) ==
    IF PortsWith(ip, from) = {} THEN [end |-> "waits", ttl |-> ttl]
    ELSE LET n == (CHOOSE p \in PortsWith(ip, from) : TRUE)[1]
         IN  IF n \in Hosts THEN [end |-> n, ttl |-> ttl]
             ELSE IF ttl <= 1 \/ Documented(n, dst) = {} THEN [end |-> "dropped", ttl |-> ttl]
             ELSE LET e == CHOOSE e \in Documented(n, dst) : TRUE
                  IN  Fate(<<n, e.interface_num + 1>>,
                           CHOOSE x \in IF e.next_hop = {} THEN {dst} ELSE e.next_hop : TRUE,
                           dst, ttl - 1)

FateOf(i) == Fate(<<sent[i].src, 1>>, HostNextHop[sent[i].src],
                  sent[i].dgram.dst, sent[i].dgram.ttl)

\* The idents of the datagrams in the queues of an interface: those received,
\* those in frames, those waiting for an address
Held(a) ==
    LET frames == SelectSeq(a.ni.frames_out, LAMBDA f : f.type = "IPv4")
        ips == SetToSeq(DOMAIN a.ni.arp_wait_ipdata)
        waiting == FlattenSeq([k \in DOMAIN ips |-> a.ni.arp_wait_ipdata[ips[k]]])
    IN  [j \in DOMAIN a.datagrams_out |-> a.datagrams_out[j].ident]
          \o [j \in DOMAIN frames |-> frames[j].payload.ident]
          \o [j \in DOMAIN waiting |-> waiting[j].ident]

PortSeq == FlattenSeq(Links)
InNetwork == FlattenSeq([k \in DOMAIN PortSeq |-> Held(At(PortSeq[k]))])

\* Every datagram a host receives was bound for it: it is where following the
\* longest matching route at each router leads, with ttl reduced by one at each.
ArrivesAsDocumented ==
    \A h \in Hosts : \A j \in DOMAIN node[h].interfaces[1].datagrams_out :
        LET d == node[h].interfaces[1].datagrams_out[j]
        IN  FateOf(d.ident) = [end |-> h, ttl |-> d.ttl]

\* A datagram is in at most one place: no link, ARP queue or router ever makes a
\* second copy of it, although a link of three shows every frame to two others.
NeverDuplicated == IsInjective(InNetwork)

\* Every datagram comes to its end: delivered to the host it was bound for, left
\* with an interface whose neighbour never answers, or dropped.  None is lost on
\* the way, and none circles between routers for ever.
Settled(i) ==
    LET fate == FateOf(i)
        Has(q) == \E j \in DOMAIN q : q[j].ident = i
    IN  CASE fate.end = "dropped" -> i \notin Range(InNetwork)
          [] fate.end = "waits" -> \E p \in Range(PortSeq) :
                \E ip \in DOMAIN At(p).ni.arp_wait_ipdata : Has(At(p).ni.arp_wait_ipdata[ip])
          [] OTHER -> Has(At(<<fate.end, 1>>).datagrams_out)

EveryDatagramSettles == <>[](\A i \in DOMAIN sent : Settled(i))
===============================================================================
