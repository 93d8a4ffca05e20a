---------------------------- MODULE InterfaceSystem ----------------------------
(***************************************************************************)
(* A NetworkInterface between a host that sends datagrams and a network    *)
(* from which any frame may arrive at any time: late, repeated or missing  *)
(* ARP replies, replies with a new address, requests, frames for others.   *)
(***************************************************************************)
EXTENDS NetworkInterface

CONSTANTS
    Mac,             \* the Ethernet address of the interface
    Ip,              \* its IP address
    Hops,            \* the IP addresses of its neighbours
    Macs,            \* the Ethernet addresses the neighbours may have
    Datagrams,       \* bound: how many datagrams the host sends
    TickSizes        \* the values of ms_since_last_tick

ASSUME InterfaceAssumption ==
    /\ Datagrams \in Nat /\ TickSizes \subseteq Nat
    /\ Ip \notin Hops /\ Mac \notin Macs
    /\ Broadcast \notin Macs \cup {Mac}
    /\ \A d \in 1 .. Datagrams : Malformed # [ident |-> d]
    /\ \A op \in {"REQUEST", "REPLY"}, m \in Macs, h \in Hops, t \in Hops \cup {Ip} :
         Malformed # ARPMessage(op, m, h, NoMac, t)

VARIABLES
    ni,              \* the interface
    out,             \* the frames the last call queued
    left,            \* history: the datagrams put in a frame by earlier calls
    sent,            \* history: the next hop of each datagram given to it so far
    learned,         \* history: the last address each neighbour was heard from,
                     \* and how long ago (counted up to EntryTTL)
    asked            \* history: how long ago each neighbour was asked for
                     \* (counted up to ReplyTTL)

vars == <<ni, out, left, sent, learned, asked>>

\* The numbers of the datagrams in a sequence of frames.  Datagrams are numbered
\* in the order in which they are given to the interface.
Carried(frames) ==
    {frames[j].payload.ident : j \in {i \in 1 .. Len(frames) : frames[i].type = "IPv4"}}

\* The owner of the interface takes the frames out after every call.
Called(i) ==
    /\ ni' = [i EXCEPT !.frames_out = << >>]
    /\ out' = i.frames_out
    /\ left' = left \cup Carried(out)

Init ==
    /\ ni = new_NetworkInterface(Mac, Ip)
    /\ out = << >> /\ left = {} /\ sent = << >>
    /\ learned = [h \in Hops |-> [mac |-> NoMac, age |-> EntryTTL]]
    /\ asked = [h \in Hops |-> ReplyTTL]

Requests(frames, h) ==
    {j \in 1 .. Len(frames) : /\ frames[j].type = "ARP"
                              /\ frames[j].payload.opcode = "REQUEST"
                              /\ frames[j].payload.target_ip_address = h}

SendDatagram(h) ==
    /\ Len(sent) < Datagrams
    /\ Called(send_datagram(ni, [ident |-> Len(sent) + 1], h))
    /\ sent' = Append(sent, h)
    /\ asked' = [x \in Hops |-> IF Requests(out', x) # {} THEN 0 ELSE asked[x]]
    /\ UNCHANGED learned

RecvARP(dst, opcode, mac, h, target) ==
    LET arp == ARPMessage(opcode, mac, h, NoMac, target)
    IN  /\ Called(recv_frame(ni, EthernetFrame(mac, dst, "ARP", arp)))
        /\ learned' = IF dst \in {Mac, Broadcast}
                        THEN [learned EXCEPT ![h] = [mac |-> mac, age |-> 0]]
                        ELSE learned
        /\ UNCHANGED <<sent, asked>>

\* An IPv4 frame, with a datagram or a payload that does not parse, or an ARP frame
\* that does not parse
Incoming == [ident |-> 0]

RecvOther(dst, type, payload) ==
    /\ type # "ARP" \/ payload = Malformed
    /\ Called(recv_frame(ni, EthernetFrame(NoMac, dst, type, payload)))
    /\ UNCHANGED <<sent, learned, asked>>

CountTo(bound, t) == IF t < bound THEN t ELSE bound

Tick(ms) ==
    /\ Called(interface_tick(ni, ms))
    /\ learned' = [h \in Hops |-> [mac |-> learned[h].mac,
                                   age |-> CountTo(EntryTTL, learned[h].age + ms)]]
    /\ asked' = [h \in Hops |-> CountTo(ReplyTTL, asked[h] + ms)]
    /\ UNCHANGED sent

Next ==
    \/ \E h \in Hops : SendDatagram(h)
    \/ \E dst \in {Mac, Broadcast, NoMac}, opcode \in {"REQUEST", "REPLY"},
          mac \in Macs, h \in Hops, target \in Hops \cup {Ip} :
         RecvARP(dst, opcode, mac, h, target)
    \/ \E dst \in {Mac, NoMac}, type \in {"IPv4", "ARP"}, payload \in {Malformed, Incoming} :
         RecvOther(dst, type, payload)
    \/ \E ms \in TickSizes : Tick(ms)

Spec == Init /\ [][Next]_vars

\* Time passes.
Fairness == WF_vars(\E ms \in TickSizes \ {0} : Tick(ms))

FairSpec == Spec /\ Fairness
-------------------------------------------------------------------------------
(***************************************************************************)
(* Properties                                                              *)
(***************************************************************************)
Table == ni.arp_table
Request == ni.arp_request_time
Waiting == ni.arp_wait_ipdata

TypeOK ==
    /\ ni = [ethernet_address |-> Mac, ip_address |-> Ip, frames_out |-> << >>,
             arp_table |-> Table, arp_request_time |-> Request,
             arp_wait_ipdata |-> Waiting]
    /\ DOMAIN Table \subseteq Hops
    /\ Table \in [DOMAIN Table -> [mac : Macs, age : Nat]]
    /\ DOMAIN Request \subseteq Hops /\ Request \in [DOMAIN Request -> Nat]
    /\ DOMAIN Waiting \subseteq Hops
    /\ Waiting \in [DOMAIN Waiting -> Seq([ident : 1 .. Datagrams])]
    /\ sent \in Seq(Hops)
    /\ learned \in [Hops -> [mac : Macs \cup {NoMac}, age : Nat]]
    /\ asked \in [Hops -> Nat]

\* Datagrams wait for an address exactly while a request for it is pending and has
\* not been answered: none waits without a request that will either be answered or
\* time out, and none waits for an address that is known.
WaitsForPendingRequest ==
    DOMAIN Waiting = DOMAIN Request \ DOMAIN Table

\* An address learned while a request was pending is younger than the request, so
\* it is not forgotten before the request is: this is why send_datagram never
\* finds a pending request with neither an address nor a queue.
TableOutlivesRequest ==
    \A h \in DOMAIN Table \cap DOMAIN Request : Table[h].age <= Request[h]

\* A frame with a datagram goes to the address its next hop was last heard from,
\* and that was less than EntryTTL ago ("active mappings last 30 seconds").
SentToFreshAddress ==
    \A j \in 1 .. Len(out) :
        out[j].type = "IPv4" =>
          LET h == sent[out[j].payload.ident]
          IN  out[j].dst = learned[h].mac /\ learned[h].age < EntryTTL

\* The table holds exactly the neighbours heard from within EntryTTL, each with
\* its latest address.
TableIsRecentlyHeard ==
    /\ DOMAIN Table = {h \in Hops : learned[h].age < EntryTTL}
    /\ \A h \in DOMAIN Table : Table[h] = learned[h]

\* The pending requests are exactly those sent within ReplyTTL, each with its age.
RequestIsRecentlyAsked ==
    /\ DOMAIN Request = {h \in Hops : asked[h] < ReplyTTL}
    /\ \A h \in DOMAIN Request : Request[h] = asked[h]

\* No two requests for the same address are sent within ReplyTTL of each other
\* ("pending mappings last five seconds").
RequestsRateLimited ==
    [][\A h \in Hops : Requests(out', h) # {} => asked[h] >= ReplyTTL]_vars

\* No datagram is sent twice, and the datagrams for one next hop leave in the order
\* in which they were given to the interface, those that waited included.
SentOnceInOrder ==
    \A i \in 1 .. Len(out) :
        out[i].type = "IPv4" =>
          LET d == out[i].payload.ident
          IN  /\ \A x \in left : x # d /\ (sent[x] = sent[d] => x < d)
              /\ \A j \in 1 .. Len(out) :
                    i < j /\ out[j].type = "IPv4" => d < out[j].payload.ident

\* A queue does not wait for ever: it is sent or given up when its request times
\* out.
QueuesEmpty == \A h \in Hops : []<>(h \notin DOMAIN Waiting)
===============================================================================
