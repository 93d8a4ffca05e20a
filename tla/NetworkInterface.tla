--------------------------- MODULE NetworkInterface ---------------------------
(***************************************************************************)
(* libsponge/network_interface.{hh,cc}: sends IPv4 datagrams in Ethernet   *)
(* frames, and finds the Ethernet address of the next hop with ARP.        *)
(* Datagrams are opaque; serialize and parse of a frame's payload are      *)
(* inverse to each other, and a payload that does not parse is Malformed.  *)
(***************************************************************************)
EXTENDS Integers, Sequences

CONSTANTS
    EntryTTL,        \* ARP_ENTRY_TTL_MS, 30000
    ReplyTTL,        \* ARP_REPLY_TTL_MS, 5000
    Broadcast,       \* ETHERNET_BROADCAST
    NoMac,           \* the all-zero address of an ARP request's target
    Malformed        \* a payload that parse rejects

ASSUME TTLAssumption ==
    /\ EntryTTL \in Nat /\ ReplyTTL \in Nat \ {0} /\ ReplyTTL <= EntryTTL

new_NetworkInterface(mac, ip) ==
    [ethernet_address |-> mac, ip_address |-> ip, frames_out |-> << >>,
     arp_table |-> << >>,          \* IP address -> [mac, age]
     arp_request_time |-> << >>,   \* IP address -> time since the request
     arp_wait_ipdata |-> << >>]    \* IP address -> datagrams waiting for its reply

\* operator[] of a map used to assign, map::insert (which keeps an entry that is
\* already there) and map::erase
map_set(m, k, v) == [x \in DOMAIN m \cup {k} |-> IF x = k THEN v ELSE m[x]]
map_insert(m, k, v) == IF k \in DOMAIN m THEN m ELSE map_set(m, k, v)
map_remove(m, K) == [x \in DOMAIN m \ K |-> m[x]]

ARPMessage(opcode, sender_mac, sender_ip, target_mac, target_ip) ==
    [opcode |-> opcode, sender_ethernet_address |-> sender_mac,
     sender_ip_address |-> sender_ip, target_ethernet_address |-> target_mac,
     target_ip_address |-> target_ip]

\* push_datagram puts the payload in a frame and queues it.
EthernetFrame(src, dst, type, payload) ==
    [src |-> src, dst |-> dst, type |-> type, payload |-> payload]

push_datagram(ni, dst, type, payload) ==
    [ni EXCEPT !.frames_out =
       Append(@, EthernetFrame(ni.ethernet_address, dst, type, payload))]

-------------------------------------------------------------------------------
send_request(ni, ip) ==
    push_datagram(ni, Broadcast, "ARP",
                  ARPMessage("REQUEST", ni.ethernet_address, ni.ip_address, NoMac, ip))

\* The three cases of send_datagram: the address is known; it is not and has not
\* been asked for lately; it has been asked for.
send_known(ni, dgram, next_hop) ==
    push_datagram(ni, ni.arp_table[next_hop].mac, "IPv4", dgram)

note_request(ni, ip) ==
    [ni EXCEPT !.arp_request_time = map_insert(@, ip, 0)]

ask_and_wait(ni, dgram, next_hop) ==
    LET requested == note_request(send_request(ni, next_hop), next_hop)
    IN  [requested EXCEPT !.arp_wait_ipdata = map_insert(@, next_hop, <<dgram>>)]

wait_too(ni, dgram, next_hop) ==
    [ni EXCEPT !.arp_wait_ipdata =
       map_set(@, next_hop, IF next_hop \in DOMAIN @
                              THEN Append(@[next_hop], dgram) ELSE <<dgram>>)]

\* Variant: each datagram for an unknown address asks for it.
send_datagram_always_asks(ni, dgram, next_hop) ==
    IF next_hop \in DOMAIN ni.arp_table
      THEN send_known(ni, dgram, next_hop)
      ELSE wait_too(note_request(send_request(ni, next_hop), next_hop), dgram, next_hop)

send_datagram(ni, dgram, next_hop) ==
    IF next_hop \in DOMAIN ni.arp_table
      THEN send_known(ni, dgram, next_hop)
    ELSE IF next_hop \notin DOMAIN ni.arp_request_time
      THEN ask_and_wait(ni, dgram, next_hop)
      ELSE wait_too(ni, dgram, next_hop)

-------------------------------------------------------------------------------
\* Variant: the target's addresses are learned.
learn_target(ni, arp) ==
    [ni EXCEPT !.arp_table =
       map_set(@, arp.target_ip_address,
               [mac |-> arp.target_ethernet_address, age |-> 0])]

learn(ni, arp) ==
    [ni EXCEPT !.arp_table =
       map_set(@, arp.sender_ip_address,
               [mac |-> arp.sender_ethernet_address, age |-> 0])]

reply_if_asked(ni, arp) ==
    IF arp.opcode = "REQUEST" /\ arp.target_ip_address = ni.ip_address
      THEN push_datagram(ni, arp.sender_ethernet_address, "ARP",
             ARPMessage("REPLY", ni.ethernet_address, ni.ip_address,
                        arp.sender_ethernet_address, arp.sender_ip_address))
      ELSE ni

\* Variant: the datagram that waited longest goes last.
frames_to_reversed(mac, data, src) ==
    [j \in 1 .. Len(data) |-> EthernetFrame(src, mac, "IPv4", data[Len(data) + 1 - j])]

\* One frame for each datagram, in order
frames_to(mac, data, src) ==
    [j \in 1 .. Len(data) |-> EthernetFrame(src, mac, "IPv4", data[j])]

send_waiting(ni, ip, mac) ==
    [ni EXCEPT !.frames_out =
       @ \o frames_to(mac, ni.arp_wait_ipdata[ip], ni.ethernet_address)]

erase_waiting(ni, ips) ==
    [ni EXCEPT !.arp_wait_ipdata = map_remove(@, ips)]

flush_waiting(ni, arp) ==
    LET ip == arp.sender_ip_address
    IN  IF ip \in DOMAIN ni.arp_wait_ipdata
          THEN erase_waiting(send_waiting(ni, ip, arp.sender_ethernet_address), {ip})
          ELSE ni

\* Variant: every frame on the link is taken.
for_us_any(ni, frame) == TRUE

for_us(ni, frame) == frame.dst \in {ni.ethernet_address, Broadcast}

recv_frame(ni, frame) ==
    IF for_us(ni, frame) /\ frame.type = "ARP" /\ frame.payload # Malformed
      THEN flush_waiting(reply_if_asked(learn(ni, frame.payload), frame.payload),
                         frame.payload)
      ELSE ni

\* What recv_frame returns: the datagram of an IPv4 frame, as a set of at most one
received_datagram(ni, frame) ==
    IF for_us(ni, frame) /\ frame.type = "IPv4" /\ frame.payload # Malformed
      THEN {frame.payload} ELSE {}

-------------------------------------------------------------------------------
\* Variant: an entry lives one tick too long.
age_table_late(ni, ms) ==
    LET t == ni.arp_table
    IN  [ni EXCEPT !.arp_table =
           [ip \in {x \in DOMAIN t : t[x].age < EntryTTL} |->
              [mac |-> t[ip].mac, age |-> t[ip].age + ms]]]

age_table(ni, ms) ==
    LET t == ni.arp_table
    IN  [ni EXCEPT !.arp_table =
           [ip \in {x \in DOMAIN t : t[x].age + ms < EntryTTL} |->
              [mac |-> t[ip].mac, age |-> t[ip].age + ms]]]

age_requests(ni, ms) ==
    LET r == ni.arp_request_time
    IN  [ni EXCEPT !.arp_request_time =
           [ip \in {x \in DOMAIN r : r[x] + ms < ReplyTTL} |-> r[ip] + ms]]

\* Variants: the datagrams outlive the request; a request with datagrams never ends.
interface_tick_keeps(ni, ms) == age_requests(age_table(ni, ms), ms)

interface_tick_restarts(ni, ms) ==
    LET r == ni.arp_request_time
        waits == {ip \in DOMAIN ni.arp_wait_ipdata : r[ip] + ms >= ReplyTTL}
        aged == age_requests(age_table(ni, ms), ms)
    IN  [aged EXCEPT !.arp_request_time =
           [ip \in DOMAIN @ \cup waits |-> IF ip \in waits THEN 0 ELSE @[ip]]]

\* The datagrams that wait for an address go when the request for it does.
interface_tick(ni, ms) ==
    LET r == ni.arp_request_time
        expired == {ip \in DOMAIN r : r[ip] + ms >= ReplyTTL}
    IN  erase_waiting(age_requests(age_table(ni, ms), ms), expired)
===============================================================================
