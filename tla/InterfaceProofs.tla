---------------------------- MODULE InterfaceProofs ----------------------------
(***************************************************************************)
(* Proofs about the NetworkInterface: for any set of neighbours and        *)
(* addresses, any times to live with ReplyTTL <= EntryTTL, and any         *)
(* sequence of calls and frames.                                           *)
(***************************************************************************)
EXTENDS InterfaceSystem, TLAPS

\* What waits for a next hop was sent to it.
QueuedForHop ==
    \A h \in DOMAIN Waiting : \A i \in 1 .. Len(Waiting[h]) :
        /\ Waiting[h][i].ident \in 1 .. Len(sent)
        /\ sent[Waiting[h][i].ident] = h

\* The inductive invariant.  WaitsForPendingRequest alone is not inductive: a tick
\* that forgets an address while its request is still pending would break it, and
\* TableOutlivesRequest says that this does not happen.
ARPInv ==
    /\ TypeOK
    /\ WaitsForPendingRequest
    /\ TableOutlivesRequest
    /\ TableIsRecentlyHeard
    /\ RequestIsRecentlyAsked
    /\ QueuedForHop

-------------------------------------------------------------------------------
(***************************************************************************)
(* What the methods return, on an interface written field by field         *)
(***************************************************************************)
Interface(t, r, w, f) ==
    [ethernet_address |-> Mac, ip_address |-> Ip, frames_out |-> f,
     arp_table |-> t, arp_request_time |-> r, arp_wait_ipdata |-> w]

\* The fields of an interface written in full
LEMMA InterfaceFields ==
  ASSUME NEW t, NEW r, NEW w, NEW f
  PROVE  /\ Interface(t, r, w, f).ethernet_address = Mac
         /\ Interface(t, r, w, f).ip_address = Ip
         /\ Interface(t, r, w, f).frames_out = f
         /\ Interface(t, r, w, f).arp_table = t
         /\ Interface(t, r, w, f).arp_request_time = r
         /\ Interface(t, r, w, f).arp_wait_ipdata = w
BY DEF Interface

\* An assignment to one field
LEMMA InterfaceAssign ==
  ASSUME NEW t, NEW r, NEW w, NEW f, NEW v
  PROVE  /\ [Interface(t, r, w, f) EXCEPT !.frames_out = v] = Interface(t, r, w, v)
         /\ [Interface(t, r, w, f) EXCEPT !.arp_table = v] = Interface(v, r, w, f)
         /\ [Interface(t, r, w, f) EXCEPT !.arp_request_time = v] = Interface(t, v, w, f)
         /\ [Interface(t, r, w, f) EXCEPT !.arp_wait_ipdata = v] = Interface(t, r, v, f)
BY DEF Interface

\* The fields of a frame, and those of an ARP message
LEMMA FrameFields ==
  ASSUME NEW src, NEW dst, NEW type, NEW p
  PROVE  /\ EthernetFrame(src, dst, type, p).src = src
         /\ EthernetFrame(src, dst, type, p).dst = dst
         /\ EthernetFrame(src, dst, type, p).type = type
         /\ EthernetFrame(src, dst, type, p).payload = p
BY DEF EthernetFrame

LEMMA MessageFields ==
  ASSUME NEW op, NEW m, NEW h, NEW tm, NEW t
  PROVE  /\ ARPMessage(op, m, h, tm, t).opcode = op
         /\ ARPMessage(op, m, h, tm, t).sender_ethernet_address = m
         /\ ARPMessage(op, m, h, tm, t).sender_ip_address = h
         /\ ARPMessage(op, m, h, tm, t).target_ip_address = t
BY DEF ARPMessage

\* push_datagram only adds a frame to the queue.
LEMMA PushForm ==
  ASSUME NEW t, NEW r, NEW w, NEW f, NEW dst, NEW type, NEW p
  PROVE  push_datagram(Interface(t, r, w, f), dst, type, p)
           = Interface(t, r, w, Append(f, EthernetFrame(Mac, dst, type, p)))
<1> DEFINE I == Interface(t, r, w, f)
           g == Append(I.frames_out, EthernetFrame(I.ethernet_address, dst, type, p))
<1>1. g = Append(f, EthernetFrame(Mac, dst, type, p))
  BY InterfaceFields
<1>2. push_datagram(I, dst, type, p) = [I EXCEPT !.frames_out = g]
  BY DEF push_datagram
<1> HIDE DEF g
<1>3. [I EXCEPT !.frames_out = g] = Interface(t, r, w, g)
  BY InterfaceAssign
<1> QED BY <1>1, <1>2, <1>3, Zenon

\* The three cases of send_datagram: the address is known
LEMMA KnownForm ==
  ASSUME NEW t, NEW r, NEW w, NEW f, NEW d, NEW h
  PROVE  send_known(Interface(t, r, w, f), d, h)
           = Interface(t, r, w, Append(f, EthernetFrame(Mac, t[h].mac, "IPv4", d)))
BY PushForm, InterfaceFields DEF send_known

\* ... it is asked for, and the datagram waits
LEMMA AskForm ==
  ASSUME NEW t, NEW r, NEW w, NEW f, NEW d, NEW h
  PROVE  ask_and_wait(Interface(t, r, w, f), d, h)
           = Interface(t, map_insert(r, h, 0), map_insert(w, h, <<d>>),
                       Append(f, EthernetFrame(Mac, Broadcast, "ARP",
                                   ARPMessage("REQUEST", Mac, Ip, NoMac, h))))
<1> DEFINE I == Interface(t, r, w, f)
           g == Append(f, EthernetFrame(Mac, Broadcast, "ARP",
                            ARPMessage("REQUEST", Mac, Ip, NoMac, h)))
           J == Interface(t, map_insert(r, h, 0), w, g)
<1>1. send_request(I, h) = Interface(t, r, w, g)
  BY PushForm, InterfaceFields DEF send_request
<1> HIDE DEF g
<1>2. note_request(Interface(t, r, w, g), h) = J
  BY DEF note_request, Interface
<1>3. [J EXCEPT !.arp_wait_ipdata = map_insert(@, h, <<d>>)]
        = Interface(t, map_insert(r, h, 0), map_insert(w, h, <<d>>), g)
  BY DEF Interface
<1> QED BY <1>1, <1>2, <1>3 DEF ask_and_wait, g

\* ... it has been asked for, and the datagram joins the queue
LEMMA WaitForm ==
  ASSUME NEW t, NEW r, NEW w, NEW f, NEW d, NEW h
  PROVE  wait_too(Interface(t, r, w, f), d, h)
           = Interface(t, r,
               map_set(w, h, IF h \in DOMAIN w THEN Append(w[h], d) ELSE <<d>>), f)
BY DEF wait_too, Interface

\* The steps of recv_frame on an ARP message
LEMMA LearnForm ==
  ASSUME NEW t, NEW r, NEW w, NEW f, NEW arp
  PROVE  learn(Interface(t, r, w, f), arp)
           = Interface(map_set(t, arp.sender_ip_address,
                         [mac |-> arp.sender_ethernet_address, age |-> 0]), r, w, f)
BY DEF learn, Interface

Reply(arp) ==
    EthernetFrame(Mac, arp.sender_ethernet_address, "ARP",
      ARPMessage("REPLY", Mac, Ip, arp.sender_ethernet_address, arp.sender_ip_address))

\* reply_if_asked adds at most one frame, the reply.
LEMMA ReplyForm ==
  ASSUME NEW t, NEW r, NEW w, NEW f, NEW arp
  PROVE  reply_if_asked(Interface(t, r, w, f), arp)
           = Interface(t, r, w,
               IF arp.opcode = "REQUEST" /\ arp.target_ip_address = Ip
                 THEN Append(f, Reply(arp)) ELSE f)
BY PushForm, InterfaceFields DEF reply_if_asked, Reply

\* flush_waiting sends a queue, if there is one, and removes it.
LEMMA FlushForm ==
  ASSUME NEW t, NEW r, NEW w, NEW f, NEW arp
  PROVE  flush_waiting(Interface(t, r, w, f), arp)
           = IF arp.sender_ip_address \in DOMAIN w
               THEN Interface(t, r, map_remove(w, {arp.sender_ip_address}),
                      f \o frames_to(arp.sender_ethernet_address, w[arp.sender_ip_address], Mac))
               ELSE Interface(t, r, w, f)
<1> DEFINE I == Interface(t, r, w, f)
           ip == arp.sender_ip_address
           mac == arp.sender_ethernet_address
           g == f \o frames_to(mac, w[ip], Mac)
<1>0. send_waiting(I, ip, mac) = [I EXCEPT !.frames_out = g]
  <2>1. I.frames_out \o frames_to(mac, I.arp_wait_ipdata[ip], I.ethernet_address) = g
    <3>1. I.frames_out = f /\ I.arp_wait_ipdata = w /\ I.ethernet_address = Mac
      BY InterfaceFields
    <3> QED BY <3>1, Zenon
  <2>2. send_waiting(I, ip, mac) =
          [I EXCEPT !.frames_out =
             I.frames_out \o frames_to(mac, I.arp_wait_ipdata[ip], I.ethernet_address)]
    BY DEF send_waiting
  <2> QED BY <2>1, <2>2, Zenon
<1> HIDE DEF g
<1>1. [I EXCEPT !.frames_out = g] = Interface(t, r, w, g)
  BY DEF Interface
<1>2. erase_waiting(Interface(t, r, w, g), {ip}) = Interface(t, r, map_remove(w, {ip}), g)
  BY DEF erase_waiting, Interface
<1> QED BY <1>0, <1>1, <1>2, InterfaceFields DEF flush_waiting, g

\* tick
AgedTable(t, ms) ==
    [ip \in {x \in DOMAIN t : t[x].age + ms < EntryTTL} |->
       [mac |-> t[ip].mac, age |-> t[ip].age + ms]]
AgedRequests(r, ms) ==
    [ip \in {x \in DOMAIN r : r[x] + ms < ReplyTTL} |-> r[ip] + ms]
Expired(r, ms) == {ip \in DOMAIN r : r[ip] + ms >= ReplyTTL}

\* tick ages both tables and removes the queues of the requests it drops.
LEMMA TickForm ==
  ASSUME NEW t, NEW r, NEW w, NEW f, NEW ms
  PROVE  interface_tick(Interface(t, r, w, f), ms)
           = Interface(AgedTable(t, ms), AgedRequests(r, ms),
                       map_remove(w, Expired(r, ms)), f)
<1> DEFINE t2 == AgedTable(t, ms)
           r2 == AgedRequests(r, ms)
           x == Expired(r, ms)
<1>1. age_table(Interface(t, r, w, f), ms) = Interface(t2, r, w, f)
  BY DEF age_table, Interface, AgedTable
<1> HIDE DEF t2
<1>2. age_requests(Interface(t2, r, w, f), ms) = Interface(t2, r2, w, f)
  BY DEF age_requests, Interface, AgedRequests
<1> HIDE DEF r2
<1>3. erase_waiting(Interface(t2, r2, w, f), x) = Interface(t2, r2, map_remove(w, x), f)
  BY DEF erase_waiting, Interface
<1> QED BY <1>1, <1>2, <1>3, InterfaceFields DEF interface_tick, t2, r2, Expired

-------------------------------------------------------------------------------
(***************************************************************************)
(* What the actions do                                                     *)
(***************************************************************************)
\* TypeOK gives the interface in full.
LEMMA NiForm == TypeOK => ni = Interface(Table, Request, Waiting, << >>)
BY DEF TypeOK, Interface

\* What a call that leaves the interface in a given form does to the state
LEMMA CalledForm ==
  ASSUME NEW t, NEW r, NEW w, NEW f, Called(Interface(t, r, w, f))
  PROVE  /\ ni' = Interface(Table', Request', Waiting', << >>)
         /\ Table' = t /\ Request' = r /\ Waiting' = w /\ out' = f
<1>1. ni' = Interface(t, r, w, << >>)
  BY InterfaceAssign DEF Called
<1>2. Table' = t /\ Request' = r /\ Waiting' = w
  BY <1>1, InterfaceFields DEF Table, Request, Waiting
<1> QED BY <1>1, <1>2, InterfaceFields DEF Called

NextDatagram == [ident |-> Len(sent) + 1]

\* SendDatagram: the address is known, or it is asked for, or it has been asked for.
LEMMA SendEffect ==
  ASSUME TypeOK, NEW h \in Hops, SendDatagram(h)
  PROVE  /\ ni' = Interface(Table', Request', Waiting', << >>)
         /\ Table' = Table
         /\ \/ /\ h \in DOMAIN Table
               /\ Request' = Request /\ Waiting' = Waiting
               /\ out' = Append(<< >>,
                           EthernetFrame(Mac, Table[h].mac, "IPv4", NextDatagram))
            \/ /\ h \notin DOMAIN Table /\ h \notin DOMAIN Request
               /\ Request' = map_insert(Request, h, 0)
               /\ Waiting' = map_insert(Waiting, h, <<NextDatagram>>)
               /\ out' = Append(<< >>, EthernetFrame(Mac, Broadcast, "ARP",
                                  ARPMessage("REQUEST", Mac, Ip, NoMac, h)))
            \/ /\ h \notin DOMAIN Table /\ h \in DOMAIN Request
               /\ Request' = Request
               /\ Waiting' = map_set(Waiting, h,
                               IF h \in DOMAIN Waiting
                                 THEN Append(Waiting[h], NextDatagram)
                                 ELSE <<NextDatagram>>)
               /\ out' = << >>
<1> DEFINE d == NextDatagram
           none == << >>
           I == Interface(Table, Request, Waiting, none)
<1>1. ni = I /\ Called(send_datagram(I, d, h))
  BY NiForm DEF SendDatagram, NextDatagram
<1>2. I.arp_table = Table /\ I.arp_request_time = Request
  BY InterfaceFields
<1> HIDE DEF I, d, none
<1>3. CASE h \in DOMAIN Table
  <2>1. send_datagram(I, d, h) = send_known(I, d, h)
    BY <1>2, <1>3 DEF send_datagram
  <2> DEFINE f == Append(none, EthernetFrame(Mac, Table[h].mac, "IPv4", d))
  <2>2. send_known(I, d, h) = Interface(Table, Request, Waiting, f)
    BY KnownForm DEF I
  <2> HIDE DEF f
  <2>3. /\ ni' = Interface(Table', Request', Waiting', << >>)
        /\ Table' = Table /\ Request' = Request /\ Waiting' = Waiting /\ out' = f
    BY <1>1, <2>1, <2>2, CalledForm
  <2> QED BY <1>3, <2>3, Zenon DEF f, d, none
<1>4. CASE h \notin DOMAIN Table /\ h \notin DOMAIN Request
  <2>1. send_datagram(I, d, h) = ask_and_wait(I, d, h)
    BY <1>2, <1>4 DEF send_datagram
  <2> DEFINE r == map_insert(Request, h, 0)
             w == map_insert(Waiting, h, <<d>>)
             f == Append(none, EthernetFrame(Mac, Broadcast, "ARP",
                                  ARPMessage("REQUEST", Mac, Ip, NoMac, h)))
  <2>2. ask_and_wait(I, d, h) = Interface(Table, r, w, f)
    BY AskForm DEF I
  <2> HIDE DEF r, w, f
  <2>3. /\ ni' = Interface(Table', Request', Waiting', << >>)
        /\ Table' = Table /\ Request' = r /\ Waiting' = w /\ out' = f
    BY <1>1, <2>1, <2>2, CalledForm
  <2> QED BY <1>4, <2>3, Zenon DEF r, w, f, d, none
<1>5. CASE h \notin DOMAIN Table /\ h \in DOMAIN Request
  <2>1. send_datagram(I, d, h) = wait_too(I, d, h)
    BY <1>2, <1>5 DEF send_datagram
  <2> DEFINE w == map_set(Waiting, h, IF h \in DOMAIN Waiting
                                        THEN Append(Waiting[h], d) ELSE <<d>>)
  <2>2. wait_too(I, d, h) = Interface(Table, Request, w, none)
    BY WaitForm DEF I
  <2> HIDE DEF w
  <2>3. /\ ni' = Interface(Table', Request', Waiting', << >>)
        /\ Table' = Table /\ Request' = Request /\ Waiting' = w /\ out' = none
    BY <1>1, <2>1, <2>2, CalledForm
  <2> QED BY <1>5, <2>3, Zenon DEF w, d, none
<1> QED BY <1>3, <1>4, <1>5

\* A frame that is not for the interface, does not parse or is not ARP changes
\* nothing; an ARP message teaches an address and sends what waits for it.
LEMMA IgnoreEffect ==
  ASSUME TypeOK, NEW i, Called(i), i = ni
  PROVE  /\ ni' = Interface(Table', Request', Waiting', << >>)
         /\ Table' = Table /\ Request' = Request /\ Waiting' = Waiting /\ out' = << >>
BY NiForm, CalledForm

ReplyOut(opcode, mac, h, target) ==
    IF opcode = "REQUEST" /\ target = Ip
      THEN Append(<< >>, Reply(ARPMessage(opcode, mac, h, NoMac, target))) ELSE << >>

ArpOutput(opcode, mac, h, target, w) ==
    IF h \in DOMAIN w
      THEN ReplyOut(opcode, mac, h, target) \o frames_to(mac, w[h], Mac)
      ELSE ReplyOut(opcode, mac, h, target)

\* What an ARP message does to the tables, the queues and the frames sent
LEMMA ArpEffect ==
  ASSUME TypeOK, NEW dst \in {Mac, Broadcast, NoMac}, NEW opcode \in {"REQUEST", "REPLY"},
         NEW mac \in Macs, NEW h \in Hops, NEW target \in Hops \cup {Ip},
         RecvARP(dst, opcode, mac, h, target), dst \in {Mac, Broadcast}
  PROVE  /\ ni' = Interface(Table', Request', Waiting', << >>)
         /\ Table' = map_set(Table, h, [mac |-> mac, age |-> 0])
         /\ Request' = Request
         /\ \/ h \in DOMAIN Waiting /\ Waiting' = map_remove(Waiting, {h})
            \/ h \notin DOMAIN Waiting /\ Waiting' = Waiting
         /\ out' = ArpOutput(opcode, mac, h, target, Waiting)
<1> DEFINE arp == ARPMessage(opcode, mac, h, NoMac, target)
           frame == EthernetFrame(mac, dst, "ARP", arp)
           I == Interface(Table, Request, Waiting, << >>)
           t == map_set(Table, h, [mac |-> mac, age |-> 0])
           f == ReplyOut(opcode, mac, h, target)
<1>1. ni = I /\ Called(recv_frame(I, frame))
  BY NiForm DEF RecvARP
<1>2. /\ arp.opcode = opcode /\ arp.sender_ip_address = h
      /\ arp.sender_ethernet_address = mac /\ arp.target_ip_address = target
  BY DEF ARPMessage
<1>3. for_us(I, frame) /\ frame.type = "ARP" /\ frame.payload = arp
  BY InterfaceFields DEF for_us, EthernetFrame
<1>4. arp # Malformed
  BY InterfaceAssumption
<1> HIDE DEF arp, frame, I
<1>5. recv_frame(I, frame) = flush_waiting(reply_if_asked(learn(I, arp), arp), arp)
  BY <1>3, <1>4 DEF recv_frame
<1>6. learn(I, arp) = Interface(t, Request, Waiting, << >>)
  BY <1>2, LearnForm DEF I
<1>7. reply_if_asked(Interface(t, Request, Waiting, << >>), arp)
        = Interface(t, Request, Waiting, f)
  <2>1. f = IF arp.opcode = "REQUEST" /\ arp.target_ip_address = Ip
              THEN Append(<< >>, Reply(arp)) ELSE << >>
    BY <1>2 DEF ReplyOut, arp
  <2> HIDE DEF f, t
  <2> QED BY <2>1, ReplyForm, Zenon
<1> HIDE DEF t, f
<1>8. flush_waiting(Interface(t, Request, Waiting, f), arp)
        = IF h \in DOMAIN Waiting
            THEN Interface(t, Request, map_remove(Waiting, {h}),
                           f \o frames_to(mac, Waiting[h], Mac))
            ELSE Interface(t, Request, Waiting, f)
  BY <1>2, FlushForm
<1>9. CASE h \in DOMAIN Waiting
  <2> DEFINE g == f \o frames_to(mac, Waiting[h], Mac)
             w == map_remove(Waiting, {h})
  <2>1. Called(Interface(t, Request, w, g))
    BY <1>1, <1>5, <1>6, <1>7, <1>8, <1>9
  <2>2. ArpOutput(opcode, mac, h, target, Waiting) = g
    BY <1>9 DEF ArpOutput, f
  <2> HIDE DEF g, w
  <2> QED BY <1>9, <2>1, <2>2, CalledForm DEF t, w
<1>10. CASE h \notin DOMAIN Waiting
  <2>1. ArpOutput(opcode, mac, h, target, Waiting) = f
    BY <1>10 DEF ArpOutput, f
  <2> QED BY <1>1, <1>5, <1>6, <1>7, <1>8, <1>10, <2>1, CalledForm DEF t
<1> QED BY <1>9, <1>10

\* What tick does to the tables and the queues
LEMMA TickEffect ==
  ASSUME TypeOK, NEW ms \in TickSizes, Tick(ms)
  PROVE  /\ ni' = Interface(Table', Request', Waiting', << >>)
         /\ Table' = AgedTable(Table, ms)
         /\ Request' = AgedRequests(Request, ms)
         /\ Waiting' = map_remove(Waiting, Expired(Request, ms))
         /\ out' = << >>
BY NiForm, TickForm, CalledForm DEF Tick

-------------------------------------------------------------------------------
(***************************************************************************)
(* The invariant is inductive                                              *)
(***************************************************************************)
\* The constructor establishes the invariant.
LEMMA InitARP == Init => ARPInv
<1> SUFFICES ASSUME Init PROVE ARPInv
  OBVIOUS
<1> USE DEF Init
<1>1. /\ ni = Interface(<< >>, << >>, << >>, << >>)
      /\ Table = << >> /\ Request = << >> /\ Waiting = << >>
  BY DEF new_NetworkInterface, Interface, Table, Request, Waiting
<1>2. learned \in [Hops -> [mac : Macs \cup {NoMac}, age : Nat]]
  BY TTLAssumption
<1>3. asked \in [Hops -> Nat]
  BY TTLAssumption
<1>4. TypeOK
  BY <1>1, <1>2, <1>3 DEF TypeOK, Interface
<1>5. TableIsRecentlyHeard
  BY <1>1, TTLAssumption DEF TableIsRecentlyHeard
<1>6. RequestIsRecentlyAsked
  BY <1>1, TTLAssumption DEF RequestIsRecentlyAsked
<1> QED BY <1>1, <1>4, <1>5, <1>6
        DEF ARPInv, WaitsForPendingRequest, TableOutlivesRequest, QueuedForHop

\* A request is sent only by the call that asks for an address.
LEMMA SendAsks ==
  ASSUME TypeOK, NEW h \in Hops, SendDatagram(h)
  PROVE  /\ h \notin DOMAIN Table /\ h \notin DOMAIN Request =>
              asked' = [x \in Hops |-> IF x = h THEN 0 ELSE asked[x]]
         /\ h \in DOMAIN Table \/ h \in DOMAIN Request => asked' = asked
<1> USE SendEffect DEF SendDatagram
<1>1. CASE h \in DOMAIN Table
  <2>1. \A x \in Hops : Requests(out', x) = {}
    BY <1>1 DEF Requests, EthernetFrame
  <2> QED BY <1>1, <2>1 DEF TypeOK
<1>2. CASE h \notin DOMAIN Table /\ h \notin DOMAIN Request
  <2>1. out' = <<EthernetFrame(Mac, Broadcast, "ARP",
                   ARPMessage("REQUEST", Mac, Ip, NoMac, h))>>
    BY <1>2
  <2>2. \A x \in Hops : Requests(out', x) = IF x = h THEN {1} ELSE {}
    BY <2>1 DEF Requests, EthernetFrame, ARPMessage
  <2> QED BY <1>2, <2>2
<1>3. CASE h \notin DOMAIN Table /\ h \in DOMAIN Request
  <2>1. \A x \in Hops : Requests(out', x) = {}
    BY <1>3 DEF Requests
  <2> QED BY <1>3, <2>1 DEF TypeOK
<1> QED BY <1>1, <1>2, <1>3

Datagram == [ident : 1 .. Datagrams]

\* A datagram that is sent waits in the queue of its next hop, if anywhere.
LEMMA SendQueues ==
  ASSUME ARPInv, NEW h \in Hops, SendDatagram(h)
  PROVE  /\ DOMAIN Waiting' \subseteq Hops
         /\ Waiting' \in [DOMAIN Waiting' -> Seq(Datagram)]
         /\ DOMAIN Waiting' = IF h \in DOMAIN Table THEN DOMAIN Waiting
                              ELSE DOMAIN Waiting \cup {h}
         /\ QueuedForHop'
<1> USE DEF ARPInv
<1>1. TypeOK
  OBVIOUS
<1>2. sent \in Seq(Hops) /\ sent' = Append(sent, h)
  BY <1>1 DEF SendDatagram, TypeOK
<1>3. NextDatagram \in Datagram /\ NextDatagram.ident = Len(sent) + 1
  BY <1>2, InterfaceAssumption DEF NextDatagram, SendDatagram, Datagram
<1>4. /\ Len(sent') = Len(sent) + 1 /\ sent'[Len(sent) + 1] = h
      /\ \A i \in 1 .. Len(sent) : sent'[i] = sent[i]
  BY <1>2
<1>5. DOMAIN Waiting \subseteq Hops /\ Waiting \in [DOMAIN Waiting -> Seq(Datagram)]
  BY <1>1 DEF TypeOK, Datagram
<1>6. ASSUME NEW v \in Seq(Datagram), Waiting' = map_set(Waiting, h, v),
             h \notin DOMAIN Table,
             \A i \in 1 .. Len(v) : /\ v[i].ident \in 1 .. Len(sent')
                                    /\ sent'[v[i].ident] = h
      PROVE  /\ DOMAIN Waiting' \subseteq Hops
             /\ Waiting' \in [DOMAIN Waiting' -> Seq(Datagram)]
             /\ DOMAIN Waiting' = IF h \in DOMAIN Table THEN DOMAIN Waiting
                                  ELSE DOMAIN Waiting \cup {h}
             /\ QueuedForHop'
  <2>1. /\ DOMAIN Waiting' \subseteq Hops
        /\ Waiting' \in [DOMAIN Waiting' -> Seq(Datagram)]
        /\ DOMAIN Waiting' = DOMAIN Waiting \cup {h}
        /\ Waiting'[h] = v /\ \A x \in DOMAIN Waiting \ {h} : Waiting'[x] = Waiting[x]
    <3> DEFINE S == Seq(Datagram)
    <3>1. Waiting \in [DOMAIN Waiting -> S] /\ v \in S
      BY <1>5, <1>6
    <3> HIDE DEF S
    <3>2. /\ DOMAIN Waiting' \subseteq Hops
          /\ Waiting' \in [DOMAIN Waiting' -> S]
          /\ DOMAIN Waiting' = DOMAIN Waiting \cup {h}
          /\ Waiting'[h] = v /\ \A x \in DOMAIN Waiting \ {h} : Waiting'[x] = Waiting[x]
      BY <1>5, <1>6, <3>1 DEF map_set
    <3> QED BY <3>2 DEF S
  <2>2. ASSUME NEW x \in DOMAIN Waiting', NEW i \in 1 .. Len(Waiting'[x])
        PROVE  Waiting'[x][i].ident \in 1 .. Len(sent') /\ sent'[Waiting'[x][i].ident] = x
    <3>1. CASE x = h
      BY <2>1, <2>2, <3>1, <1>6
    <3>2. CASE x # h
      <4>1. x \in DOMAIN Waiting /\ Waiting'[x] = Waiting[x]
        BY <2>1, <2>2, <3>2
      <4>2. Waiting[x][i].ident \in 1 .. Len(sent) /\ sent[Waiting[x][i].ident] = x
        BY <4>1, <2>2 DEF QueuedForHop
      <4> QED BY <4>1, <4>2, <1>2, <1>4
    <3> QED BY <3>1, <3>2
  <2> QED BY <1>6, <2>1, <2>2 DEF QueuedForHop
<1>7. CASE h \in DOMAIN Table
  <2>1. Waiting' = Waiting
    BY <1>1, <1>7, SendEffect
  <2> QED BY <1>2, <1>4, <1>5, <1>7, <2>1 DEF QueuedForHop
<1>8. CASE h \notin DOMAIN Table /\ h \notin DOMAIN Request
  <2>1. h \notin DOMAIN Waiting
    BY <1>8 DEF WaitsForPendingRequest
  <2> DEFINE v == <<NextDatagram>>
  <2>2. Waiting' = map_set(Waiting, h, v)
    BY <1>1, <1>8, <2>1, SendEffect DEF map_insert
  <2>3. v \in Seq(Datagram) /\ Len(v) = 1 /\ v[1] = NextDatagram
    BY <1>3
  <2> HIDE DEF v
  <2>4. \A i \in 1 .. Len(v) : v[i].ident \in 1 .. Len(sent') /\ sent'[v[i].ident] = h
    BY <1>2, <1>3, <1>4, <2>3
  <2> QED BY <1>6, <1>8, <2>2, <2>3, <2>4
<1>9. CASE h \notin DOMAIN Table /\ h \in DOMAIN Request
  <2>1. h \in DOMAIN Waiting
    BY <1>9 DEF WaitsForPendingRequest
  <2> DEFINE v == Append(Waiting[h], NextDatagram)
  <2>2. Waiting' = map_set(Waiting, h, v)
    BY <1>1, <1>9, <2>1, SendEffect
  <2>3. Waiting[h] \in Seq(Datagram)
    BY <1>5, <2>1
  <2>4. v \in Seq(Datagram) /\ Len(v) = Len(Waiting[h]) + 1
        /\ v[Len(Waiting[h]) + 1] = NextDatagram
        /\ \A i \in 1 .. Len(Waiting[h]) : v[i] = Waiting[h][i]
    BY <1>3, <2>3
  <2>5. \A i \in 1 .. Len(Waiting[h]) : /\ Waiting[h][i].ident \in 1 .. Len(sent)
                                        /\ sent[Waiting[h][i].ident] = h
    BY <2>1 DEF QueuedForHop
  <2> HIDE DEF v
  <2>6. ASSUME NEW i \in 1 .. Len(v)
        PROVE  v[i].ident \in 1 .. Len(sent') /\ sent'[v[i].ident] = h
    <3>1. CASE i = Len(Waiting[h]) + 1
      BY <1>2, <1>3, <1>4, <2>4, <3>1
    <3>2. CASE i # Len(Waiting[h]) + 1
      <4>1. i \in 1 .. Len(Waiting[h]) /\ v[i] = Waiting[h][i]
        BY <2>3, <2>4, <3>2
      <4>2. v[i].ident \in 1 .. Len(sent) /\ sent[v[i].ident] = h
        BY <2>5, <4>1
      <4> QED BY <1>2, <1>4, <4>2
    <3> QED BY <3>1, <3>2
  <2> QED BY <1>6, <1>9, <2>2, <2>4, <2>6
<1> QED BY <1>7, <1>8, <1>9

\* A request that is sent is recorded with age 0.
LEMMA SendRequests ==
  ASSUME ARPInv, NEW h \in Hops, SendDatagram(h)
  PROVE  /\ DOMAIN Request' \subseteq Hops /\ Request' \in [DOMAIN Request' -> Nat]
         /\ DOMAIN Request' = IF h \in DOMAIN Table THEN DOMAIN Request
                              ELSE DOMAIN Request \cup {h}
         /\ asked' \in [Hops -> Nat]
         /\ RequestIsRecentlyAsked'
<1>1. TypeOK /\ RequestIsRecentlyAsked
  BY DEF ARPInv
<1>2. /\ DOMAIN Request \subseteq Hops /\ Request \in [DOMAIN Request -> Nat]
      /\ asked \in [Hops -> Nat]
  BY <1>1 DEF TypeOK
<1>3. CASE h \in DOMAIN Table
  <2>1. Request' = Request /\ asked' = asked
    BY <1>1, <1>3, SendEffect, SendAsks
  <2> QED BY <1>1, <1>2, <1>3, <2>1 DEF RequestIsRecentlyAsked
<1>4. CASE h \notin DOMAIN Table /\ h \notin DOMAIN Request
  <2>1. Request' = map_set(Request, h, 0)
    BY <1>1, <1>4, SendEffect DEF map_insert
  <2>2. /\ DOMAIN Request' = DOMAIN Request \cup {h}
        /\ DOMAIN Request' \subseteq Hops /\ Request' \in [DOMAIN Request' -> Nat]
        /\ Request'[h] = 0 /\ \A x \in DOMAIN Request \ {h} : Request'[x] = Request[x]
    BY <1>2, <2>1 DEF map_set
  <2>3. asked' = [x \in Hops |-> IF x = h THEN 0 ELSE asked[x]]
    BY <1>1, <1>4, SendAsks
  <2>4. RequestIsRecentlyAsked'
    BY <1>1, <1>2, <1>4, <2>2, <2>3, TTLAssumption DEF RequestIsRecentlyAsked
  <2> QED BY <1>2, <1>4, <2>2, <2>3, <2>4
<1>5. CASE h \notin DOMAIN Table /\ h \in DOMAIN Request
  <2>1. Request' = Request /\ asked' = asked
    BY <1>1, <1>5, SendEffect, SendAsks
  <2> QED BY <1>1, <1>2, <1>5, <2>1 DEF RequestIsRecentlyAsked
<1> QED BY <1>3, <1>4, <1>5

\* send_datagram preserves the invariant.
LEMMA SendInv ==
  ASSUME ARPInv, NEW h \in Hops, SendDatagram(h)
  PROVE  ARPInv'
<1>1. TypeOK
  BY DEF ARPInv
<1>2. /\ ni' = Interface(Table', Request', Waiting', << >>)
      /\ Table' = Table
  BY <1>1, SendEffect
<1>3. learned' = learned /\ sent' \in Seq(Hops)
  BY <1>1 DEF SendDatagram, TypeOK
<1>4. TypeOK'
  BY <1>1, <1>2, <1>3, SendQueues, SendRequests DEF TypeOK, Interface, Datagram
<1>5. WaitsForPendingRequest'
  BY <1>2, SendQueues, SendRequests DEF WaitsForPendingRequest, ARPInv
<1>6. TableIsRecentlyHeard'
  BY <1>2, <1>3 DEF TableIsRecentlyHeard, ARPInv
<1>7. TableOutlivesRequest'
  <2> SUFFICES ASSUME NEW x \in DOMAIN Table' \cap DOMAIN Request'
               PROVE  Table'[x].age <= Request'[x]
    BY DEF TableOutlivesRequest
  <2>1. x \in DOMAIN Table \cap DOMAIN Request
    BY <1>2, SendRequests
  <2>2. Request'[x] = Request[x]
    <3>1. x # h \/ h \in DOMAIN Table
      BY <2>1
    <3>2. asked'[x] = asked[x]
      BY <1>1, <2>1, <3>1, SendAsks DEF TypeOK
    <3> QED BY <2>1, <3>2, SendRequests DEF RequestIsRecentlyAsked, ARPInv
  <2> QED BY <1>2, <2>1, <2>2 DEF TableOutlivesRequest, ARPInv
<1> QED BY <1>4, <1>5, <1>6, <1>7, SendQueues, SendRequests DEF ARPInv

\* Queues are removed whole.
LEMMA QueuesRemoved ==
  ASSUME ARPInv, NEW X, Waiting' = map_remove(Waiting, X) \/ (X = {} /\ Waiting' = Waiting),
         sent' = sent
  PROVE  /\ DOMAIN Waiting' = DOMAIN Waiting \ X
         /\ DOMAIN Waiting' \subseteq Hops
         /\ Waiting' \in [DOMAIN Waiting' -> Seq(Datagram)]
         /\ QueuedForHop'
<1> DEFINE S == Seq(Datagram)
<1>1. DOMAIN Waiting \subseteq Hops /\ Waiting \in [DOMAIN Waiting -> S]
  BY DEF ARPInv, TypeOK, Datagram
<1> HIDE DEF S
<1>2. /\ DOMAIN Waiting' = DOMAIN Waiting \ X
      /\ Waiting' \in [DOMAIN Waiting' -> S]
      /\ \A x \in DOMAIN Waiting \ X : Waiting'[x] = Waiting[x]
  BY <1>1 DEF map_remove
<1>3. QueuedForHop'
  BY <1>2 DEF QueuedForHop, ARPInv
<1> QED BY <1>1, <1>2, <1>3 DEF S

\* A step that changes neither the tables, the queues nor what they are compared with
LEMMA IdleInv ==
  ASSUME ARPInv, ni' = ni, sent' = sent, learned' = learned, asked' = asked
  PROVE  ARPInv'
BY DEF ARPInv, TypeOK, WaitsForPendingRequest, TableOutlivesRequest,
       TableIsRecentlyHeard, RequestIsRecentlyAsked, QueuedForHop, Table, Request, Waiting

\* An ARP message makes an address known and ends the wait for it.
LEMMA ArpInv ==
  ASSUME ARPInv, NEW dst \in {Mac, Broadcast, NoMac}, NEW opcode \in {"REQUEST", "REPLY"},
         NEW mac \in Macs, NEW h \in Hops, NEW target \in Hops \cup {Ip},
         RecvARP(dst, opcode, mac, h, target), dst \in {Mac, Broadcast}
  PROVE  ARPInv'
<1> DEFINE e == [mac |-> mac, age |-> 0]
           S == [mac : Macs, age : Nat]
           L == [mac : Macs \cup {NoMac}, age : Nat]
<1>1. TypeOK
  BY DEF ARPInv
<1>2. /\ ni' = Interface(Table', Request', Waiting', << >>)
      /\ Table' = map_set(Table, h, e) /\ Request' = Request
      /\ Waiting' = map_remove(Waiting, {h}) \/ (h \notin DOMAIN Waiting /\ Waiting' = Waiting)
  BY <1>1, ArpEffect
<1>3. sent' = sent /\ asked' = asked /\ learned' = [learned EXCEPT ![h] = e]
  BY DEF RecvARP
<1>4. e \in S /\ e \in L /\ e.age = 0
  OBVIOUS
<1>5. /\ DOMAIN Table \subseteq Hops /\ Table \in [DOMAIN Table -> S]
      /\ learned \in [Hops -> L]
      /\ DOMAIN Request \subseteq Hops /\ Request \in [DOMAIN Request -> Nat]
  BY <1>1 DEF TypeOK
<1> HIDE DEF e, S, L
<1>6. /\ DOMAIN Table' = DOMAIN Table \cup {h} /\ DOMAIN Table' \subseteq Hops
      /\ Table' \in [DOMAIN Table' -> S] /\ Table'[h] = e
      /\ \A x \in DOMAIN Table \ {h} : Table'[x] = Table[x]
  BY <1>2, <1>4, <1>5 DEF map_set
<1>7. learned' \in [Hops -> L] /\ learned'[h] = e
      /\ \A x \in Hops \ {h} : learned'[x] = learned[x]
  BY <1>3, <1>4, <1>5
<1>8. /\ DOMAIN Waiting' = DOMAIN Waiting \ {h} /\ DOMAIN Waiting' \subseteq Hops
      /\ Waiting' \in [DOMAIN Waiting' -> Seq(Datagram)]
      /\ QueuedForHop'
  <2>1. CASE Waiting' = map_remove(Waiting, {h})
    BY <1>3, <2>1, QueuesRemoved
  <2>2. CASE h \notin DOMAIN Waiting /\ Waiting' = Waiting
    BY <1>3, <2>2, QueuesRemoved, ZenonT(60)
  <2>3. \/ Waiting' = map_remove(Waiting, {h})
        \/ h \notin DOMAIN Waiting /\ Waiting' = Waiting
    BY <1>2
  <2> QED BY <2>1, <2>2, <2>3, Zenon
<1>9. TypeOK'
  BY <1>1, <1>2, <1>3, <1>6, <1>7, <1>8 DEF TypeOK, Interface, Datagram, S, L
<1>10. WaitsForPendingRequest'
  BY <1>2, <1>6, <1>8 DEF WaitsForPendingRequest, ARPInv
<1>11. TableOutlivesRequest'
  BY <1>2, <1>4, <1>5, <1>6 DEF TableOutlivesRequest, ARPInv
<1>12. TableIsRecentlyHeard'
  BY <1>4, <1>5, <1>6, <1>7, TTLAssumption, SMTT(30) DEF TableIsRecentlyHeard, ARPInv
<1>13. RequestIsRecentlyAsked'
  BY <1>2, <1>3 DEF RequestIsRecentlyAsked, ARPInv
<1> QED BY <1>8, <1>9, <1>10, <1>11, <1>12, <1>13 DEF ARPInv

\* Time passes: addresses are forgotten after EntryTTL, requests and what waits for
\* them after ReplyTTL.
LEMMA TickInv ==
  ASSUME ARPInv, NEW ms \in TickSizes, Tick(ms)
  PROVE  ARPInv'
<1> DEFINE S == [mac : Macs, age : Nat]
           L == [mac : Macs \cup {NoMac}, age : Nat]
<1>1. TypeOK /\ ms \in Nat /\ EntryTTL \in Nat /\ ReplyTTL \in Nat /\ ReplyTTL <= EntryTTL
  BY InterfaceAssumption, TTLAssumption DEF ARPInv
<1>2. /\ ni' = Interface(Table', Request', Waiting', << >>)
      /\ Table' = AgedTable(Table, ms) /\ Request' = AgedRequests(Request, ms)
      /\ Waiting' = map_remove(Waiting, Expired(Request, ms))
  BY <1>1, TickEffect
<1>3. /\ sent' = sent
      /\ learned' = [h \in Hops |-> [mac |-> learned[h].mac,
                                     age |-> CountTo(EntryTTL, learned[h].age + ms)]]
      /\ asked' = [h \in Hops |-> CountTo(ReplyTTL, asked[h] + ms)]
  BY DEF Tick
<1>4. /\ DOMAIN Table \subseteq Hops /\ Table \in [DOMAIN Table -> S]
      /\ DOMAIN Request \subseteq Hops /\ Request \in [DOMAIN Request -> Nat]
      /\ learned \in [Hops -> L] /\ asked \in [Hops -> Nat]
  BY <1>1 DEF TypeOK
<1>5. /\ DOMAIN Table' = {x \in DOMAIN Table : Table[x].age + ms < EntryTTL}
      /\ Table' \in [DOMAIN Table' -> S]
      /\ \A x \in DOMAIN Table' : Table'[x] = [mac |-> Table[x].mac, age |-> Table[x].age + ms]
  BY <1>1, <1>2, <1>4 DEF AgedTable
<1>6. /\ DOMAIN Request' = {x \in DOMAIN Request : Request[x] + ms < ReplyTTL}
      /\ Request' \in [DOMAIN Request' -> Nat]
      /\ \A x \in DOMAIN Request' : Request'[x] = Request[x] + ms
  BY <1>1, <1>2, <1>4 DEF AgedRequests
<1>7. /\ DOMAIN Waiting' = DOMAIN Waiting \ Expired(Request, ms)
      /\ DOMAIN Waiting' \subseteq Hops
      /\ Waiting' \in [DOMAIN Waiting' -> Seq(Datagram)]
      /\ QueuedForHop'
  BY <1>2, <1>3, QueuesRemoved
<1>8. /\ learned' \in [Hops -> L] /\ asked' \in [Hops -> Nat]
      /\ \A x \in Hops : learned'[x].mac = learned[x].mac /\
                         learned'[x].age = CountTo(EntryTTL, learned[x].age + ms)
  BY <1>1, <1>3, <1>4 DEF CountTo
<1>9. TypeOK'
  BY <1>1, <1>2, <1>3, <1>4, <1>5, <1>6, <1>7, <1>8 DEF TypeOK, Interface, Datagram
<1>10. TableOutlivesRequest'
  <2> SUFFICES ASSUME NEW x \in DOMAIN Table' \cap DOMAIN Request'
               PROVE  Table'[x].age <= Request'[x]
    BY DEF TableOutlivesRequest
  <2>1. Table[x].age \in Nat /\ Request[x] \in Nat /\ Table[x].age <= Request[x]
    BY <1>4, <1>5, <1>6 DEF TableOutlivesRequest, ARPInv
  <2>2. Table'[x] = [mac |-> Table[x].mac, age |-> Table[x].age + ms]
    BY <1>5
  <2>3. Table'[x].age = Table[x].age + ms
    BY <2>2
  <2>4. Request'[x] = Request[x] + ms
    BY <1>6
  <2> QED BY <1>1, <2>1, <2>3, <2>4
<1>11. WaitsForPendingRequest'
  <2>1. ASSUME NEW x \in DOMAIN Table \cap DOMAIN Request, x \notin DOMAIN Table'
        PROVE  x \notin DOMAIN Request'
    <3>1. Table[x].age \in Nat /\ Request[x] \in Nat /\ Table[x].age <= Request[x]
      BY <1>4, <2>1 DEF TableOutlivesRequest, ARPInv
    <3> QED BY <1>1, <1>5, <1>6, <2>1, <3>1
  <2>2. DOMAIN Request' = DOMAIN Request \ Expired(Request, ms)
    BY <1>1, <1>4, <1>6 DEF Expired
  <2>3. DOMAIN Table' \subseteq DOMAIN Table
    BY <1>5
  <2>4. DOMAIN Waiting = DOMAIN Request \ DOMAIN Table
    BY DEF WaitsForPendingRequest, ARPInv
  <2> QED BY <1>7, <2>1, <2>2, <2>3, <2>4 DEF WaitsForPendingRequest
<1>12. TableIsRecentlyHeard'
  <2>1. /\ DOMAIN Table = {h \in Hops : learned[h].age < EntryTTL}
        /\ \A h \in DOMAIN Table : Table[h] = learned[h]
    BY DEF TableIsRecentlyHeard, ARPInv
  <2>2. \A x \in Hops : learned[x].age \in Nat
    BY <1>4
  <2>3. \A x \in Hops : learned'[x].age < EntryTTL <=> learned[x].age + ms < EntryTTL
    BY <1>1, <1>8, <2>2 DEF CountTo
  <2>4. DOMAIN Table' = {h \in Hops : learned'[h].age < EntryTTL}
    BY <1>1, <1>5, <2>1, <2>2, <2>3
  <2>5. ASSUME NEW h \in DOMAIN Table'
        PROVE  Table'[h] = learned'[h]
    <3>1. /\ Table[h] = learned[h] /\ h \in Hops
          /\ Table'[h] = [mac |-> learned[h].mac, age |-> learned[h].age + ms]
          /\ learned[h].age + ms < EntryTTL
      BY <1>5, <2>1, <2>5
    <3>2. learned'[h] = [mac |-> learned[h].mac, age |-> learned[h].age + ms]
      BY <1>3, <3>1 DEF CountTo
    <3> QED BY <3>1, <3>2
  <2> QED BY <2>4, <2>5 DEF TableIsRecentlyHeard
<1>13. RequestIsRecentlyAsked'
  <2>1. /\ DOMAIN Request = {h \in Hops : asked[h] < ReplyTTL}
        /\ \A h \in DOMAIN Request : Request[h] = asked[h]
    BY DEF RequestIsRecentlyAsked, ARPInv
  <2>2. \A x \in Hops : asked'[x] = CountTo(ReplyTTL, asked[x] + ms)
    BY <1>3
  <2>3. DOMAIN Request' = {h \in Hops : asked'[h] < ReplyTTL}
    BY <1>1, <1>4, <1>6, <2>1, <2>2 DEF CountTo
  <2>4. \A h \in DOMAIN Request' : Request'[h] = asked'[h]
    BY <1>1, <1>4, <1>6, <2>1, <2>2 DEF CountTo
  <2> QED BY <2>3, <2>4 DEF RequestIsRecentlyAsked
<1> QED BY <1>7, <1>9, <1>10, <1>11, <1>12, <1>13 DEF ARPInv

\* A frame for somebody else, one with a datagram and one that does not parse leave
\* the interface as it was.
LEMMA IgnoredFrame ==
  ASSUME TypeOK, NEW src, NEW dst, NEW type, NEW payload,
         Called(recv_frame(ni, EthernetFrame(src, dst, type, payload))),
         dst \notin {Mac, Broadcast} \/ type # "ARP" \/ payload = Malformed
  PROVE  ni' = ni /\ out' = << >>
<1> DEFINE frame == EthernetFrame(src, dst, type, payload)
<1>1. frame.dst = dst /\ frame.type = type /\ frame.payload = payload
  BY DEF EthernetFrame
<1>2. ni.ethernet_address = Mac
  BY NiForm, InterfaceFields
<1> HIDE DEF frame
<1>3. recv_frame(ni, frame) = ni
  BY <1>1, <1>2 DEF recv_frame, for_us
<1>4. ni' = Interface(Table, Request, Waiting, << >>) /\ out' = << >>
  BY <1>3, NiForm, CalledForm DEF frame
<1> QED BY <1>4, NiForm

\* Every call preserves the invariant.
LEMMA NextInv == ARPInv /\ [Next]_vars => ARPInv'
<1> SUFFICES ASSUME ARPInv, [Next]_vars PROVE ARPInv'
  OBVIOUS
<1>0. TypeOK
  BY DEF ARPInv
<1>1. CASE \E h \in Hops : SendDatagram(h)
  BY <1>1, SendInv
<1>2. ASSUME NEW dst \in {Mac, Broadcast, NoMac}, NEW opcode \in {"REQUEST", "REPLY"},
             NEW mac \in Macs, NEW h \in Hops, NEW target \in Hops \cup {Ip},
             RecvARP(dst, opcode, mac, h, target)
      PROVE  ARPInv'
  <2>1. CASE dst \in {Mac, Broadcast}
    BY <1>2, <2>1, ArpInv
  <2>2. CASE dst \notin {Mac, Broadcast}
    BY <1>0, <1>2, <2>2, IgnoredFrame, IdleInv DEF RecvARP
  <2> QED BY <2>1, <2>2
<1>3. ASSUME NEW dst \in {Mac, NoMac}, NEW type \in {"IPv4", "ARP"},
             NEW payload \in {Malformed, Incoming}, RecvOther(dst, type, payload)
      PROVE  ARPInv'
  BY <1>0, <1>3, IgnoredFrame, IdleInv DEF RecvOther
<1>4. CASE \E ms \in TickSizes : Tick(ms)
  BY <1>4, TickInv
<1>5. CASE UNCHANGED vars
  BY <1>5, IdleInv DEF vars
<1> QED BY <1>1, <1>2, <1>3, <1>4, <1>5 DEF Next

\* send_datagram, recv_frame and tick keep the tables, the queues and the pending
\* requests in step with each other and with what was heard and asked.
THEOREM ARPInvariant == Spec => []ARPInv
BY InitARP, NextInv, PTL DEF Spec

\* network_interface.cc: the tables keep their types.
THEOREM TypeCorrect == Spec => []TypeOK
<1>1. ARPInv => TypeOK
  BY DEF ARPInv
<1> QED BY <1>1, ARPInvariant, PTL

\* send_datagram, recv_frame and tick together: a datagram waits exactly while a
\* request for its next hop is pending and unanswered.
THEOREM QueuedWhilePending == Spec => []WaitsForPendingRequest
<1>1. ARPInv => WaitsForPendingRequest
  BY DEF ARPInv
<1> QED BY <1>1, ARPInvariant, PTL

\* recv_frame and tick: the table holds the latest address of each neighbour heard
\* from within EntryTTL, and no other.
THEOREM TableIsFresh == Spec => []TableIsRecentlyHeard
<1>1. ARPInv => TableIsRecentlyHeard
  BY DEF ARPInv
<1> QED BY <1>1, ARPInvariant, PTL

-------------------------------------------------------------------------------
(***************************************************************************)
(* What is sent                                                            *)
(***************************************************************************)
\* recv_frame queues a reply or the datagrams that waited, in the order in which they
\* waited, and no request.
LEMMA ArpOut ==
  ASSUME TypeOK, NEW dst \in {Mac, Broadcast, NoMac}, NEW opcode \in {"REQUEST", "REPLY"},
         NEW mac \in Macs, NEW h \in Hops, NEW target \in Hops \cup {Ip},
         RecvARP(dst, opcode, mac, h, target), dst \in {Mac, Broadcast},
         NEW j \in 1 .. Len(out')
  PROVE  \/ /\ out'[j].type = "ARP" /\ out'[j].payload.opcode = "REPLY"
         \/ /\ h \in DOMAIN Waiting
            /\ \E i \in 1 .. Len(Waiting[h]) :
                 /\ out'[j] = EthernetFrame(Mac, mac, "IPv4", Waiting[h][i])
                 /\ j - i = Len(out') - Len(Waiting[h])
<1> DEFINE f == ReplyOut(opcode, mac, h, target)
           r == Reply(ARPMessage(opcode, mac, h, NoMac, target))
<1>1. r.type = "ARP" /\ r.payload.opcode = "REPLY"
  BY FrameFields, MessageFields DEF Reply
<1>2. f = << >> \/ f = <<r>>
  BY DEF ReplyOut
<1>0. out' = ArpOutput(opcode, mac, h, target, Waiting)
  BY ArpEffect
<1> HIDE DEF f, r
<1>3. CASE h \in DOMAIN Waiting
  <2> DEFINE g == frames_to(mac, Waiting[h], Mac)
             n == Len(Waiting[h])
             F == {EthernetFrame(Mac, mac, "IPv4", Waiting[h][i]) : i \in 1 .. n}
  <2>1. out' = f \o g
    BY <1>0, <1>3 DEF ArpOutput, f
  <2>2. n \in Nat
    BY <1>3 DEF TypeOK
  <2>3. /\ g \in [1 .. n -> F]
        /\ \A i \in 1 .. n : g[i] = EthernetFrame(Mac, mac, "IPv4", Waiting[h][i])
    BY <2>2 DEF frames_to
  <2> HIDE DEF g, n, F
  <2>4. g \in Seq(F) /\ Len(g) = n
    BY <2>2, <2>3
  <2>5. CASE f = << >>
    <3>1. j \in 1 .. n /\ out'[j] = g[j] /\ j - j = Len(out') - n
      BY <2>1, <2>2, <2>4, <2>5
    <3> QED BY <1>3, <2>3, <3>1 DEF n
  <2>6. CASE f = <<r>>
    <3>1. (j = 1 /\ out'[j] = r) \/ (j - 1 \in 1 .. n /\ out'[j] = g[j - 1])
      BY <2>1, <2>2, <2>4, <2>6
    <3>2. j - (j - 1) = Len(out') - n
      BY <2>1, <2>2, <2>4, <2>6
    <3> QED BY <1>1, <1>3, <2>3, <3>1, <3>2 DEF n
  <2> QED BY <1>2, <2>5, <2>6
<1>4. CASE h \notin DOMAIN Waiting
  <2>1. out' = f
    BY <1>0, <1>4 DEF ArpOutput, f
  <2> QED BY <1>1, <1>2, <2>1
<1> QED BY <1>3, <1>4

\* Every call sends datagrams to addresses that are fresh.
LEMMA FreshStep == ARPInv /\ SentToFreshAddress /\ [Next]_vars => SentToFreshAddress'
<1> SUFFICES ASSUME ARPInv, SentToFreshAddress, [Next]_vars PROVE SentToFreshAddress'
  OBVIOUS
<1>0. TypeOK /\ TableIsRecentlyHeard /\ QueuedForHop
  BY DEF ARPInv
<1>1. ASSUME out' = << >> PROVE SentToFreshAddress'
  BY <1>1, SMTT(30) DEF SentToFreshAddress
<1>2. ASSUME NEW h \in Hops, SendDatagram(h) PROVE SentToFreshAddress'
  <2>1. sent \in Seq(Hops) /\ sent' = Append(sent, h) /\ learned' = learned
    BY <1>0, <1>2 DEF SendDatagram, TypeOK
  <2>2. CASE h \in DOMAIN Table
    <3>1. out' = <<EthernetFrame(Mac, Table[h].mac, "IPv4", NextDatagram)>>
      BY <1>0, <1>2, <2>2, SendEffect, SMTT(30)
    <3> DEFINE fr == EthernetFrame(Mac, Table[h].mac, "IPv4", NextDatagram)
    <3>a. fr.dst = Table[h].mac /\ fr.payload = NextDatagram
      BY FrameFields
    <3>b. NextDatagram.ident = Len(sent) + 1
      BY DEF NextDatagram
    <3> HIDE DEF fr
    <3>c. Len(out') = 1 /\ out'[1] = fr
      BY <3>1 DEF fr
    <3>2. /\ Len(out') = 1 /\ out'[1].dst = Table[h].mac
          /\ out'[1].payload.ident = Len(sent) + 1
      BY <3>a, <3>b, <3>c, Zenon
    <3>3. Table[h] = learned[h] /\ learned[h].age < EntryTTL
      BY <1>0, <2>2 DEF TableIsRecentlyHeard
    <3>4. sent'[Len(sent) + 1] = h
      BY <2>1
    <3>5. ASSUME NEW j \in 1 .. Len(out')
          PROVE  /\ out'[j].dst = learned'[sent'[out'[j].payload.ident]].mac
                 /\ learned'[sent'[out'[j].payload.ident]].age < EntryTTL
      <4>1. j = 1
        BY <3>2
      <4>2. sent'[out'[j].payload.ident] = h /\ out'[j].dst = Table[h].mac
        BY <3>2, <3>4, <4>1, Zenon
      <4> QED BY <2>1, <3>3, <4>2, Zenon
    <3> QED BY <3>5, Zenon DEF SentToFreshAddress
  <2>3. CASE h \notin DOMAIN Table /\ h \notin DOMAIN Request
    <3>1. out' = <<EthernetFrame(Mac, Broadcast, "ARP",
                     ARPMessage("REQUEST", Mac, Ip, NoMac, h))>>
      BY <1>0, <1>2, <2>3, SendEffect, SMTT(30)
    <3> DEFINE fr == EthernetFrame(Mac, Broadcast, "ARP",
                       ARPMessage("REQUEST", Mac, Ip, NoMac, h))
    <3>a. fr.type = "ARP"
      BY FrameFields
    <3> HIDE DEF fr
    <3>2. Len(out') = 1 /\ out'[1] = fr
      BY <3>1 DEF fr
    <3>3. ASSUME NEW j \in 1 .. Len(out') PROVE out'[j].type # "IPv4"
      <4>1. j = 1
        BY <3>2
      <4>2. out'[j].type = "ARP"
        BY <3>a, <3>2, <4>1, Zenon
      <4> QED BY <4>2
    <3> QED BY <3>3, Zenon DEF SentToFreshAddress
  <2>4. CASE h \notin DOMAIN Table /\ h \in DOMAIN Request
    BY <1>0, <1>1, <1>2, <2>4, SendEffect
  <2> QED BY <2>2, <2>3, <2>4
<1>3. ASSUME NEW dst \in {Mac, Broadcast, NoMac}, NEW opcode \in {"REQUEST", "REPLY"},
             NEW mac \in Macs, NEW h \in Hops, NEW target \in Hops \cup {Ip},
             RecvARP(dst, opcode, mac, h, target)
      PROVE  SentToFreshAddress'
  <2>1. CASE dst \in {Mac, Broadcast}
    <3>1. sent' = sent /\ learned' = [learned EXCEPT ![h] = [mac |-> mac, age |-> 0]]
      BY <1>3, <2>1 DEF RecvARP
    <3>2. learned'[h].mac = mac /\ learned'[h].age = 0
      BY <1>0, <3>1 DEF TypeOK
    <3>3. ASSUME NEW j \in 1 .. Len(out'), out'[j].type = "IPv4"
          PROVE  /\ out'[j].dst = learned'[sent'[out'[j].payload.ident]].mac
                 /\ learned'[sent'[out'[j].payload.ident]].age < EntryTTL
      <4>1. h \in DOMAIN Waiting /\ \E i \in 1 .. Len(Waiting[h]) :
              out'[j] = EthernetFrame(Mac, mac, "IPv4", Waiting[h][i])
        <5>1. \/ /\ out'[j].type = "ARP" /\ out'[j].payload.opcode = "REPLY"
              \/ /\ h \in DOMAIN Waiting
                 /\ \E i \in 1 .. Len(Waiting[h]) :
                      out'[j] = EthernetFrame(Mac, mac, "IPv4", Waiting[h][i])
          BY <1>0, <1>3, <2>1, ArpOut, SMTT(30)
        <5>2. out'[j].type # "ARP"
          BY <3>3
        <5> QED BY <5>1, <5>2, Zenon
      <4>2. PICK i \in 1 .. Len(Waiting[h]) :
              out'[j] = EthernetFrame(Mac, mac, "IPv4", Waiting[h][i])
        BY <4>1
      <4>3. out'[j].dst = mac /\ out'[j].payload.ident = Waiting[h][i].ident
        BY <4>2, FrameFields
      <4>4. sent[Waiting[h][i].ident] = h
        BY <1>0, <4>1 DEF QueuedForHop
      <4>5. sent'[out'[j].payload.ident] = h
        BY <3>1, <4>3, <4>4, Zenon
      <4>6. 0 < EntryTTL
        BY TTLAssumption
      <4> QED BY <3>2, <4>3, <4>5, <4>6, Zenon
    <3> QED BY <3>3 DEF SentToFreshAddress
  <2>2. CASE dst \notin {Mac, Broadcast}
    BY <1>0, <1>1, <1>3, <2>2, IgnoredFrame DEF RecvARP
  <2> QED BY <2>1, <2>2
<1>4. ASSUME NEW dst \in {Mac, NoMac}, NEW type \in {"IPv4", "ARP"},
             NEW payload \in {Malformed, Incoming}, RecvOther(dst, type, payload)
      PROVE  SentToFreshAddress'
  BY <1>0, <1>1, <1>4, IgnoredFrame DEF RecvOther
<1>5. ASSUME NEW ms \in TickSizes, Tick(ms) PROVE SentToFreshAddress'
  BY <1>0, <1>1, <1>5, TickEffect
<1>6. CASE UNCHANGED vars
  BY <1>6 DEF vars, SentToFreshAddress
<1> QED BY <1>2, <1>3, <1>4, <1>5, <1>6 DEF Next

\* send_datagram and the flush of recv_frame: a datagram goes to the address its
\* next hop was last heard from, less than EntryTTL ago.
THEOREM FreshAddress == Spec => []SentToFreshAddress
<1>1. Init => SentToFreshAddress
  BY DEF Init, SentToFreshAddress
<1> QED BY <1>1, FreshStep, ARPInvariant, PTL DEF Spec

\* Every call asks only for addresses not asked for within ReplyTTL.
LEMMA RateStep ==
  ARPInv /\ [Next]_vars =>
    [\A h \in Hops : Requests(out', h) # {} => asked[h] >= ReplyTTL]_vars
<1> SUFFICES ASSUME ARPInv, Next, NEW x \in Hops, Requests(out', x) # {}
             PROVE  asked[x] >= ReplyTTL
  OBVIOUS
<1>0. TypeOK /\ RequestIsRecentlyAsked
  BY DEF ARPInv
<1>1. out' # << >>
  BY DEF Requests
<1>2. ASSUME NEW h \in Hops, SendDatagram(h) PROVE asked[x] >= ReplyTTL
  <2>1. asked'[x] = 0
    BY <1>2 DEF SendDatagram
  <2>2. CASE h \in DOMAIN Table
    <3>1. out' = <<EthernetFrame(Mac, Table[h].mac, "IPv4", NextDatagram)>>
      BY <1>0, <1>2, <2>2, SendEffect, SMTT(30)
    <3>2. EthernetFrame(Mac, Table[h].mac, "IPv4", NextDatagram).type = "IPv4"
      BY FrameFields, SMTT(30)
    <3>3. PICK j \in 1 .. Len(out') : out'[j].type = "ARP"
      BY DEF Requests
    <3>4. out'[j].type = "IPv4"
      BY <3>1, <3>2
    <3> QED BY <3>3, <3>4
  <2>3. CASE h \notin DOMAIN Table /\ h \notin DOMAIN Request
    <3>1. out' = <<EthernetFrame(Mac, Broadcast, "ARP",
                     ARPMessage("REQUEST", Mac, Ip, NoMac, h))>>
      BY <1>0, <1>2, <2>3, SendEffect, SMTT(30)
    <3> DEFINE fr == EthernetFrame(Mac, Broadcast, "ARP",
                       ARPMessage("REQUEST", Mac, Ip, NoMac, h))
    <3>a. fr.payload.target_ip_address = h
      BY FrameFields, MessageFields
    <3> HIDE DEF fr
    <3>b. PICK j \in 1 .. Len(out') : out'[j].payload.target_ip_address = x
      BY DEF Requests
    <3>c. out'[j] = fr
      BY <3>1 DEF fr
    <3>2. x = h
      BY <3>a, <3>b, <3>c, Zenon
    <3> QED BY <1>0, <2>3, <3>2, TTLAssumption DEF RequestIsRecentlyAsked, TypeOK
  <2>4. CASE h \notin DOMAIN Table /\ h \in DOMAIN Request
    BY <1>0, <1>1, <1>2, <2>4, SendEffect
  <2> QED BY <2>2, <2>3, <2>4
<1>3. ASSUME NEW dst \in {Mac, Broadcast, NoMac}, NEW opcode \in {"REQUEST", "REPLY"},
             NEW mac \in Macs, NEW h \in Hops, NEW target \in Hops \cup {Ip},
             RecvARP(dst, opcode, mac, h, target)
      PROVE  FALSE
  <2>1. CASE dst \in {Mac, Broadcast}
    <3>1. PICK j \in 1 .. Len(out') : out'[j].type = "ARP" /\ out'[j].payload.opcode = "REQUEST"
      BY DEF Requests
    <3>2. PICK i \in 1 .. Len(Waiting[h]) :
            out'[j] = EthernetFrame(Mac, mac, "IPv4", Waiting[h][i])
      <4>1. \/ /\ out'[j].type = "ARP" /\ out'[j].payload.opcode = "REPLY"
            \/ /\ h \in DOMAIN Waiting
               /\ \E i \in 1 .. Len(Waiting[h]) :
                    out'[j] = EthernetFrame(Mac, mac, "IPv4", Waiting[h][i])
        BY <1>0, <1>3, <2>1, ArpOut, SMTT(30)
      <4>2. out'[j].payload.opcode # "REPLY"
        BY <3>1
      <4> QED BY <4>1, <4>2, Zenon
    <3>3. out'[j].type = "IPv4"
      BY <3>2, FrameFields
    <3> QED BY <3>1, <3>3
  <2>2. CASE dst \notin {Mac, Broadcast}
    BY <1>0, <1>1, <1>3, <2>2, IgnoredFrame DEF RecvARP
  <2> QED BY <2>1, <2>2
<1>4. ASSUME NEW dst \in {Mac, NoMac}, NEW type \in {"IPv4", "ARP"},
             NEW payload \in {Malformed, Incoming}, RecvOther(dst, type, payload)
      PROVE  FALSE
  BY <1>0, <1>1, <1>4, IgnoredFrame DEF RecvOther
<1>5. ASSUME NEW ms \in TickSizes, Tick(ms) PROVE FALSE
  BY <1>0, <1>1, <1>5, TickEffect
<1> QED BY <1>2, <1>3, <1>4, <1>5 DEF Next

\* send_datagram and tick: no two requests for one address within ReplyTTL.
THEOREM RateLimited == Spec => RequestsRateLimited
BY RateStep, ARPInvariant, PTL DEF Spec, RequestsRateLimited

-------------------------------------------------------------------------------
(***************************************************************************)
(* The order in which datagrams leave                                      *)
(***************************************************************************)
\* The datagrams that have left, those of the last call included
Gone == left \cup Carried(out)

\* What makes SentOnceInOrder inductive: the queues are in order, and what waits for
\* a next hop was given to the interface after everything that left for it.
QueuesInOrder ==
    /\ Gone \subseteq 1 .. Len(sent)
    /\ \A h \in DOMAIN Waiting : \A i \in 1 .. Len(Waiting[h]) :
         /\ \A x \in Gone : sent[x] = h => x < Waiting[h][i].ident
         /\ \A j \in 1 .. Len(Waiting[h]) :
              i < j => Waiting[h][i].ident < Waiting[h][j].ident

\* The frames that are not datagrams do not count.
LEMMA CarriedNone ==
  ASSUME NEW f, \A j \in 1 .. Len(f) : f[j].type # "IPv4"
  PROVE  Carried(f) = {}
BY DEF Carried

\* The datagrams of the frames
LEMMA CarriedFrom ==
  ASSUME NEW f, NEW D, \A j \in 1 .. Len(f) : f[j].type = "IPv4" => f[j].payload.ident \in D
  PROVE  Carried(f) \subseteq D
BY DEF Carried

\* A call that sends no datagram and adds none to a queue
LEMMA QuietOrder ==
  ASSUME QueuesInOrder, left' = Gone, sent' = sent,
         \A j \in 1 .. Len(out') : out'[j].type # "IPv4",
         DOMAIN Waiting' \subseteq DOMAIN Waiting,
         \A h \in DOMAIN Waiting' : Waiting'[h] = Waiting[h]
  PROVE  QueuesInOrder' /\ SentOnceInOrder'
<1>1. Gone' = Gone
  BY CarriedNone DEF Gone
<1>2. SentOnceInOrder'
  BY DEF SentOnceInOrder
<1> QED
  BY <1>1, <1>2 DEF QueuesInOrder

\* send_datagram gives the datagram the next number: it comes after every other.
LEMMA SendOrder ==
  ASSUME ARPInv, QueuesInOrder, NEW h \in Hops, SendDatagram(h)
  PROVE  QueuesInOrder' /\ SentOnceInOrder'
<1> DEFINE n == Len(sent) + 1
<1>1. TypeOK /\ QueuedForHop /\ WaitsForPendingRequest
  BY DEF ARPInv
<1>2. /\ sent \in Seq(Hops) /\ Len(sent) \in Nat /\ sent' = Append(sent, h) /\ left' = Gone
      /\ Gone \subseteq 1 .. Len(sent)
  BY <1>1 DEF SendDatagram, TypeOK, Called, Gone, QueuesInOrder
<1>3. /\ Len(sent') = n /\ sent'[n] = h /\ n \in Nat
      /\ \A x \in 1 .. Len(sent) : x < n /\ sent'[x] = sent[x]
  BY <1>2
<1>4. \A x \in Gone : x \in 1 .. n /\ x < n /\ sent'[x] = sent[x]
  BY <1>2, <1>3
<1>5. \A x \in DOMAIN Waiting : \A i \in 1 .. Len(Waiting[x]) :
        /\ Waiting[x][i].ident \in 1 .. Len(sent)
        /\ \A y \in Gone : sent[y] = x => y < Waiting[x][i].ident
        /\ \A j \in 1 .. Len(Waiting[x]) :
             i < j => Waiting[x][i].ident < Waiting[x][j].ident
  BY <1>1 DEF QueuedForHop, QueuesInOrder
<1>6. CASE h \in DOMAIN Table
  <2> DEFINE fr == EthernetFrame(Mac, Table[h].mac, "IPv4", NextDatagram)
  <2>1. out' = <<fr>> /\ Waiting' = Waiting
    BY <1>1, <1>6, SendEffect, SMTT(30)
  <2>2. fr.payload.ident = n
    BY FrameFields DEF NextDatagram
  <2> HIDE DEF fr
  <2>3. Len(out') = 1 /\ out'[1] = fr
    BY <2>1
  <2>4. \A j \in 1 .. Len(out') : j = 1 /\ out'[j].payload.ident = n
    BY <2>2, <2>3
  <2>5. Gone' \subseteq Gone \cup {n}
    <3>1. Carried(out') \subseteq {n}
      BY <2>4 DEF Carried
    <3> QED BY <1>2, <3>1 DEF Gone
  <2>6. SentOnceInOrder'
    <3> SUFFICES ASSUME NEW i \in 1 .. Len(out')
                 PROVE  /\ \A x \in left' : /\ x # out'[i].payload.ident
                                            /\ x < out'[i].payload.ident
                        /\ \A j \in 1 .. Len(out') : ~(i < j)
      BY DEF SentOnceInOrder
    <3>1. i = 1 /\ out'[i].payload.ident = n
      BY <2>4
    <3> QED
      BY <1>2, <1>4, <2>3, <3>1
  <2>7. h \notin DOMAIN Waiting
    BY <1>1, <1>6 DEF WaitsForPendingRequest
  <2>8. Gone' \subseteq 1 .. Len(sent')
    BY <1>3, <1>4, <2>5
  <2>9. ASSUME NEW x \in DOMAIN Waiting, NEW i \in 1 .. Len(Waiting[x]), NEW y \in Gone',
               sent'[y] = x
        PROVE  y < Waiting[x][i].ident
    <3>1. y \in Gone
      BY <1>3, <2>5, <2>7, <2>9
    <3> QED
      BY <1>4, <1>5, <2>9, <3>1
  <2> QED
    BY <1>5, <2>1, <2>6, <2>8, <2>9 DEF QueuesInOrder
<1>7. CASE h \notin DOMAIN Table
  <2>1. \A j \in 1 .. Len(out') : out'[j].type # "IPv4"
    <3>1. CASE h \notin DOMAIN Request
      <4> DEFINE fr == EthernetFrame(Mac, Broadcast, "ARP",
                         ARPMessage("REQUEST", Mac, Ip, NoMac, h))
      <4>1. out' = <<fr>>
        BY <1>1, <1>7, <3>1, SendEffect, SMTT(30)
      <4>2. fr.type = "ARP"
        BY FrameFields
      <4> HIDE DEF fr
      <4>3. Len(out') = 1 /\ out'[1] = fr
        BY <4>1
      <4> QED
        BY <4>2, <4>3
    <3>2. CASE h \in DOMAIN Request
      BY <1>1, <1>7, <3>2, SendEffect, SMTT(30)
    <3> QED
      BY <3>1, <3>2
  <2>2. SentOnceInOrder' /\ Gone' = Gone
    BY <1>2, <2>1, CarriedNone DEF SentOnceInOrder, Gone
  <2>3. PICK v \in Seq(Datagram) :
          /\ Waiting' = map_set(Waiting, h, v)
          /\ \A i \in 1 .. Len(v) :
               \/ i = Len(v) /\ v[i].ident = n
               \/ h \in DOMAIN Waiting /\ i \in 1 .. Len(Waiting[h]) /\ v[i] = Waiting[h][i]
    <3>1. NextDatagram \in Datagram /\ NextDatagram.ident = n
      BY <1>2, InterfaceAssumption DEF NextDatagram, SendDatagram, Datagram
    <3>2. CASE h \notin DOMAIN Request
      <4>1. h \notin DOMAIN Waiting
        BY <1>1, <3>2 DEF WaitsForPendingRequest
      <4> DEFINE v == <<NextDatagram>>
      <4>2. Waiting' = map_set(Waiting, h, v)
        BY <1>1, <1>7, <3>2, <4>1, SendEffect, SMTT(30) DEF map_insert
      <4>3. v \in Seq(Datagram) /\ Len(v) = 1 /\ v[1] = NextDatagram
        BY <3>1
      <4> HIDE DEF v
      <4>4. \A i \in 1 .. Len(v) : i = Len(v) /\ v[i].ident = n
        BY <3>1, <4>3
      <4> QED
        BY <4>2, <4>3, <4>4, Zenon
    <3>3. CASE h \in DOMAIN Request
      <4>1. h \in DOMAIN Waiting
        BY <1>1, <1>7, <3>3 DEF WaitsForPendingRequest
      <4> DEFINE v == Append(Waiting[h], NextDatagram)
      <4>2. Waiting' = map_set(Waiting, h, v)
        BY <1>1, <1>7, <3>3, <4>1, SendEffect, SMTT(30)
      <4>3. Waiting[h] \in Seq(Datagram)
        BY <1>1, <4>1 DEF TypeOK, Datagram
      <4>4. /\ v \in Seq(Datagram) /\ Len(v) = Len(Waiting[h]) + 1 /\ v[Len(v)] = NextDatagram
            /\ \A i \in 1 .. Len(Waiting[h]) : v[i] = Waiting[h][i]
        BY <3>1, <4>3
      <4> HIDE DEF v
      <4>5. ASSUME NEW i \in 1 .. Len(v)
            PROVE  \/ i = Len(v) /\ v[i].ident = n
                   \/ i \in 1 .. Len(Waiting[h]) /\ v[i] = Waiting[h][i]
        <5>1. CASE i = Len(v)
          BY <3>1, <4>4, <5>1
        <5>2. CASE i # Len(v)
          BY <4>3, <4>4, <5>2
        <5> QED
          BY <5>1, <5>2
      <4> QED
        BY <4>1, <4>2, <4>4, <4>5, Zenon
    <3> QED
      BY <3>2, <3>3
  <2>4. /\ DOMAIN Waiting' = DOMAIN Waiting \cup {h} /\ Waiting'[h] = v
        /\ \A x \in DOMAIN Waiting \ {h} : Waiting'[x] = Waiting[x]
    BY <2>3 DEF map_set
  <2>5. ASSUME NEW x \in DOMAIN Waiting', NEW i \in 1 .. Len(Waiting'[x])
        PROVE  /\ \A y \in Gone : sent'[y] = x => y < Waiting'[x][i].ident
               /\ \A j \in 1 .. Len(Waiting'[x]) :
                    i < j => Waiting'[x][i].ident < Waiting'[x][j].ident
    <3>1. CASE x # h
      <4>1. x \in DOMAIN Waiting /\ Waiting'[x] = Waiting[x]
        BY <2>4, <3>1
      <4> QED
        BY <1>4, <1>5, <4>1
    <3>2. CASE x = h
      <4>1. Waiting'[x] = v /\ Len(v) \in Nat
        BY <2>4, <3>2
      <4>2. CASE i = Len(v) /\ v[i].ident = n
        BY <1>4, <4>1, <4>2
      <4>3. CASE h \in DOMAIN Waiting /\ i \in 1 .. Len(Waiting[h]) /\ v[i] = Waiting[h][i]
        <5>1. \A y \in Gone : sent'[y] = x => y < v[i].ident
          BY <1>4, <1>5, <3>2, <4>3
        <5>2. v[i].ident \in 1 .. Len(sent)
          BY <1>5, <4>3
        <5>3. ASSUME NEW j \in 1 .. Len(v), i < j
              PROVE  v[i].ident < v[j].ident
          <6>1. CASE j = Len(v) /\ v[j].ident = n
            BY <1>3, <5>2, <6>1
          <6>2. CASE j \in 1 .. Len(Waiting[h]) /\ v[j] = Waiting[h][j]
            BY <1>5, <4>3, <5>3, <6>2
          <6> QED
            BY <2>3, <6>1, <6>2
        <5> QED
          BY <4>1, <5>1, <5>3
      <4> QED
        BY <2>3, <4>1, <4>2, <4>3
    <3> QED
      BY <3>1, <3>2
  <2>6. Gone' \subseteq 1 .. Len(sent')
    BY <1>3, <1>4, <2>2
  <2> QED
    BY <2>2, <2>5, <2>6 DEF QueuesInOrder
<1> QED
  BY <1>6, <1>7

\* recv_frame sends a queue in its order, and nothing of it stays behind.
LEMMA ArpOrder ==
  ASSUME ARPInv, QueuesInOrder, NEW dst \in {Mac, Broadcast, NoMac},
         NEW opcode \in {"REQUEST", "REPLY"}, NEW mac \in Macs, NEW h \in Hops,
         NEW target \in Hops \cup {Ip},
         RecvARP(dst, opcode, mac, h, target), dst \in {Mac, Broadcast}
  PROVE  QueuesInOrder' /\ SentOnceInOrder'
<1> DEFINE w == Waiting[h]
           k == Len(out') - Len(w)
<1>1. TypeOK /\ QueuedForHop
  BY DEF ARPInv
<1>2. sent' = sent /\ left' = Gone
  BY DEF RecvARP, Called, Gone
<1>3. /\ DOMAIN Waiting' = DOMAIN Waiting \ {h}
      /\ \A x \in DOMAIN Waiting' : Waiting'[x] = Waiting[x]
  <2>1. \/ h \in DOMAIN Waiting /\ Waiting' = map_remove(Waiting, {h})
        \/ h \notin DOMAIN Waiting /\ Waiting' = Waiting
    BY <1>1, ArpEffect, ZenonT(60)
  <2> QED
    BY <2>1 DEF map_remove
<1>4. ASSUME NEW j \in 1 .. Len(out'), out'[j].type = "IPv4"
      PROVE  /\ h \in DOMAIN Waiting
             /\ \E i \in 1 .. Len(w) : out'[j].payload.ident = w[i].ident /\ j - i = k
  <2>1. h \in DOMAIN Waiting /\ \E i \in 1 .. Len(w) :
          out'[j] = EthernetFrame(Mac, mac, "IPv4", w[i]) /\ j - i = k
    <3>1. \/ out'[j].type = "ARP" /\ out'[j].payload.opcode = "REPLY"
          \/ h \in DOMAIN Waiting /\ \E i \in 1 .. Len(w) :
               out'[j] = EthernetFrame(Mac, mac, "IPv4", w[i]) /\ j - i = k
      BY <1>1, ArpOut, SMTT(30)
    <3>2. out'[j].type # "ARP"
      BY <1>4
    <3> QED
      BY <3>1, <3>2, Zenon
  <2>2. PICK i \in 1 .. Len(w) : out'[j] = EthernetFrame(Mac, mac, "IPv4", w[i]) /\ j - i = k
    BY <2>1
  <2>3. out'[j].payload.ident = w[i].ident
    BY <2>2, FrameFields
  <2> QED
    BY <2>1, <2>2, <2>3
<1>5. ASSUME h \in DOMAIN Waiting
      PROVE  \A i \in 1 .. Len(w) :
               /\ w[i].ident \in 1 .. Len(sent) /\ sent[w[i].ident] = h
               /\ \A y \in Gone : sent[y] = h => y < w[i].ident
               /\ \A j \in 1 .. Len(w) : i < j => w[i].ident < w[j].ident
  BY <1>1, <1>5 DEF QueuedForHop, QueuesInOrder
<1>6. /\ Len(sent) \in Nat /\ Gone \subseteq 1 .. Len(sent)
      /\ h \in DOMAIN Waiting => Len(w) \in Nat
  BY <1>1 DEF TypeOK, QueuesInOrder
<1> HIDE DEF w, k
<1>7. SentOnceInOrder'
  <2> SUFFICES ASSUME NEW i \in 1 .. Len(out'), out'[i].type = "IPv4"
               PROVE  LET d == out'[i].payload.ident
                      IN  /\ \A x \in left' : x # d /\ (sent'[x] = sent'[d] => x < d)
                          /\ \A j \in 1 .. Len(out') :
                               i < j /\ out'[j].type = "IPv4" => d < out'[j].payload.ident
    BY DEF SentOnceInOrder
  <2> DEFINE d == out'[i].payload.ident
  <2>1. h \in DOMAIN Waiting /\ \E a \in 1 .. Len(w) : d = w[a].ident /\ i - a = k
    BY <1>4
  <2>2. PICK a \in 1 .. Len(w) : d = w[a].ident /\ i - a = k
    BY <2>1
  <2>3. d \in 1 .. Len(sent) /\ sent[d] = h /\ \A y \in Gone : sent[y] = h => y < d
    BY <1>5, <2>1, <2>2
  <2>4. \A x \in left' : x # d /\ (sent'[x] = sent'[d] => x < d)
    BY <1>2, <2>3
  <2>5. ASSUME NEW j \in 1 .. Len(out'), i < j, out'[j].type = "IPv4"
        PROVE  d < out'[j].payload.ident
    <3>1. \E b \in 1 .. Len(w) : out'[j].payload.ident = w[b].ident /\ j - b = k
      BY <1>4, <2>5
    <3>2. PICK b \in 1 .. Len(w) : out'[j].payload.ident = w[b].ident /\ j - b = k
      BY <3>1
    <3>3. a < b
      BY <2>2, <2>5, <3>2
    <3>4. w[a].ident < w[b].ident
      BY <1>5, <2>1, <3>3
    <3> QED
      BY <2>2, <3>2, <3>4
  <2> QED
    BY <2>4, <2>5
<1>8. \A x \in Carried(out') : x \in 1 .. Len(sent) /\ sent[x] = h
  <2>1. ASSUME NEW j \in 1 .. Len(out'), out'[j].type = "IPv4"
        PROVE  out'[j].payload.ident \in {x \in 1 .. Len(sent) : sent[x] = h}
    BY <1>4, <1>5, <2>1
  <2> HIDE DEF w
  <2>2. Carried(out') \subseteq {x \in 1 .. Len(sent) : sent[x] = h}
    BY <2>1, CarriedFrom, Zenon
  <2> QED
    BY <2>2
<1>9. Gone' \subseteq 1 .. Len(sent')
  BY <1>2, <1>6, <1>8 DEF Gone
<1>10. ASSUME NEW x \in DOMAIN Waiting', NEW i \in 1 .. Len(Waiting'[x])
       PROVE  /\ \A y \in Gone' : sent'[y] = x => y < Waiting'[x][i].ident
              /\ \A j \in 1 .. Len(Waiting'[x]) :
                   i < j => Waiting'[x][i].ident < Waiting'[x][j].ident
  <2>1. x \in DOMAIN Waiting /\ x # h /\ Waiting'[x] = Waiting[x]
    BY <1>3
  <2>2. /\ \A y \in Gone : sent[y] = x => y < Waiting[x][i].ident
        /\ \A j \in 1 .. Len(Waiting[x]) : i < j => Waiting[x][i].ident < Waiting[x][j].ident
    BY <2>1 DEF QueuesInOrder
  <2>3. ASSUME NEW y \in Gone', sent'[y] = x
        PROVE  y \in Gone
    BY <1>2, <1>8, <2>1, <2>3 DEF Gone
  <2> QED
    BY <1>2, <2>1, <2>2, <2>3
<1> QED
  BY <1>7, <1>9, <1>10 DEF QueuesInOrder

\* Every call keeps the queues in order and sends in that order.
LEMMA OrderStep ==
  ARPInv /\ QueuesInOrder /\ SentOnceInOrder /\ [Next]_vars
    => QueuesInOrder' /\ SentOnceInOrder'
<1> SUFFICES ASSUME ARPInv, QueuesInOrder, SentOnceInOrder, [Next]_vars
             PROVE  QueuesInOrder' /\ SentOnceInOrder'
  OBVIOUS
<1>0. TypeOK
  BY DEF ARPInv
<1>1. ASSUME ni' = ni, out' = << >>, left' = Gone, sent' = sent
      PROVE  QueuesInOrder' /\ SentOnceInOrder'
  <2>1. Waiting' = Waiting /\ Len(out') = 0
    BY <1>1 DEF Waiting
  <2>2. \A j \in 1 .. Len(out') : out'[j].type # "IPv4"
    BY <2>1
  <2> QED
    BY <1>1, <2>1, <2>2, QuietOrder, Zenon
<1>2. ASSUME NEW dst \in {Mac, Broadcast, NoMac}, NEW opcode \in {"REQUEST", "REPLY"},
             NEW mac \in Macs, NEW h \in Hops, NEW target \in Hops \cup {Ip},
             RecvARP(dst, opcode, mac, h, target)
      PROVE  QueuesInOrder' /\ SentOnceInOrder'
  <2>1. CASE dst \in {Mac, Broadcast}
    BY <1>2, <2>1, ArpOrder
  <2>2. CASE dst \notin {Mac, Broadcast}
    <3>1. sent' = sent /\ left' = Gone
      BY <1>2 DEF RecvARP, Called, Gone
    <3>2. ni' = ni /\ out' = << >>
      BY <1>0, <1>2, <2>2, IgnoredFrame DEF RecvARP
    <3> QED
      BY <1>1, <3>1, <3>2
  <2> QED
    BY <2>1, <2>2
<1>3. ASSUME NEW dst \in {Mac, NoMac}, NEW type \in {"IPv4", "ARP"},
             NEW payload \in {Malformed, Incoming}, RecvOther(dst, type, payload)
      PROVE  QueuesInOrder' /\ SentOnceInOrder'
  <2>1. sent' = sent /\ left' = Gone
    BY <1>3 DEF RecvOther, Called, Gone
  <2>2. ni' = ni /\ out' = << >>
    BY <1>0, <1>3, IgnoredFrame DEF RecvOther
  <2> QED
    BY <1>1, <2>1, <2>2
<1>4. ASSUME NEW ms \in TickSizes, Tick(ms)
      PROVE  QueuesInOrder' /\ SentOnceInOrder'
  <2>1. sent' = sent /\ left' = Gone
    BY <1>4 DEF Tick, Called, Gone
  <2>2. out' = << >> /\ Waiting' = map_remove(Waiting, Expired(Request, ms))
    BY <1>0, <1>4, TickEffect
  <2>3. /\ DOMAIN Waiting' \subseteq DOMAIN Waiting
        /\ \A h \in DOMAIN Waiting' : Waiting'[h] = Waiting[h]
    BY <2>2 DEF map_remove
  <2>4. \A j \in 1 .. Len(out') : out'[j].type # "IPv4"
    BY <2>2
  <2> QED
    BY <2>1, <2>3, <2>4, QuietOrder
<1>5. CASE UNCHANGED vars
  BY <1>5 DEF vars, QueuesInOrder, SentOnceInOrder, Gone, Waiting
<1>6. CASE \E h \in Hops : SendDatagram(h)
  BY <1>6, SendOrder
<1> QED
  BY <1>2, <1>3, <1>4, <1>5, <1>6 DEF Next

\* send_datagram, the flush of recv_frame and the expiry of tick: no datagram is sent
\* twice, and the datagrams for one next hop leave in the order they were given.
THEOREM OnceInOrder == Spec => []SentOnceInOrder
<1>1. Init => QueuesInOrder /\ SentOnceInOrder
  BY DEF Init, QueuesInOrder, SentOnceInOrder, Gone, Carried, Waiting, new_NetworkInterface
<1> QED
  BY <1>1, OrderStep, ARPInvariant, PTL DEF Spec
===============================================================================
