-------------------------------- MODULE Headers --------------------------------
(***************************************************************************)
(* How frames, datagrams, segments and ARP messages are parsed and         *)
(* serialized: ethernet_header.cc, ethernet_frame.cc, arp_message.cc,      *)
(* ipv4_header.cc, ipv4_datagram.cc, tcp_header.cc and tcp_segment.cc of   *)
(* tcp_helpers/.  The parse of a header gives the parser p it leaves, the  *)
(* header h and the ParseResult r; that of a message [h, payload, r].      *)
(***************************************************************************)
EXTENDS NetParser

(* EthernetHeader and EthernetFrame *)
TYPE_IPv4 == 2048      \* 0x800
TYPE_ARP == 2054       \* 0x806

EthernetLayout == <<Field("dst", 6), Field("src", 6), Field("type", 2)>>
EthernetHeaderLength == 14

\* A frame's header is all zeros until it is parsed.
NoEthernetHeader == [dst |-> resize(<< >>, 6), src |-> resize(<< >>, 6), type |-> 0]

ethernet_header_parse(p) ==
    IF Len(p.buffer) < EthernetHeaderLength
      THEN [p |-> p, h |-> NoEthernetHeader, r |-> "PacketTooShort"]
      ELSE LET f == parse_fields(p, EthernetLayout) IN [p |-> f.p, h |-> f.h, r |-> f.p.error]

\* The result of the header's parse is dropped, here and below.
frame_parse(buffer) ==
    LET e == ethernet_header_parse(new_NetParser(buffer))
    IN  [h |-> e.h, payload |-> e.p.buffer, r |-> e.p.error]

frame_serialize(h, payload) == <<unparse_fields(h, EthernetLayout)>> \o payload

-------------------------------------------------------------------------------
(* ARPMessage *)
ARPLayout ==
    <<Field("hardware_type", 2), Field("protocol_type", 2), Field("hardware_address_size", 1),
      Field("protocol_address_size", 1), Field("opcode", 2),
      Field("sender_ethernet_address", 6), Field("sender_ip_address", 4),
      Field("target_ethernet_address", 6), Field("target_ip_address", 4)>>
ARPLength == 28

supported(h) ==
    /\ h.hardware_type = 1 /\ h.protocol_type = TYPE_IPv4
    /\ h.hardware_address_size = 6 /\ h.protocol_address_size = 4
    /\ h.opcode \in {1, 2}

arp_parse(buffer) ==
    LET f == parse_fields(new_NetParser(buffer), ARPLayout)
    IN  IF Len(buffer) < ARPLength THEN [h |-> << >>, r |-> "PacketTooShort"]
        ELSE [h |-> f.h, r |-> IF supported(f.h) THEN f.p.error ELSE "Unsupported"]

\* Throws unless supported(h)
arp_serialize(h) == unparse_fields(h, ARPLayout)

-------------------------------------------------------------------------------
(* IPv4Header and IPv4Datagram *)
IPv4Layout ==
    <<Field("first_byte", 1), Field("tos", 1), Field("len", 2), Field("id", 2), Field("fo_val", 2),
      Field("ttl", 1), Field("proto", 1), Field("cksum", 2), Field("src", 4), Field("dst", 4)>>
IPv4HeaderLength == 20
PROTO_TCP == 6

NewIPv4Header ==
    [ver |-> 4, hlen |-> 5, tos |-> 0, len |-> 0, id |-> 0, df |-> TRUE, mf |-> FALSE, offset |-> 0,
     ttl |-> 128, proto |-> PROTO_TCP, cksum |-> 0, src |-> <<0, 0>>, dst |-> <<0, 0>>]

Bit(b, value) == IF b THEN value ELSE 0

ipv4_header_fields(f) ==
    [ver |-> f.first_byte \div 16, hlen |-> f.first_byte % 16, tos |-> f.tos, len |-> f.len,
     id |-> f.id, df |-> (f.fo_val \div 16384) % 2 = 1, mf |-> (f.fo_val \div 8192) % 2 = 1,
     offset |-> f.fo_val % 8192, ttl |-> f.ttl, proto |-> f.proto, cksum |-> f.cksum,
     src |-> f.src, dst |-> f.dst]

ipv4_header_error(h, data_size) ==
    IF data_size < 4 * h.hlen THEN "PacketTooShort"
    ELSE IF h.ver # 4 THEN "WrongIPVersion"
    ELSE IF h.hlen < 5 THEN "HeaderTooShort"
    ELSE IF data_size # h.len THEN "TruncatedPacket" ELSE "NoError"

ipv4_header_parse(p) ==
    LET data_size == Len(p.buffer)
        f == parse_fields(p, IPv4Layout)
        h == ipv4_header_fields(f.h)
        e == ipv4_header_error(h, data_size)
        q == skip(f.p, 4 * h.hlen - IPv4HeaderLength)
        check == checksum_add(new_InternetChecksum(0), SubSeq(p.buffer, 1, 4 * h.hlen))
    IN  IF data_size < IPv4HeaderLength THEN [p |-> p, h |-> NewIPv4Header, r |-> "PacketTooShort"]
        ELSE IF e # "NoError" THEN [p |-> f.p, h |-> h, r |-> e]
        ELSE [p |-> q, h |-> h,
              r |-> IF q.error = "NoError" /\ checksum_value(check) # 0 THEN "BadChecksum" ELSE q.error]

\* serialize throws unless the header is sound; what follows the fields is zero.
ipv4_header_sound(h) == h.ver = 4 /\ h.hlen >= 5
ipv4_header_serialize(h) ==
    LET f == [first_byte |-> 16 * h.ver + h.hlen,
              fo_val |-> Bit(h.df, 16384) + Bit(h.mf, 8192) + h.offset] @@ h
    IN  resize(unparse_fields(f, IPv4Layout), 4 * h.hlen)

payload_length(h) == (h.len - 4 * h.hlen) % 65536

pseudo_cksum(h) == h.src[1] + h.src[2] + h.dst[1] + h.dst[2] + h.proto + payload_length(h)

datagram_parse(buffer) ==
    LET i == ipv4_header_parse(new_NetParser(buffer))
    IN  [h |-> i.h, payload |-> i.p.buffer,
         r |-> IF Len(i.p.buffer) # payload_length(i.h) THEN "PacketTooShort" ELSE i.p.error]

\* Also throws unless the payload's size is payload_length(h)
datagram_serialize(h, payload) ==
    LET check == checksum_add(new_InternetChecksum(0), ipv4_header_serialize([h EXCEPT !.cksum = 0]))
    IN  <<ipv4_header_serialize([h EXCEPT !.cksum = checksum_value(check)])>> \o payload

-------------------------------------------------------------------------------
(* TCPHeader and TCPSegment.  The flags are the set of those that are true. *)
TCPLayout ==
    <<Field("sport", 2), Field("dport", 2), Field("seqno", 4), Field("ackno", 4), Field("doff", 1),
      Field("fl_b", 1), Field("win", 2), Field("cksum", 2), Field("uptr", 2)>>
TCPHeaderLength == 20

FlagBit == [urg |-> 32, ack |-> 16, psh |-> 8, rst |-> 4, syn |-> 2, fin |-> 1]

tcp_header_fields(f) ==
    [sport |-> f.sport, dport |-> f.dport, seqno |-> f.seqno, ackno |-> f.ackno,
     doff |-> f.doff \div 16, flags |-> {b \in DOMAIN FlagBit : (f.fl_b \div FlagBit[b]) % 2 = 1},
     win |-> f.win, cksum |-> f.cksum, uptr |-> f.uptr]

tcp_header_parse(p) ==
    LET f == parse_fields(p, TCPLayout)
        h == tcp_header_fields(f.h)
        q == skip(f.p, 4 * h.doff - TCPHeaderLength)
    IN  IF h.doff < 5 THEN [p |-> f.p, h |-> h, r |-> "HeaderTooShort"]
                      ELSE [p |-> q, h |-> h, r |-> q.error]

\* Throws unless doff >= 5
tcp_header_serialize(h) ==
    LET f == [doff |-> 16 * h.doff, fl_b |-> MapThenSumSet(LAMBDA b : FlagBit[b], h.flags)] @@ h
    IN  resize(unparse_fields(f, TCPLayout), 4 * h.doff)

\* Variant: the checksum is not looked at.
bad_checksum_never(buffer, datagram_layer_checksum) == FALSE

bad_checksum(buffer, datagram_layer_checksum) ==
    checksum_value(checksum_add(new_InternetChecksum(datagram_layer_checksum), buffer)) # 0

segment_parse(buffer, datagram_layer_checksum) ==
    LET t == tcp_header_parse(new_NetParser(buffer))
    IN  IF bad_checksum(buffer, datagram_layer_checksum)
          THEN [h |-> << >>, payload |-> << >>, r |-> "BadChecksum"]
          ELSE [h |-> t.h, payload |-> t.p.buffer, r |-> t.p.error]

segment_serialize(h, payload, datagram_layer_checksum) ==
    LET zero == tcp_header_serialize([h EXCEPT !.cksum = 0])
        check == checksum_add(checksum_add(new_InternetChecksum(datagram_layer_checksum), zero), payload)
    IN  <<tcp_header_serialize([h EXCEPT !.cksum = checksum_value(check)]), payload>>
===============================================================================
