------------------------------- MODULE MCCodec -------------------------------
EXTENDS CodecSystem

Header(flags) ==
    [sport |-> 40000, dport |-> 80, seqno |-> <<65535, 65534>>, ackno |-> <<0, 1>>, doff |-> 5,
     flags |-> flags, win |-> 64000, cksum |-> 0, uptr |-> 0]

\* Without payload, with an odd and an even number of bytes, and with options
MCSegments ==
    {[h |-> Header({"syn"}), payload |-> << >>],
     [h |-> Header({"ack", "fin"}), payload |-> <<255, 0, 7>>],
     [h |-> [Header({"ack", "psh"}) EXCEPT !.doff = 6], payload |-> <<0, 0>>]}

MCArps ==
    {[hardware_type |-> 1, protocol_type |-> TYPE_IPv4, hardware_address_size |-> 6,
      protocol_address_size |-> 4, opcode |-> op,
      sender_ethernet_address |-> Eth.sender, sender_ip_address |-> Ip.sender,
      target_ethernet_address |-> resize(<< >>, 6), target_ip_address |-> Ip.receiver] : op \in {1, 2}}
===============================================================================
