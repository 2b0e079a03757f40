------------------------------- MODULE MCWire -------------------------------
(* An instance of Wire for TLC. *)
EXTENDS Wire

MCAddressOf == (A :> <<2130706433, 7778>>) @@ (B :> <<2130706434, 7779>>)

\* Numbers whose bytes all differ show a byte in the wrong place.
Limits == [max_send_packet_rate |-> 120, max_read_packet_rate |-> 60,
           max_send_packet_size |-> 1400, max_read_packet_size |-> 800]
Reliable1 == [sequence_number |-> 67305985, payload |-> <<7, 8>>]
Reliable2 == [sequence_number |-> 67305986, payload |-> <<4>>]

\* With and without a handshake, and with none to two messages of either stream.
MCPackets ==
    {[id |-> 16909060, ack_sequence_number |-> 16909061, ack_bitmask |-> 1450744508,
      limits |-> limits, reliable |-> reliable, unreliable |-> unreliable] :
        limits \in {NoLimits, Limits},
        reliable \in {<< >>, <<Reliable1>>, <<Reliable1, Reliable2>>},
        unreliable \in {<< >>, <<<<3>>>>, <<<<3>>, <<0, 255>>>>}}

\* A name lookup, also one with the 36 bytes of IP options that are the only number
\* the viewer skips correctly (file_format.h:77-83); TCP; ARP; and a frame that
\* says IPv4 and holds version 6, which ends the viewer.
Dns == <<2130706435, 53>>
DnsLine == [source |-> Dns, destination |-> MCAddressOf[A], length |-> 9, payload |-> NotNeptun]
MCOtherFrames ==
    {[frame |-> UdpFrame(Dns, MCAddressOf[A], 0, <<1>>), line |-> DnsLine],
     [frame |-> UdpFrame(Dns, MCAddressOf[A], 36, <<1>>), line |-> DnsLine],
     [frame |-> IpFrame(6, 1, 2, 0, Zeros(20)), line |-> NoLine],
     [frame |-> EthernetFrame(2054, Zeros(28)), line |-> NoLine],
     [frame |-> EthernetFrame(EtherTypeIPv4, <<96>> \o Zeros(39)), line |-> NoLine]}
=============================================================================
