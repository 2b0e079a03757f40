----------------------------- MODULE PcapViewer -----------------------------
(***************************************************************************)
(* The viewer of captured traffic (neptun/pcap): it reads the records of a  *)
(* pcap file one by one into one buffer, takes Ethernet, IPv4 and UDP apart *)
(* and formats the packets of Neptun.                                       *)
(*                                                                          *)
(* The file is complete: tcpdump has ended it behind a whole record, and    *)
(* has captured every packet in full (read_packet_data asserts it).         *)
(***************************************************************************)
EXTENDS WireFormat

CONSTANT snaplen        \* bytes of the buffer for records, from the file's header

VARIABLES
    file,                   \* the bytes of the captured frames
    file_position,          \* records read so far
    eof,                    \* a read went past the end of the file
    record_data_buffer,
    ended,                  \* an exception has ended the program
    count,                  \* records processed
    shown                   \* the lines printed

viewerVars == <<file_position, eof, ended, record_data_buffer, count, shown>>

NeptunPorts == {7778, 7779}
EtherTypeIPv4 == 2048
IpProtocolUDP == 17
EthernetSize == 14
UdpSize == 8
NotNeptun == << >>      \* printed as "<not neptun packet>"

ViewerInit ==
    /\ file_position = 0
    /\ eof = FALSE
    /\ ended = FALSE
    /\ record_data_buffer = [i \in 1 .. snaplen |-> 0]
    /\ count = 0
    /\ shown = << >>

EtherType(buffer) == ReadUnsigned(buffer, U16, 12)

\* The fields of the IPv4 header at a position that decide or are shown.
Version(buffer, at) == ReadBits(buffer, at, 0, 4)
Ihl(buffer, at) == ReadBits(buffer, at, 4, 8)
Protocol(buffer, at) == ReadBits(buffer, at, 72, 80)
SourceIp(buffer, at) == ReadBits(buffer, at, 96, 128)
DestinationIp(buffer, at) == ReadBits(buffer, at, 128, 160)

\* Options are taken to be 36 bytes long if there are any.
Ipv4HeaderSize(buffer, at) == IF Ihl(buffer, at) > 5 THEN 56 ELSE 20

\* read_ipv4_header throws, and nobody catches it.
Throws(buffer) ==
    EtherType(buffer) = EtherTypeIPv4 /\ Version(buffer, EthernetSize) # 4

\* process_record: the line for a record, if it is one for UDP.
ProcessRecord(buffer, size, record_index) ==
    LET ip == EthernetSize
        udp == ip + Ipv4HeaderSize(buffer, ip)
        source_port == ReadUnsigned(buffer, U16, udp)
        payload == SubSeq(buffer, udp + UdpSize + 1, Len(buffer))
    IN
    IF EtherType(buffer) # EtherTypeIPv4 \/ Protocol(buffer, ip) # IpProtocolUDP THEN << >>
    ELSE <<[record_index |-> record_index,
            source |-> <<SourceIp(buffer, ip), source_port>>,
            destination |-> <<DestinationIp(buffer, ip), ReadUnsigned(buffer, U16, udp + U16)>>,
            length |-> ReadUnsigned(buffer, U16, udp + 2 * U16),
            payload |-> IF source_port \in NeptunPorts
                        THEN FormatNeptunPayload(payload, size - udp - UdpSize)
                        ELSE NotNeptun]>>

\* Mutant: a record that is not shown does not count.
Counted_IfShown(buffer, size) ==
    IF ProcessRecord(buffer, size, 0) = << >> THEN count ELSE count + 1

Counted(buffer, size) == count + 1

\* One turn of the loop of process_pcap_file.  The read behind the last
\* record leaves a header of zeros; that record has no data and does not count.
ViewRecord ==
    /\ ~eof /\ ~ended
    /\ \/ /\ file_position < Len(file)
          /\ LET data == file[file_position + 1]
                 buffer == WriteByteArray(record_data_buffer, data, 0)
             IN
             /\ record_data_buffer' = buffer
             /\ file_position' = file_position + 1
             /\ \/ /\ Throws(buffer)
                   /\ ended' = TRUE
                   /\ UNCHANGED <<count, shown>>
                \/ /\ ~Throws(buffer)
                   /\ count' = Counted(buffer, Len(data))
                   /\ shown' = shown \o ProcessRecord(buffer, Len(data), count + 1)
                   /\ UNCHANGED ended
             /\ UNCHANGED eof
       \/ /\ file_position = Len(file)
          /\ eof' = TRUE
          /\ UNCHANGED <<ended, record_data_buffer, file_position, count, shown>>
    /\ UNCHANGED file
=============================================================================
