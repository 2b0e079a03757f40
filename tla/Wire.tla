-------------------------------- MODULE Wire --------------------------------
(***************************************************************************)
(* The bytes on the wire: two Neptun hosts, each with the one buffer that   *)
(* it reads packets into and writes packets from (m_network_buffer), a      *)
(* capture of the traffic between them, and the viewer of the capture.      *)
(*                                                                          *)
(* A packet is read into a buffer that still holds what earlier packets     *)
(* left in it, in both directions; so is a record of the viewer.            *)
(***************************************************************************)
EXTENDS PcapViewer

CONSTANTS
    A, B,           \* the hosts
    AddressOf,      \* their addresses: <<ip, port>>
    Packets,        \* what the managers may have to write
    OtherFrames,    \* other captured traffic: frames and the lines for them
    BufferSize,     \* bytes of m_network_buffer: kJustAboveMtu
    MaxFrames       \* bound: frames captured

Zeros(n) == [i \in 1 .. n |-> 0]
Hosts == {A, B}
Other(h) == IF h = A THEN B ELSE A

ASSUME WireConstants ==
    /\ A # B
    /\ AddressOf \in [Hosts -> Nat \X NeptunPorts]
    /\ {BufferSize, MaxFrames, snaplen} \subseteq Nat
    /\ \A packet \in Packets :
         WriteToPeer(Zeros(BufferSize), packet).at < BufferSize

VARIABLES
    m_network_buffer,
    wire,           \* payloads on their way to a host, with the packet they encode
    captured,       \* history: the lines that the captured frames call for
    capturing,      \* the capture has not ended
    last_read       \* the packet a host read last: what was sent and what was read

hostVars == <<m_network_buffer, wire, captured, capturing, last_read>>
vars == <<hostVars, file, viewerVars>>

Nothing == << >>

\* A captured frame that is not shown.
NoLine == << >>

Init ==
    /\ m_network_buffer = [h \in Hosts |-> Zeros(BufferSize)]
    /\ wire = [h \in Hosts |-> << >>]
    /\ captured = << >>
    /\ capturing = TRUE
    /\ last_read = Nothing
    /\ file = << >>
    /\ ViewerInit

-----------------------------------------------------------------------------
(* What tcpdump captures.                                                    *)

Bytes(value, width) == [i \in 1 .. width |-> ByteOf(value, width, i - 1)]

EthernetFrame(ether_type, data) == [i \in 1 .. 12 |-> i] \o Bytes(ether_type, 2) \o data

\* An Ethernet frame with an IPv4 header that has options bytes of options.
IpFrame(protocol, from, to, options, data) ==
    EthernetFrame(EtherTypeIPv4,
      <<64 + 5 + options \div 4>> \o Zeros(8) \o <<protocol>> \o Zeros(2)
      \o Bytes(from, 4) \o Bytes(to, 4) \o [i \in 1 .. options |-> 1] \o data)

UdpFrame(source, destination, options, payload) ==
    IpFrame(IpProtocolUDP, source[1], destination[1], options,
            Bytes(source[2], 2) \o Bytes(destination[2], 2)
              \o Bytes(UdpSize + Len(payload), 2) \o Zeros(2) \o payload)

\* What the viewer should show of a packet.
SegmentsOf(packet) ==
    (IF packet.limits = NoLimits THEN << >> ELSE <<<<CONNECTION_MANAGER, packet.limits>>>>)
      \o (IF packet.reliable = << >> THEN << >> ELSE <<<<RELIABLE_STREAM, packet.reliable>>>>)
      \o (IF packet.unreliable = << >> THEN << >>
          ELSE <<<<UNRELIABLE_STREAM, packet.unreliable>>>>)

LineOf(h, packet, size) ==
    [source |-> AddressOf[h], destination |-> AddressOf[Other(h)], length |-> UdpSize + size,
     payload |-> [id |-> packet.id, ack_sequence_number |-> packet.ack_sequence_number,
                  ack_bitmask |-> packet.ack_bitmask, segments |-> SegmentsOf(packet)]]

-----------------------------------------------------------------------------
SendPacket(h, packet) ==
    LET written == WriteToPeer(m_network_buffer[h], packet)
        payload == SubSeq(written.buffer, 1, written.at)
    IN
    /\ capturing
    /\ Len(file) < MaxFrames
    /\ m_network_buffer' = [m_network_buffer EXCEPT ![h] = written.buffer]
    /\ wire' = [wire EXCEPT
         ![Other(h)] = Append(@, [payload |-> payload, packet |-> packet])]
    /\ file' = Append(file, UdpFrame(AddressOf[h], AddressOf[Other(h)], 0, payload))
    /\ captured' = Append(captured, LineOf(h, packet, Len(payload)))
    /\ UNCHANGED <<viewerVars, capturing, last_read>>

ReceivePacket(h) ==
    LET payload == Head(wire[h]).payload
        buffer == WriteByteArray(m_network_buffer[h], payload, 0)
    IN
    /\ capturing
    /\ wire[h] # << >>
    /\ wire' = [wire EXCEPT ![h] = Tail(@)]
    /\ m_network_buffer' = [m_network_buffer EXCEPT ![h] = buffer]
    /\ last_read' = [sent |-> Head(wire[h]).packet, read |-> Read(buffer, Len(payload))]
    /\ UNCHANGED <<viewerVars, file, captured, capturing>>

CaptureOther(other) ==
    /\ capturing
    /\ Len(file) < MaxFrames
    /\ file' = Append(file, other.frame)
    /\ captured' = Append(captured, other.line)
    /\ UNCHANGED <<viewerVars, m_network_buffer, wire, capturing, last_read>>

EndCapture ==
    /\ capturing
    /\ capturing' = FALSE
    /\ m_network_buffer' = [h \in Hosts |-> << >>]
    /\ wire' = [h \in Hosts |-> << >>]
    /\ last_read' = Nothing
    /\ UNCHANGED <<viewerVars, file, captured>>

View ==
    /\ ~capturing
    /\ ViewRecord
    /\ UNCHANGED hostVars

Next ==
    \/ \E h \in Hosts :
         \/ \E packet \in Packets : SendPacket(h, packet)
         \/ ReceivePacket(h)
    \/ \E other \in OtherFrames : CaptureOther(other)
    \/ EndCapture
    \/ View

Spec == Init /\ [][Next]_vars
-----------------------------------------------------------------------------
\* The buffers hold bytes, and no record is larger than the viewer's buffer.
TypeOK ==
    /\ \A h \in Hosts : m_network_buffer[h] \in Seq(Byte)
    /\ record_data_buffer \in [1 .. snaplen -> Byte]
    /\ \A i \in 1 .. Len(file) : file[i] \in Seq(Byte) /\ Len(file[i]) <= snaplen
    /\ file_position \in 0 .. Len(file) /\ count \in 0 .. Len(file)
    /\ {eof, ended, capturing} \subseteq BOOLEAN

\* The last byte of max_read_packet_size is not sent: its place belongs to the next
\* segment or to nobody (lets_connect.h:16-20).
WithoutLastByte(limits) ==
    IF limits = NoLimits THEN limits
    ELSE [limits EXCEPT !.max_read_packet_size = @ \div 256]

\* Neptun::read finds in the payload what write_to_peer has put there, whatever
\* earlier packets have left in the buffers: header, both streams' messages, and
\* the limits but for the last byte of max_read_packet_size.
ReadAsWritten ==
    last_read # Nothing =>
        LET blurred(packet) == [packet EXCEPT !.limits = WithoutLastByte(@)]
        IN blurred(last_read.read) = blurred(last_read.sent)

\* The records read so far that the viewer has to show.
Due == SelectSeq([i \in 1 .. file_position |-> i], LAMBDA i : captured[i] # NoLine)

\* The viewer shows every captured UDP packet that it comes to once, in the order of the file, under
\* the number that the record has there, and between the right addresses.
ShownAsCaptured ==
    /\ Len(shown) = Len(Due)
    /\ \A k \in 1 .. Len(Due) :
         /\ shown[k].record_index = Due[k]
         /\ \A field \in {"source", "destination", "length"} :
              shown[k][field] = captured[Due[k]][field]

\* The line of a packet of Neptun shows the header and the segments that the host
\* wrote, which are those that its peer reads, whatever earlier records have left in
\* the viewer's buffer.
FormattedAsWritten ==
    LET blurred(payload) ==
            IF payload = NotNeptun THEN payload
            ELSE [payload EXCEPT !.segments = [i \in DOMAIN @ |->
                    IF @[i][1] = CONNECTION_MANAGER
                    THEN <<@[i][1], WithoutLastByte(@[i][2])>> ELSE @[i]]]
    IN
    \A k \in 1 .. Len(shown) :
        blurred(shown[k].payload) = blurred(captured[shown[k].record_index].payload)
=============================================================================
