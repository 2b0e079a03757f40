------------------------- MODULE ConnectionManager -------------------------
(***************************************************************************)
(* The connection manager of one end of a connection                        *)
(* (neptun/connection_manager.h): the LetsConnect handshake.                *)
(*                                                                          *)
(* Of a bandwidth limit only max_read_packet_size is kept: it decides if    *)
(* the request is valid (an invalid max_send_packet_size has the same       *)
(* effect), and its last byte is lost on the way, because the fields of     *)
(* LetsConnect take one byte more than kSerializedSize says                 *)
(* (messages/lets_connect.h:16-20): the next segment of the packet is       *)
(* written over it or, if there is none, the reader takes what its buffer   *)
(* holds in that place.                                                     *)
(*                                                                          *)
(* An ACK clears the queue of LetsConnect packets and then pops once more,  *)
(* from the empty queue.  That is undefined; the standard library's deque   *)
(* then has its begin behind its end: it is not empty, its front is an      *)
(* arbitrary word, the next push goes to a cell that is not read again, and *)
(* a loop that pops until it is empty does not end.  The variable           *)
(* m_underflow says how far begin is behind end.                            *)
(***************************************************************************)
EXTENDS Integers, Sequences

CONSTANTS
    Managers,               \* the owners of the connection managers
    NumRedundantPackets,    \* m_config.num_redundant_packets
    MaxReadPacketSize,      \* m_config.limit.max_read_packet_size, per owner
    StaleBytes              \* what a receive buffer may hold behind a packet

\* The sizes that a u16 can hold.
PacketSize == 0 .. 256 * 256 - 1

ASSUME ConnectionConstants ==
    /\ NumRedundantPackets \in Nat
    /\ MaxReadPacketSize \in [Managers -> PacketSize]
    /\ StaleBytes \subseteq 0 .. 255
    /\ StaleBytes # {}

VARIABLES
    m_in_flight_lets_connect,       \* queue of ids of packets
    m_underflow,                    \* pops past the end of that queue
    m_num_lets_connect_to_send,
    is_fail,
    m_is_initiator,
    m_self_is_connected,
    m_peer_bandwidth_limit,         \* max_read_packet_size of the peer, or NoLimit
    m_hangs                         \* the owner is in a loop that does not end

cmVars == <<m_in_flight_lets_connect, m_underflow, m_num_lets_connect_to_send,
            is_fail, m_is_initiator, m_self_is_connected, m_peer_bandwidth_limit,
            m_hangs>>

NoLimit == -1
LetsConnectBytes == 9       \* Segment, MessageHeader, LetsConnect
RejectBytes == 3            \* Segment, MessageHeader

CmInit ==
    /\ m_in_flight_lets_connect = [h \in Managers |-> << >>]
    /\ m_underflow = [h \in Managers |-> 0]
    /\ m_num_lets_connect_to_send = [h \in Managers |-> 0]
    /\ is_fail = [h \in Managers |-> FALSE]
    /\ m_is_initiator = [h \in Managers |-> FALSE]
    /\ m_self_is_connected = [h \in Managers |-> FALSE]
    /\ m_peer_bandwidth_limit = [h \in Managers |-> NoLimit]
    /\ m_hangs = [h \in Managers |-> FALSE]

IsPeerConnected(h) == m_peer_bandwidth_limit[h] # NoLimit
IsFullyConnected(h) == IsPeerConnected(h) /\ m_self_is_connected[h]

\* connect.
CmConnect(h) ==
    /\ m_num_lets_connect_to_send' =
         [m_num_lets_connect_to_send EXCEPT ![h] = NumRedundantPackets + 1]
    /\ m_is_initiator' = [m_is_initiator EXCEPT ![h] = TRUE]
    /\ UNCHANGED <<m_in_flight_lets_connect, m_underflow, is_fail,
                   m_self_is_connected, m_peer_bandwidth_limit, m_hangs>>

-----------------------------------------------------------------------------
(* on_packet_status_delivery.                                                *)

\* front() == packet_id, in a queue that is what it should be.
IsFront(h, id) ==
    /\ m_underflow[h] = 0
    /\ m_in_flight_lets_connect[h] # << >>
    /\ Head(m_in_flight_lets_connect[h]) = id

\* The queue is empty or its front is another packet; after an underflow the
\* front is an arbitrary word, which may differ from any id.
CmIgnore(h, id) ==
    /\ ~IsFront(h, id)
    /\ UNCHANGED cmVars

CmAck(h, id) ==
    /\ IsFront(h, id)
    /\ m_self_is_connected' = [m_self_is_connected EXCEPT ![h] = TRUE]
    /\ m_in_flight_lets_connect' = [m_in_flight_lets_connect EXCEPT ![h] = << >>]
    /\ m_underflow' = [m_underflow EXCEPT ![h] = 1]
    /\ m_num_lets_connect_to_send' = [m_num_lets_connect_to_send EXCEPT ![h] = 0]
    /\ UNCHANGED <<is_fail, m_is_initiator, m_peer_bandwidth_limit, m_hangs>>

\* The arbitrary word is the id of the packet, and the queue is popped until it
\* is empty.
CmAckAfterUnderflow(h) ==
    /\ m_underflow[h] > 0
    /\ m_self_is_connected' = [m_self_is_connected EXCEPT ![h] = TRUE]
    /\ m_hangs' = [m_hangs EXCEPT ![h] = TRUE]
    /\ UNCHANGED <<m_in_flight_lets_connect, m_underflow, m_num_lets_connect_to_send,
                   is_fail, m_is_initiator, m_peer_bandwidth_limit>>

\* Mutant: a LetsConnect that was dropped is not sent again.
Resent_Never(h) == m_num_lets_connect_to_send[h]

\* m_num_lets_connect_to_send after a LetsConnect was dropped.
Resent(h) == m_num_lets_connect_to_send[h] + IF IsPeerConnected(h) THEN 0 ELSE 1

CmDrop(h, id) ==
    /\ \/ /\ IsFront(h, id)
          /\ m_in_flight_lets_connect' = [m_in_flight_lets_connect EXCEPT ![h] = Tail(@)]
          /\ UNCHANGED m_underflow
       \/ /\ m_underflow[h] > 0
          /\ m_underflow' = [m_underflow EXCEPT ![h] = @ + 1]
          /\ UNCHANGED m_in_flight_lets_connect
    /\ m_num_lets_connect_to_send' = [m_num_lets_connect_to_send EXCEPT ![h] = Resent(h)]
    /\ UNCHANGED <<is_fail, m_is_initiator, m_self_is_connected,
                   m_peer_bandwidth_limit, m_hangs>>

-----------------------------------------------------------------------------
(* read and write.  A handshake message is <<"LetsConnect", size>>, or       *)
(* <<"Reject">>, which goes out under the id of LetsConnect and without a    *)
(* body (connection_manager.h:203-205): the reader takes it for a            *)
(* LetsConnect and the bytes that follow for its body.                       *)

\* The values of max_read_packet_size that a reader may see.
Decodings(message) ==
    IF message[1] = "LetsConnect"
    THEN {message[2] - (message[2] % 256) + byte : byte \in StaleBytes}
    ELSE {256 * high + low : high \in StaleBytes, low \in StaleBytes}

\* Mutant: only peers that take packets of full size are let in.
Validates_FullPacket(size) == size >= 1400

Validates(size) == size >= 100

\* The peer asks for a connection or answers our request; only a request is
\* answered.
CmReadLetsConnect(h, size) ==
    /\ \/ /\ Validates(size)
          /\ is_fail' = [is_fail EXCEPT ![h] = FALSE]
          /\ m_num_lets_connect_to_send' = [m_num_lets_connect_to_send EXCEPT
               ![h] = IF m_is_initiator[h] THEN @ ELSE NumRedundantPackets + 1]
          /\ m_peer_bandwidth_limit' = [m_peer_bandwidth_limit EXCEPT ![h] = size]
       \/ /\ ~Validates(size)
          /\ is_fail' = [is_fail EXCEPT ![h] = TRUE]
          /\ UNCHANGED <<m_num_lets_connect_to_send, m_peer_bandwidth_limit>>
    /\ UNCHANGED <<m_in_flight_lets_connect, m_underflow, m_is_initiator,
                   m_self_is_connected, m_hangs>>

\* What write puts into the packet.
HandshakeToWrite(h) ==
    IF m_num_lets_connect_to_send[h] = 0 THEN << >>
    ELSE IF is_fail[h] THEN <<"Reject">>
    ELSE <<"LetsConnect", MaxReadPacketSize[h]>>

\* The bytes that write takes for it.
HandshakeBytes(message) ==
    CASE message = << >> -> 0
      [] message = <<"Reject">> -> RejectBytes
      [] OTHER -> LetsConnectBytes

\* Mutant: the counter is decremented whether or not there is something to send.
CmWrite_Unguarded(h, id) ==
    /\ m_num_lets_connect_to_send' = [m_num_lets_connect_to_send EXCEPT ![h] = @ - 1]
    /\ m_in_flight_lets_connect' = [m_in_flight_lets_connect EXCEPT ![h] = Append(@, id)]
    /\ UNCHANGED <<m_underflow, is_fail, m_is_initiator, m_self_is_connected,
                   m_peer_bandwidth_limit, m_hangs>>

CmWrite(h, id) ==
    /\ \/ /\ m_num_lets_connect_to_send[h] = 0
          /\ UNCHANGED <<m_num_lets_connect_to_send, m_in_flight_lets_connect, m_underflow>>
       \/ /\ m_num_lets_connect_to_send[h] > 0
          /\ m_num_lets_connect_to_send' = [m_num_lets_connect_to_send EXCEPT ![h] = @ - 1]
          /\ \/ /\ m_underflow[h] = 0
                /\ m_in_flight_lets_connect' =
                     [m_in_flight_lets_connect EXCEPT ![h] = Append(@, id)]
                /\ UNCHANGED m_underflow
             \/ /\ m_underflow[h] > 0
                /\ m_underflow' = [m_underflow EXCEPT ![h] = @ - 1]
                /\ UNCHANGED m_in_flight_lets_connect
    /\ UNCHANGED <<is_fail, m_is_initiator, m_self_is_connected,
                   m_peer_bandwidth_limit, m_hangs>>
=============================================================================
