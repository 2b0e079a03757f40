-------------------------- MODULE PacketLinkProofs --------------------------
(***************************************************************************)
(* Proofs about PacketLink, for every pair of hosts, every timeout, every   *)
(* width of ids and bitmasks and any number of packets.                     *)
(***************************************************************************)
EXTENDS PacketLink, SequenceTheorems, TLAPS

-----------------------------------------------------------------------------
(* Unsigned arithmetic and queues.                                           *)

\* Arithmetic modulo the width of an id is plain arithmetic below the width.
LEMMA ModSmall ==
    ASSUME NEW x \in 0 .. IdModulus - 1
    PROVE  x % IdModulus = x
  BY PacketConstants

\* A sum or a difference of ids is an id.
LEMMA ModIsId ==
    ASSUME NEW x \in PacketId, NEW y \in PacketId
    PROVE  /\ (x - y) % IdModulus \in PacketId
           /\ (x + 1) % IdModulus \in PacketId
  BY PacketConstants DEF PacketId

LEMMA IdIsNat == \A id \in PacketId : id \in Nat
  BY PacketConstants DEF PacketId

\* Popping n elements keeps the others, in order.
LEMMA PoppedProperties ==
    ASSUME NEW S, NEW queue \in Seq(S), NEW n \in 0 .. Len(queue)
    PROVE  /\ Popped(queue, n) \in Seq(S)
           /\ Len(Popped(queue, n)) = Len(queue) - n
           /\ \A i \in 1 .. Len(queue) - n : Popped(queue, n)[i] = queue[n + i]
  BY SubSeqProperties DEF Popped

LEMMA ConcatIndices ==
    ASSUME NEW S, NEW s \in Seq(S), NEW t \in Seq(S)
    PROVE  /\ Len(s \o t) = Len(s) + Len(t)
           /\ \A i \in 1 .. Len(s) : (s \o t)[i] = s[i]
           /\ \A i \in 1 .. Len(t) : (s \o t)[Len(s) + i] = t[i]
  BY ConcatProperties

LEMMA OtherHost ==
    ASSUME NEW h \in Host
    PROVE  /\ Other(h) \in Host
           /\ Other(Other(h)) = h
           /\ Other(h) # h
           /\ \A g \in Host : g # h => g = Other(h)
  BY LinkConstants DEF Other

-----------------------------------------------------------------------------
(* Type correctness, wrap around of the ids included.                        *)

LEMMA HeaderType ==
    ASSUME TypeOK, NEW h \in Host, NEW n \in 0 .. Len(m_pending_acks[h]),
           AcksFit(h, n)
    PROVE  HeaderToWrite(h, n) \in PacketHeader
  <1>1. \A i \in 1 .. n : AckOffset(h, i) \in 0 .. AckWindow - 1
    <2> SUFFICES ASSUME NEW i \in 1 .. n PROVE AckOffset(h, i) \in 0 .. AckWindow - 1
      OBVIOUS
    <2>1. m_pending_acks[h][i] \in PacketId /\ m_pending_acks[h][1] \in PacketId
      BY DEF TypeOK, PdmTypeOK
    <2>2. AckOffset(h, i) \in PacketId
      BY <2>1, ModIsId DEF AckOffset
    <2> QED BY <2>2, PacketConstants DEF AcksFit, PacketId
  <1>2. m_pending_acks[h] # << >> => m_pending_acks[h][1] \in PacketId
    BY DEF TypeOK, PdmTypeOK
  <1>3. 0 \in PacketId
    BY PacketConstants DEF PacketId
  <1> QED BY <1>1, <1>2, <1>3 DEF HeaderToWrite, PacketHeader, TypeOK, PdmTypeOK

LEMMA CausedByType ==
    ASSUME TypeOK, NEW h \in Host, NEW n \in 0 .. Len(m_in_flight_packets[h])
    PROVE  /\ \A header \in PacketHeader :
                CausedBy(ReadStatuses(h, header, n), BYACKS) \in Seq(ReportedStatus)
           /\ CausedBy(DropStatuses(h, n), BYTIMEOUT) \in Seq(ReportedStatus)
  <1>1. \A i \in 1 .. n : m_in_flight_packets[h][i].id \in PacketId
    <2>1. \A i \in 1 .. n : m_in_flight_packets[h][i] \in InFlightPacket
      BY DEF TypeOK, PdmTypeOK
    <2> QED BY <2>1 DEF InFlightPacket
  <1>2. ASSUME NEW header \in PacketHeader
        PROVE  CausedBy(ReadStatuses(h, header, n), BYACKS) \in Seq(ReportedStatus)
    <2>1. Len(ReadStatuses(h, header, n)) = n
      BY DEF ReadStatuses
    <2> QED BY <2>1, <1>1 DEF CausedBy, ReadStatuses, ReportedStatus, StatusOf, ACK, DROP
  <1>3. Len(DropStatuses(h, n)) = n
    BY DEF DropStatuses
  <1>4. CausedBy(DropStatuses(h, n), BYTIMEOUT) \in Seq(ReportedStatus)
    BY <1>3, <1>1 DEF CausedBy, DropStatuses, ReportedStatus, ACK, DROP
  <1> QED BY <1>2, <1>4

LEMMA TypeStep == TypeOK /\ [Next]_vars => TypeOK'
  <1> SUFFICES ASSUME TypeOK, [Next]_vars PROVE TypeOK'
    OBVIOUS
  <1> USE DEF PdmTypeOK
  <1>1. CASE Elapse
    BY <1>1, LinkConstants DEF Elapse, TypeOK, pdmVars
  <1>2. ASSUME NEW h \in Host, WritePacket(h) PROVE TypeOK'
    <2>1. PICK n \in 0 .. Len(m_pending_acks[h]) :
            PdmWrite(h, now, n) /\ sent' = [sent EXCEPT ![h] = Append(@, HeaderToWrite(h, n))]
      BY <1>2 DEF WritePacket
    <2>2. HeaderToWrite(h, n) \in PacketHeader
      BY <2>1, HeaderType DEF PdmWrite
    <2>3. sent' \in [Host -> Seq(PacketHeader)]
      BY <2>1, <2>2 DEF TypeOK
    <2>4. m_next_outgoing_packet_id' \in [Host -> PacketId]
      <3>1. (m_next_outgoing_packet_id[h] + 1) % IdModulus \in PacketId
        BY ModIsId DEF TypeOK
      <3> QED BY <2>1, <3>1 DEF PdmWrite, TypeOK
    <2>5. m_in_flight_packets' \in [Host -> Seq(InFlightPacket)]
      <3>1. [id |-> m_next_outgoing_packet_id[h], time_dispatched |-> now] \in InFlightPacket
        BY DEF TypeOK, InFlightPacket
      <3> QED BY <2>1, <3>1 DEF PdmWrite, TypeOK
    <2>6. m_pending_acks' \in [Host -> Seq(PacketId)]
      <3>1. Popped(m_pending_acks[h], n) \in Seq(PacketId)
        BY PoppedProperties DEF TypeOK
      <3> QED BY <2>1, <3>1 DEF PdmWrite, TypeOK
    <2> QED BY <1>2, <2>1, <2>3, <2>4, <2>5, <2>6 DEF WritePacket, PdmWrite, TypeOK
  <1>3. ASSUME NEW h \in Host, NEW k \in 1 .. Len(sent[Other(h)]), ReadPacket(h, k)
        PROVE  TypeOK'
    <2> DEFINE header == sent[Other(h)][k]
    <2>1. PICK n \in 0 .. Len(m_in_flight_packets[h]) :
            /\ ProcessRead(h, header, n)
            /\ reported' = [reported EXCEPT
                 ![h] = @ \o CausedBy(ReadStatuses(h, header, n), BYACKS)]
      BY <1>3 DEF ReadPacket
    <2>2. header \in PacketHeader
      BY OtherHost DEF TypeOK
    <2>3. reported' \in [Host -> Seq(ReportedStatus)]
      <3>1. CausedBy(ReadStatuses(h, header, n), BYACKS) \in Seq(ReportedStatus)
        BY <2>2, CausedByType
      <3>2. reported \in [Host -> Seq(ReportedStatus)]
        BY DEF TypeOK
      <3> QED BY ONLY <2>1, <3>1, <3>2, h \in Host
    <2>4. m_in_flight_packets' \in [Host -> Seq(InFlightPacket)]
      <3>1. Popped(m_in_flight_packets[h], n) \in Seq(InFlightPacket)
        BY PoppedProperties DEF TypeOK
      <3> QED BY <2>1, <3>1 DEF ProcessRead, TypeOK
    <2>5. /\ m_pending_acks' \in [Host -> Seq(PacketId)]
          /\ m_next_expected_packet_id' \in [Host -> PacketId]
      <3>1. header.id \in PacketId /\ (header.id + 1) % IdModulus \in PacketId
        BY <2>2, ModIsId DEF PacketHeader
      <3>2. CASE Accepts(h, header)
        <4>1. /\ m_pending_acks' = [m_pending_acks EXCEPT ![h] = Append(@, header.id)]
              /\ m_next_expected_packet_id' =
                   [m_next_expected_packet_id EXCEPT ![h] = (header.id + 1) % IdModulus]
          BY <2>1, <3>2 DEF ProcessRead, ProcessPacketHeader
        <4>2. Append(m_pending_acks[h], header.id) \in Seq(PacketId)
          BY <3>1 DEF TypeOK
        <4> QED BY <3>1, <4>1, <4>2 DEF TypeOK
      <3>3. CASE ~Accepts(h, header)
        BY <2>1, <3>3 DEF ProcessRead, ProcessPacketHeader, TypeOK
      <3> QED BY <3>2, <3>3
    <2>6. accepted' \in [Host -> Seq(Nat \ {0})]
      <3>1. k \in Nat \ {0}
        BY OtherHost DEF TypeOK
      <3>2. CASE Accepts(h, header)
        <4>1. accepted' = [accepted EXCEPT ![h] = Append(@, k)]
          BY <1>3, <3>2 DEF ReadPacket
        <4>2. Append(accepted[h], k) \in Seq(Nat \ {0})
          BY <3>1 DEF TypeOK
        <4> QED BY <4>1, <4>2 DEF TypeOK
      <3>3. CASE ~Accepts(h, header)
        BY <1>3, <3>3 DEF ReadPacket, TypeOK
      <3> QED BY <3>2, <3>3
    <2> QED BY <1>3, <2>1, <2>3, <2>4, <2>5, <2>6 DEF ReadPacket, ProcessRead, TypeOK
  <1>4. ASSUME NEW h \in Host, DropOld(h) PROVE TypeOK'
    <2>1. PICK n \in 0 .. Len(m_in_flight_packets[h]) :
            /\ DropOldPackets(h, now, n)
            /\ reported' = [reported EXCEPT
                 ![h] = @ \o CausedBy(DropStatuses(h, n), BYTIMEOUT)]
      BY <1>4 DEF DropOld
    <2>2. reported' \in [Host -> Seq(ReportedStatus)]
      BY <2>1, CausedByType DEF TypeOK
    <2>3. Popped(m_in_flight_packets[h], n) \in Seq(InFlightPacket)
      BY PoppedProperties DEF TypeOK
    <2> QED BY <1>4, <2>1, <2>2, <2>3 DEF DropOld, DropOldPackets, TypeOK
  <1>5. CASE UNCHANGED vars
    BY <1>5 DEF vars, pdmVars, TypeOK
  <1> QED BY <1>1, <1>2, <1>3, <1>4, <1>5 DEF Next

\* The members keep their types through every interleaving, and every ack that
\* write puts in a header fits in the bitmask, even after the ids wrap around.
THEOREM TypeCorrect == Spec => []TypeOK
  <1>1. Init => TypeOK
    BY PacketConstants, LinkConstants
       DEF Init, PdmInit, TypeOK, PdmTypeOK, PacketId
  <1> QED BY <1>1, TypeStep, PTL DEF Spec

-----------------------------------------------------------------------------
(* The inductive invariant, for a connection that ends before its ids wrap   *)
(* around.                                                                   *)

NoWrapAround == MaxPackets < IdModulus

\* Packet i has id i - 1.
PacketsNumbered ==
    \A h \in Host :
        /\ Len(sent[h]) <= MaxPackets
        /\ m_next_outgoing_packet_id[h] = Len(sent[h])
        /\ \A i \in 1 .. Len(sent[h]) : sent[h][i].id = i - 1

\* What has been accepted was sent, and is behind the next expected packet.
AcceptedIsPast ==
    \A h \in Host : \A i \in 1 .. Len(accepted[h]) :
        /\ accepted[h][i] <= Len(sent[Other(h)])
        /\ accepted[h][i] <= m_next_expected_packet_id[h]

\* Packet id + 1 is among the accepted ones.
WasAccepted(h, id) == \E i \in 1 .. Len(accepted[h]) : accepted[h][i] = id + 1

\* An ack is queued, or written, only for an accepted packet.
PendingWereAccepted ==
    \A h \in Host : \A i \in 1 .. Len(m_pending_acks[h]) :
        WasAccepted(h, m_pending_acks[h][i])

PendingInOrder ==
    \A h \in Host : \A i, j \in 1 .. Len(m_pending_acks[h]) :
        i < j => m_pending_acks[h][i] < m_pending_acks[h][j]

HeadersAckAccepted ==
    \A h \in Host : \A k \in 1 .. Len(sent[h]) :
        \A bit \in sent[h][k].ack_bitmask :
            WasAccepted(h, sent[h][k].ack_sequence_number + bit)

ReportsAreTrue ==
    \A h \in Host : \A i \in 1 .. Len(reported[h]) :
        /\ reported[h][i].status = ACK => WasAccepted(Other(h), reported[h][i].id)
        /\ reported[h][i].cause = BYACKS
             => reported[h][i].id < m_next_expected_packet_id[Other(h)]

LinkInv ==
    /\ TypeOK
    /\ PacketsNumbered
    /\ FateReportedOnce
    /\ AcceptedIsPast
    /\ AcceptedInOrder
    /\ PendingWereAccepted
    /\ PendingInOrder
    /\ HeadersAckAccepted
    /\ ReportsAreTrue

LEMMA Lengths ==
    ASSUME TypeOK, NEW h \in Host
    PROVE  /\ sent[h] \in Seq(PacketHeader) /\ Len(sent[h]) \in Nat
           /\ reported[h] \in Seq(ReportedStatus) /\ Len(reported[h]) \in Nat
           /\ accepted[h] \in Seq(Nat \ {0}) /\ Len(accepted[h]) \in Nat
           /\ m_in_flight_packets[h] \in Seq(InFlightPacket)
           /\ Len(m_in_flight_packets[h]) \in Nat
           /\ m_pending_acks[h] \in Seq(PacketId) /\ Len(m_pending_acks[h]) \in Nat
  <1>1. /\ sent[h] \in Seq(PacketHeader)
        /\ reported[h] \in Seq(ReportedStatus)
        /\ accepted[h] \in Seq(Nat \ {0})
        /\ m_in_flight_packets[h] \in Seq(InFlightPacket)
        /\ m_pending_acks[h] \in Seq(PacketId)
    BY DEF TypeOK, PdmTypeOK
  <1> QED BY <1>1

-----------------------------------------------------------------------------
(* write.                                                                    *)

\* Without wrap around, a bit of the new header stands for a pending ack.
LEMMA HeaderAcksPending ==
    ASSUME LinkInv, NEW h \in Host, NEW n \in 0 .. Len(m_pending_acks[h]),
           NEW bit \in HeaderToWrite(h, n).ack_bitmask
    PROVE  \E i \in 1 .. n :
             HeaderToWrite(h, n).ack_sequence_number + bit = m_pending_acks[h][i]
  <1>1. PICK i \in 1 .. n : bit = AckOffset(h, i)
    BY DEF HeaderToWrite
  <1>2. /\ m_pending_acks[h][i] \in PacketId
        /\ m_pending_acks[h][1] \in PacketId
        /\ m_pending_acks[h] # << >>
    BY DEF LinkInv, TypeOK, PdmTypeOK
  <1>3. m_pending_acks[h][1] <= m_pending_acks[h][i]
    <2>1. 1 \in 1 .. Len(m_pending_acks[h]) /\ i \in 1 .. Len(m_pending_acks[h])
      BY DEF LinkInv, TypeOK, PdmTypeOK
    <2>2. CASE i = 1
      BY <2>2, <1>2, IdIsNat
    <2>3. CASE i # 1
      BY <2>1, <2>3, <1>2, IdIsNat DEF LinkInv, PendingInOrder
    <2> QED BY <2>2, <2>3
  <1>4. m_pending_acks[h][i] - m_pending_acks[h][1] \in 0 .. IdModulus - 1
    BY <1>2, <1>3, PacketConstants DEF PacketId
  <1>5. bit = m_pending_acks[h][i] - m_pending_acks[h][1]
    BY <1>1, <1>4, ModSmall DEF AckOffset
  <1>6. HeaderToWrite(h, n).ack_sequence_number = m_pending_acks[h][1]
    BY <1>2 DEF HeaderToWrite
  <1> QED BY <1>2, <1>5, <1>6, IdIsNat

LEMMA WriteStep ==
    ASSUME NoWrapAround, LinkInv, TypeOK', NEW h \in Host, WritePacket(h)
    PROVE  LinkInv'
  <1>1. PICK n \in 0 .. Len(m_pending_acks[h]) :
          PdmWrite(h, now, n) /\ sent' = [sent EXCEPT ![h] = Append(@, HeaderToWrite(h, n))]
    BY DEF WritePacket
  <1> DEFINE new == HeaderToWrite(h, n)
  <1> TypeOK
    BY DEF LinkInv
  <1>2. UNCHANGED <<now, accepted, reported, m_next_expected_packet_id>>
    BY <1>1 DEF WritePacket, PdmWrite
  <1>3. new \in PacketHeader
    BY <1>1, HeaderType DEF PdmWrite
  <1>4. /\ Len(sent'[h]) = Len(sent[h]) + 1
        /\ sent'[h][Len(sent[h]) + 1] = new
        /\ \A i \in 1 .. Len(sent[h]) : sent'[h][i] = sent[h][i]
        /\ \A g \in Host : g # h => sent'[g] = sent[g]
        /\ \A g \in Host : Len(sent[g]) \in Nat
    BY <1>1, <1>3 DEF TypeOK
  <1>5. PacketsNumbered'
    <2>1. Len(sent[h]) + 1 \in 0 .. IdModulus - 1 /\ Len(sent[h]) + 1 <= MaxPackets
      BY <1>4, LinkConstants, PacketConstants DEF WritePacket, NoWrapAround
    <2>2. (Len(sent[h]) + 1) % IdModulus = Len(sent[h]) + 1
      BY <2>1, ModSmall
    <2>3. m_next_outgoing_packet_id[h] = Len(sent[h])
      BY DEF LinkInv, PacketsNumbered
    <2>4. m_next_outgoing_packet_id' =
            [m_next_outgoing_packet_id EXCEPT ![h] = Len(sent[h]) + 1]
      BY <1>1, <2>2, <2>3 DEF PdmWrite, TypeOK, PdmTypeOK
    <2>5. new.id = Len(sent[h])
      BY <2>3 DEF HeaderToWrite
    <2> SUFFICES ASSUME NEW g \in Host
        PROVE /\ Len(sent'[g]) <= MaxPackets
              /\ m_next_outgoing_packet_id'[g] = Len(sent'[g])
              /\ \A i \in 1 .. Len(sent'[g]) : sent'[g][i].id = i - 1
      BY DEF PacketsNumbered
    <2>6. CASE g = h
      <3>1. \A i \in 1 .. Len(sent[h]) : sent[h][i].id = i - 1
        BY DEF LinkInv, PacketsNumbered
      <3>2. m_next_outgoing_packet_id'[h] = Len(sent[h]) + 1
        BY <2>4 DEF TypeOK, PdmTypeOK
      <3>3. ASSUME NEW i \in 1 .. Len(sent'[h]) PROVE sent'[h][i].id = i - 1
        <4>1. CASE i \in 1 .. Len(sent[h])
          BY <4>1, <3>1, <1>4
        <4>2. CASE i = Len(sent[h]) + 1
          BY <4>2, <2>5, <1>4
        <4> QED BY <4>1, <4>2, <1>4
      <3> QED BY <3>2, <3>3, <2>6, <2>1, <1>4
    <2>7. CASE g # h
      BY <2>7, <2>4, <1>4 DEF LinkInv, PacketsNumbered, TypeOK, PdmTypeOK
    <2> QED BY <2>6, <2>7
  <1>6. FateReportedOnce'
    <2> DEFINE packet == [id |-> m_next_outgoing_packet_id[h], time_dispatched |-> now]
    <2>1. m_in_flight_packets' = [m_in_flight_packets EXCEPT ![h] = Append(@, packet)]
      BY <1>1 DEF PdmWrite
    <2>2. packet \in InFlightPacket
      BY DEF TypeOK, PdmTypeOK, InFlightPacket
    <2>3. /\ Len(m_in_flight_packets'[h]) = Len(m_in_flight_packets[h]) + 1
          /\ m_in_flight_packets'[h][Len(m_in_flight_packets[h]) + 1] = packet
          /\ \A i \in 1 .. Len(m_in_flight_packets[h]) :
               m_in_flight_packets'[h][i] = m_in_flight_packets[h][i]
          /\ \A g \in Host : g # h => m_in_flight_packets'[g] = m_in_flight_packets[g]
      BY <2>1, <2>2 DEF TypeOK, PdmTypeOK
    <2>4. packet.id = new.id
      BY DEF HeaderToWrite
    <2>5. ASSUME NEW g \in Host
          PROVE  /\ Len(m_in_flight_packets[g]) \in Nat /\ Len(reported[g]) \in Nat
                 /\ Len(sent[g]) = Len(reported[g]) + Len(m_in_flight_packets[g])
                 /\ \A i \in 1 .. Len(reported[g]) : reported[g][i].id = sent[g][i].id
                 /\ \A i \in 1 .. Len(m_in_flight_packets[g]) :
                      m_in_flight_packets[g][i].id = sent[g][Len(reported[g]) + i].id
      BY Lengths DEF LinkInv, FateReportedOnce
    <2>6. /\ Len(sent'[h]) = Len(reported[h]) + Len(m_in_flight_packets'[h])
          /\ \A i \in 1 .. Len(reported[h]) : reported[h][i].id = sent'[h][i].id
          /\ \A i \in 1 .. Len(m_in_flight_packets'[h]) :
               m_in_flight_packets'[h][i].id = sent'[h][Len(reported[h]) + i].id
      <3> DEFINE r == Len(reported[h])
                 f == Len(m_in_flight_packets[h])
                 s == Len(sent[h])
      <3>1. r \in Nat /\ f \in Nat /\ s = r + f
        BY <2>5
      <3> HIDE DEF r, f, s
      <3>2. \A i \in 1 .. r : reported[h][i].id = sent'[h][i].id
        <4>1. \A i \in 1 .. r : i \in 1 .. s
          BY <3>1
        <4> QED BY <4>1, <2>5, <1>4 DEF r, s
      <3>3. ASSUME NEW i \in 1 .. f
            PROVE  m_in_flight_packets'[h][i].id = sent'[h][r + i].id
        <4>1. r + i \in 1 .. s
          BY <3>1
        <4>2. m_in_flight_packets'[h][i] = m_in_flight_packets[h][i]
          BY ONLY <2>3, i \in 1 .. f DEF f
        <4>3. m_in_flight_packets[h][i].id = sent[h][r + i].id
          BY ONLY <2>5, h \in Host, i \in 1 .. f DEF r, f
        <4>4. sent'[h][r + i] = sent[h][r + i]
          BY ONLY <4>1, <1>4 DEF s
        <4> QED BY ONLY <4>2, <4>3, <4>4
      <3>4. m_in_flight_packets'[h][f + 1].id = sent'[h][r + f + 1].id
        BY <3>1, <2>3, <2>4, <1>4 DEF f, s
      <3>5. ASSUME NEW i \in 1 .. f + 1
            PROVE  m_in_flight_packets'[h][i].id = sent'[h][r + i].id
        <4>1. CASE i = f + 1
          BY <4>1, <3>1, <3>4
        <4>2. CASE i # f + 1
          <5>1. i \in 1 .. f
            BY <4>2, <3>1
          <5> QED BY <5>1, <3>3
        <4> QED BY <4>1, <4>2
      <3>6. Len(sent'[h]) = r + Len(m_in_flight_packets'[h]) /\ Len(m_in_flight_packets'[h]) = f + 1
        BY <3>1, <2>3, <1>4 DEF s, f
      <3> QED BY <3>2, <3>5, <3>6 DEF r
    <2>7. ASSUME NEW g \in Host, g # h
          PROVE  sent'[g] = sent[g] /\ m_in_flight_packets'[g] = m_in_flight_packets[g]
      BY <2>7, <2>3, <1>4
    <2>8. ASSUME NEW g \in Host
          PROVE  /\ Len(sent'[g]) = Len(reported[g]) + Len(m_in_flight_packets'[g])
                 /\ \A i \in 1 .. Len(reported[g]) : reported[g][i].id = sent'[g][i].id
                 /\ \A i \in 1 .. Len(m_in_flight_packets'[g]) :
                      m_in_flight_packets'[g][i].id = sent'[g][Len(reported[g]) + i].id
      <3>1. CASE g = h
        BY ONLY <3>1, <2>6
      <3>2. CASE g # h
        <4>1. sent'[g] = sent[g] /\ m_in_flight_packets'[g] = m_in_flight_packets[g]
          BY ONLY <3>2, <2>7, g \in Host
        <4>2. /\ Len(sent[g]) = Len(reported[g]) + Len(m_in_flight_packets[g])
              /\ \A i \in 1 .. Len(reported[g]) : reported[g][i].id = sent[g][i].id
              /\ \A i \in 1 .. Len(m_in_flight_packets[g]) :
                   m_in_flight_packets[g][i].id = sent[g][Len(reported[g]) + i].id
          BY ONLY <2>5, g \in Host
        <4> QED BY ONLY <4>1, <4>2
      <3> QED BY <3>1, <3>2
    <2> QED BY ONLY <2>8, <1>2 DEF FateReportedOnce
  <1>7. AcceptedIsPast' /\ AcceptedInOrder'
    <2>1. \A g \in Host : Len(sent'[g]) >= Len(sent[g])
      BY <1>4
    <2>2. \A g \in Host : \A i \in 1 .. Len(accepted[g]) : accepted[g][i] \in Nat
      BY DEF TypeOK
    <2>3. AcceptedIsPast'
      BY <2>1, <2>2, <1>2, <1>4, OtherHost DEF LinkInv, AcceptedIsPast
    <2> QED BY <2>3, <1>2 DEF LinkInv, AcceptedInOrder
  <1>8. \A g, id : WasAccepted(g, id)' <=> WasAccepted(g, id)
    BY <1>2 DEF WasAccepted
  <1>9. PendingWereAccepted' /\ PendingInOrder'
    <2>1. m_pending_acks' = [m_pending_acks EXCEPT ![h] = Popped(@, n)]
      BY <1>1 DEF PdmWrite
    <2>2. /\ Len(m_pending_acks'[h]) = Len(m_pending_acks[h]) - n
          /\ \A i \in 1 .. Len(m_pending_acks[h]) - n :
               m_pending_acks'[h][i] = m_pending_acks[h][n + i]
          /\ \A g \in Host : g # h => m_pending_acks'[g] = m_pending_acks[g]
          /\ \A g \in Host : Len(m_pending_acks[g]) \in Nat
      <3>1. m_pending_acks'[h] = Popped(m_pending_acks[h], n)
        BY <2>1 DEF TypeOK, PdmTypeOK
      <3>2. \A g \in Host : g # h => m_pending_acks'[g] = m_pending_acks[g]
        BY <2>1 DEF TypeOK, PdmTypeOK
      <3>3. m_pending_acks[h] \in Seq(PacketId) /\ \A g \in Host : Len(m_pending_acks[g]) \in Nat
        BY Lengths
      <3>4. /\ Len(Popped(m_pending_acks[h], n)) = Len(m_pending_acks[h]) - n
            /\ \A i \in 1 .. Len(m_pending_acks[h]) - n :
                 Popped(m_pending_acks[h], n)[i] = m_pending_acks[h][n + i]
        BY ONLY <3>3, n \in 0 .. Len(m_pending_acks[h]), PoppedProperties, Zenon
      <3> QED BY ONLY <3>1, <3>2, <3>3, <3>4
    <2>3. PendingWereAccepted'
      <3> SUFFICES ASSUME NEW g \in Host, NEW i \in 1 .. Len(m_pending_acks'[g])
          PROVE WasAccepted(g, m_pending_acks'[g][i])
        BY <1>2 DEF PendingWereAccepted, WasAccepted
      <3>1. CASE g = h
        <4>1. i \in 1 .. Len(m_pending_acks[h]) - n /\ n + i \in 1 .. Len(m_pending_acks[h])
          BY ONLY <3>1, <2>2, n \in 0 .. Len(m_pending_acks[h]), h \in Host,
                  i \in 1 .. Len(m_pending_acks'[g])
        <4>2. m_pending_acks'[g][i] = m_pending_acks[h][n + i]
          BY ONLY <3>1, <4>1, <2>2
        <4>3. WasAccepted(h, m_pending_acks[h][n + i])
          BY ONLY <4>1, h \in Host, LinkInv DEF LinkInv, PendingWereAccepted
        <4> QED BY ONLY <3>1, <4>2, <4>3
      <3>2. CASE g # h
        BY <3>2, <2>2 DEF LinkInv, PendingWereAccepted
      <3> QED BY <3>1, <3>2
    <2>4. PendingInOrder'
      <3> SUFFICES ASSUME NEW g \in Host, NEW i \in 1 .. Len(m_pending_acks'[g]),
                          NEW j \in 1 .. Len(m_pending_acks'[g]), i < j
          PROVE m_pending_acks'[g][i] < m_pending_acks'[g][j]
        BY DEF PendingInOrder
      <3>1. CASE g = h
        <4>1. /\ i \in 1 .. Len(m_pending_acks[h]) - n /\ n + i \in 1 .. Len(m_pending_acks[h])
              /\ j \in 1 .. Len(m_pending_acks[h]) - n /\ n + j \in 1 .. Len(m_pending_acks[h])
              /\ n + i < n + j
          BY ONLY <3>1, <2>2, n \in 0 .. Len(m_pending_acks[h]), h \in Host, i < j,
                  i \in 1 .. Len(m_pending_acks'[g]), j \in 1 .. Len(m_pending_acks'[g])
        <4>2. /\ m_pending_acks'[g][i] = m_pending_acks[h][n + i]
              /\ m_pending_acks'[g][j] = m_pending_acks[h][n + j]
          BY ONLY <3>1, <4>1, <2>2
        <4>3. m_pending_acks[h][n + i] < m_pending_acks[h][n + j]
          BY ONLY <4>1, h \in Host, LinkInv DEF LinkInv, PendingInOrder
        <4> QED BY ONLY <4>2, <4>3
      <3>2. CASE g # h
        BY <3>2, <2>2 DEF LinkInv, PendingInOrder
      <3> QED BY <3>1, <3>2
    <2> QED BY <2>3, <2>4
  <1>10. HeadersAckAccepted'
    <2> SUFFICES ASSUME NEW g \in Host, NEW k \in 1 .. Len(sent'[g]),
                        NEW bit \in sent'[g][k].ack_bitmask
        PROVE WasAccepted(g, sent'[g][k].ack_sequence_number + bit)
      BY <1>2 DEF HeadersAckAccepted, WasAccepted
    <2>1. CASE g # h \/ k \in 1 .. Len(sent[h])
      BY <2>1, <1>4 DEF LinkInv, HeadersAckAccepted
    <2>2. CASE g = h /\ k = Len(sent[h]) + 1
      BY <2>2, <1>4, HeaderAcksPending DEF LinkInv, PendingWereAccepted
    <2> QED BY <2>1, <2>2, <1>4
  <1>11. ReportsAreTrue'
    BY <1>2, OtherHost DEF LinkInv, ReportsAreTrue, WasAccepted
  <1> QED BY <1>5, <1>6, <1>7, <1>9, <1>10, <1>11 DEF LinkInv

-----------------------------------------------------------------------------
(* process_read and drop_old_packets.                                        *)

\* Reporting the first n packets in flight and popping them keeps each packet
\* reported or in flight, and adds the batch behind the earlier reports.
LEMMA ReportBatch ==
    ASSUME LinkInv, NEW h \in Host, NEW n \in 0 .. Len(m_in_flight_packets[h]),
           NEW batch \in Seq(ReportedStatus), Len(batch) = n,
           \A i \in 1 .. n : batch[i].id = m_in_flight_packets[h][i].id,
           m_in_flight_packets' = [m_in_flight_packets EXCEPT ![h] = Popped(@, n)],
           reported' = [reported EXCEPT ![h] = @ \o batch],
           sent' = sent
    PROVE  /\ FateReportedOnce'
           /\ Len(reported'[h]) = Len(reported[h]) + n
           /\ \A i \in 1 .. Len(reported[h]) : reported'[h][i] = reported[h][i]
           /\ \A i \in 1 .. n : reported'[h][Len(reported[h]) + i] = batch[i]
           /\ \A g \in Host : g # h => reported'[g] = reported[g]
  <1> DEFINE r == Len(reported[h])
             f == Len(m_in_flight_packets[h])
             s == Len(sent[h])
  <1> TypeOK
    BY DEF LinkInv
  <1>1. ASSUME NEW g \in Host
        PROVE  /\ Len(m_in_flight_packets[g]) \in Nat /\ Len(reported[g]) \in Nat
               /\ Len(sent[g]) = Len(reported[g]) + Len(m_in_flight_packets[g])
               /\ \A i \in 1 .. Len(reported[g]) : reported[g][i].id = sent[g][i].id
               /\ \A i \in 1 .. Len(m_in_flight_packets[g]) :
                    m_in_flight_packets[g][i].id = sent[g][Len(reported[g]) + i].id
    BY Lengths DEF LinkInv, FateReportedOnce
  <1>2. reported'[h] = reported[h] \o batch /\ \A g \in Host : g # h => reported'[g] = reported[g]
    BY DEF TypeOK
  <1>3. /\ m_in_flight_packets'[h] = Popped(m_in_flight_packets[h], n)
        /\ \A g \in Host : g # h => m_in_flight_packets'[g] = m_in_flight_packets[g]
    BY DEF TypeOK, PdmTypeOK
  <1>4. /\ Len(m_in_flight_packets'[h]) = f - n
        /\ \A i \in 1 .. f - n : m_in_flight_packets'[h][i] = m_in_flight_packets[h][n + i]
    <2>1. m_in_flight_packets[h] \in Seq(InFlightPacket)
      BY Lengths
    <2>2. /\ Len(Popped(m_in_flight_packets[h], n)) = Len(m_in_flight_packets[h]) - n
          /\ \A i \in 1 .. Len(m_in_flight_packets[h]) - n :
               Popped(m_in_flight_packets[h], n)[i] = m_in_flight_packets[h][n + i]
      BY ONLY <2>1, n \in 0 .. Len(m_in_flight_packets[h]), PoppedProperties, Zenon
    <2> QED BY ONLY <2>2, <1>3
  <1>5. /\ Len(reported'[h]) = r + n
        /\ \A i \in 1 .. r : reported'[h][i] = reported[h][i]
        /\ \A i \in 1 .. n : reported'[h][r + i] = batch[i]
    <2>1. reported[h] \in Seq(ReportedStatus)
      BY Lengths
    <2>2. /\ Len(reported[h] \o batch) = r + Len(batch)
          /\ \A i \in 1 .. r : (reported[h] \o batch)[i] = reported[h][i]
          /\ \A i \in 1 .. Len(batch) : (reported[h] \o batch)[r + i] = batch[i]
      BY ONLY <2>1, batch \in Seq(ReportedStatus), ConcatIndices
    <2> QED BY ONLY <2>2, <1>2, Len(batch) = n
  <1>6. r \in Nat /\ f \in Nat /\ s = r + f /\ n \in 0 .. f
    BY <1>1
  <1> HIDE DEF r, f, s
  <1>7. ASSUME NEW i \in 1 .. r + n PROVE reported'[h][i].id = sent[h][i].id
    <2>1. CASE i \in 1 .. r
      BY <2>1, <1>1, <1>5 DEF r
    <2>2. CASE ~(i \in 1 .. r)
      <3> DEFINE j == i - r
      <3>1. j \in 1 .. n /\ j \in 1 .. f /\ i = r + j
        BY <2>2, <1>6
      <3> HIDE DEF j
      <3>2. batch[j].id = m_in_flight_packets[h][j].id
        BY <3>1
      <3> QED BY <3>1, <3>2, <1>1, <1>5 DEF r, f
    <2> QED BY <2>1, <2>2
  <1>8. ASSUME NEW i \in 1 .. f - n
        PROVE  m_in_flight_packets'[h][i].id = sent[h][r + n + i].id
    <2>1. n + i \in 1 .. f /\ r + (n + i) = r + n + i
      BY <1>6
    <2>2. m_in_flight_packets'[h][i] = m_in_flight_packets[h][n + i]
      BY ONLY <1>4, i \in 1 .. f - n
    <2>3. m_in_flight_packets[h][n + i].id = sent[h][r + (n + i)].id
      BY ONLY <2>1, <1>1, h \in Host DEF r, f
    <2> QED BY ONLY <2>1, <2>2, <2>3
  <1>9. ASSUME NEW g \in Host
        PROVE  /\ Len(sent[g]) = Len(reported'[g]) + Len(m_in_flight_packets'[g])
               /\ \A i \in 1 .. Len(reported'[g]) : reported'[g][i].id = sent[g][i].id
               /\ \A i \in 1 .. Len(m_in_flight_packets'[g]) :
                    m_in_flight_packets'[g][i].id = sent[g][Len(reported'[g]) + i].id
    <2>1. CASE g = h
      <3>1. Len(sent[h]) = Len(reported'[h]) + Len(m_in_flight_packets'[h])
        BY ONLY <1>4, <1>5, <1>6 DEF s
      <3> QED BY ONLY <2>1, <3>1, <1>4, <1>5, <1>7, <1>8
    <2>2. CASE g # h
      <3>1. reported'[g] = reported[g] /\ m_in_flight_packets'[g] = m_in_flight_packets[g]
        BY ONLY <2>2, <1>2, <1>3, g \in Host
      <3>2. /\ Len(sent[g]) = Len(reported[g]) + Len(m_in_flight_packets[g])
            /\ \A i \in 1 .. Len(reported[g]) : reported[g][i].id = sent[g][i].id
            /\ \A i \in 1 .. Len(m_in_flight_packets[g]) :
                 m_in_flight_packets[g][i].id = sent[g][Len(reported[g]) + i].id
        BY <1>1
      <3> QED BY ONLY <3>1, <3>2
    <2> QED BY <2>1, <2>2
  <1>10. FateReportedOnce'
    BY ONLY <1>9, sent' = sent DEF FateReportedOnce
  <1> QED BY <1>2, <1>5, <1>10 DEF r

LEMMA DropStep ==
    ASSUME LinkInv, TypeOK', NEW h \in Host, DropOld(h)
    PROVE  LinkInv'
  <1>1. PICK n \in 0 .. Len(m_in_flight_packets[h]) :
          /\ DropOldPackets(h, now, n)
          /\ reported' = [reported EXCEPT
               ![h] = @ \o CausedBy(DropStatuses(h, n), BYTIMEOUT)]
    BY DEF DropOld
  <1> DEFINE batch == CausedBy(DropStatuses(h, n), BYTIMEOUT)
  <1> TypeOK
    BY DEF LinkInv
  <1>2. UNCHANGED <<now, sent, accepted, m_next_expected_packet_id,
                    m_next_outgoing_packet_id, m_pending_acks>>
    BY <1>1 DEF DropOld, DropOldPackets
  <1>3. Len(DropStatuses(h, n)) = n
    BY DEF DropStatuses
  <1>4. /\ batch \in Seq(ReportedStatus)
        /\ Len(batch) = n
        /\ \A i \in 1 .. n : /\ batch[i].id = m_in_flight_packets[h][i].id
                             /\ batch[i].status = DROP
                             /\ batch[i].cause = BYTIMEOUT
    BY <1>3, CausedByType DEF CausedBy, DropStatuses
  <1>5. m_in_flight_packets' = [m_in_flight_packets EXCEPT ![h] = Popped(@, n)]
    BY <1>1 DEF DropOldPackets
  <1> HIDE DEF batch
  <1>6. /\ FateReportedOnce'
        /\ Len(reported'[h]) = Len(reported[h]) + n
        /\ \A i \in 1 .. Len(reported[h]) : reported'[h][i] = reported[h][i]
        /\ \A i \in 1 .. n : reported'[h][Len(reported[h]) + i] = batch[i]
        /\ \A g \in Host : g # h => reported'[g] = reported[g]
    BY <1>1, <1>2, <1>4, <1>5, ReportBatch DEF batch
  <1>7. ReportsAreTrue'
    <2> SUFFICES ASSUME NEW g \in Host, NEW i \in 1 .. Len(reported'[g])
        PROVE /\ reported'[g][i].status = ACK => WasAccepted(Other(g), reported'[g][i].id)
              /\ reported'[g][i].cause = BYACKS
                   => reported'[g][i].id < m_next_expected_packet_id[Other(g)]
      BY <1>2 DEF ReportsAreTrue, WasAccepted
    <2>1. CASE g # h \/ i \in 1 .. Len(reported[h])
      BY <2>1, <1>6 DEF LinkInv, ReportsAreTrue
    <2>2. CASE g = h /\ ~(i \in 1 .. Len(reported[h]))
      <3> DEFINE j == i - Len(reported[h])
      <3>1. j \in 1 .. n /\ i = Len(reported[h]) + j
        BY <2>2, <1>6, Lengths
      <3> HIDE DEF j
      <3>2. reported'[g][i].status = DROP /\ reported'[g][i].cause = BYTIMEOUT
        BY <3>1, <2>2, <1>4, <1>6
      <3> QED BY <3>2 DEF ACK, DROP, BYACKS, BYTIMEOUT
    <2> QED BY <2>1, <2>2
  <1>8. PacketsNumbered' /\ AcceptedIsPast' /\ AcceptedInOrder'
    BY <1>2 DEF LinkInv, PacketsNumbered, AcceptedIsPast, AcceptedInOrder
  <1>9. PendingWereAccepted' /\ PendingInOrder' /\ HeadersAckAccepted'
    BY <1>2 DEF LinkInv, PendingWereAccepted, PendingInOrder, HeadersAckAccepted, WasAccepted
  <1> QED BY <1>6, <1>7, <1>8, <1>9 DEF LinkInv

\* The highest id that a header acknowledges is behind the packet its writer
\* expects next, and so is every packet that the header resolves.
LEMMA ResolvedIsPast ==
    ASSUME NoWrapAround, LinkInv, NEW h \in Host, NEW k \in 1 .. Len(sent[Other(h)]),
           NEW n \in 0 .. Len(m_in_flight_packets[h]),
           AcksResolve(h, sent[Other(h)][k], n), NEW i \in 1 .. n
    PROVE  m_in_flight_packets[h][i].id < m_next_expected_packet_id[Other(h)]
  <1> DEFINE header == sent[Other(h)][k]
  <1> TypeOK
    BY DEF LinkInv
  <1> n \in Nat
    BY Lengths
  <1>1. header.ack_bitmask # {}
    BY DEF AcksResolve
  <1>2. PICK highest \in PacketId :
          /\ IsHighestAcked(highest, header)
          /\ \A j \in 1 .. n : m_in_flight_packets[h][j].id <= highest
    BY <1>1 DEF AcksResolve
  <1>3. PICK msb \in header.ack_bitmask :
          highest = (header.ack_sequence_number + msb) % IdModulus
    BY <1>2 DEF IsHighestAcked
  <1> DEFINE id == header.ack_sequence_number + msb
  <1>4. WasAccepted(Other(h), id)
    BY <1>3, OtherHost DEF LinkInv, HeadersAckAccepted
  <1>5. id \in Nat
    <2>1. header \in PacketHeader
      BY OtherHost, Lengths
    <2> QED BY <2>1, IdIsNat DEF PacketHeader
  <1> HIDE DEF id
  <1>6. PICK j \in 1 .. Len(accepted[Other(h)]) : accepted[Other(h)][j] = id + 1
    BY <1>4 DEF WasAccepted
  <1>7. id + 1 <= Len(sent[h]) /\ id + 1 <= m_next_expected_packet_id[Other(h)]
    BY <1>6, OtherHost DEF LinkInv, AcceptedIsPast
  <1>8. Len(sent[h]) <= MaxPackets /\ Len(sent[h]) \in Nat
    BY Lengths DEF LinkInv, PacketsNumbered
  <1>9. id \in 0 .. IdModulus - 1
    BY <1>5, <1>7, <1>8, LinkConstants, PacketConstants DEF NoWrapAround
  <1>10. highest = id
    BY <1>3, <1>9, ModSmall DEF id
  <1>11. m_in_flight_packets[h][i].id \in Nat
    <2>1. m_in_flight_packets[h][i] \in InFlightPacket
      BY Lengths
    <2> QED BY <2>1, IdIsNat DEF InFlightPacket
  <1>12. m_next_expected_packet_id[Other(h)] \in Nat
    BY OtherHost, IdIsNat DEF TypeOK, PdmTypeOK
  <1> QED BY <1>2, <1>5, <1>7, <1>10, <1>11, <1>12

LEMMA ReadStep ==
    ASSUME NoWrapAround, LinkInv, TypeOK', NEW h \in Host,
           NEW k \in 1 .. Len(sent[Other(h)]), ReadPacket(h, k)
    PROVE  LinkInv'
  <1> DEFINE header == sent[Other(h)][k]
  <1>1. PICK n \in 0 .. Len(m_in_flight_packets[h]) :
          /\ ProcessRead(h, header, n)
          /\ reported' = [reported EXCEPT
               ![h] = @ \o CausedBy(ReadStatuses(h, header, n), BYACKS)]
    BY DEF ReadPacket
  <1> DEFINE batch == CausedBy(ReadStatuses(h, header, n), BYACKS)
  <1> TypeOK
    BY DEF LinkInv
  <1>2. UNCHANGED <<now, sent, m_next_outgoing_packet_id>>
    BY <1>1 DEF ReadPacket, ProcessRead
  <1>3. /\ header \in PacketHeader
        /\ header.id = k - 1
        /\ k \in Nat \ {0}
    BY OtherHost, Lengths DEF LinkInv, PacketsNumbered
  \* The packet is refused, or it is new and accepted.
  <1>4. \/ UNCHANGED <<accepted, m_pending_acks, m_next_expected_packet_id>>
        \/ /\ m_next_expected_packet_id[h] <= k - 1
           /\ accepted' = [accepted EXCEPT ![h] = Append(@, k)]
           /\ m_pending_acks' = [m_pending_acks EXCEPT ![h] = Append(@, k - 1)]
           /\ m_next_expected_packet_id' = [m_next_expected_packet_id EXCEPT ![h] = k]
    <2>1. CASE ~Accepts(h, header)
      <3>1. accepted' = [accepted EXCEPT ![h] = @]
        BY <2>1 DEF ReadPacket
      <3> QED BY <3>1, <2>1, <1>1 DEF ProcessRead, ProcessPacketHeader, TypeOK
    <2>2. CASE Accepts(h, header)
      <3>1. k \in 0 .. IdModulus - 1
        <4>1. Len(sent[Other(h)]) <= MaxPackets
          BY OtherHost DEF LinkInv, PacketsNumbered
        <4> QED BY <4>1, <1>3, OtherHost, Lengths, LinkConstants, PacketConstants DEF NoWrapAround
      <3>2. (header.id + 1) % IdModulus = k
        BY <3>1, <1>3, ModSmall
      <3>3. accepted' = [accepted EXCEPT ![h] = Append(@, k)]
        BY <2>2 DEF ReadPacket
      <3>4. /\ m_pending_acks' = [m_pending_acks EXCEPT ![h] = Append(@, header.id)]
            /\ m_next_expected_packet_id' =
                 [m_next_expected_packet_id EXCEPT ![h] = (header.id + 1) % IdModulus]
        BY <2>2, <1>1 DEF ProcessRead, ProcessPacketHeader
      <3>5. m_next_expected_packet_id[h] <= header.id
        BY <2>2, <1>3, IdIsNat DEF Accepts, TypeOK, PdmTypeOK
      <3> QED BY <3>2, <3>3, <3>4, <3>5, <1>3
    <2> QED BY <2>1, <2>2
  <1> HIDE DEF header
  <1>5. \A g \in Host : m_next_expected_packet_id[g] \in Nat
    BY IdIsNat DEF TypeOK, PdmTypeOK
  <1>6. \A g \in Host : m_next_expected_packet_id[g] <= m_next_expected_packet_id'[g]
    <2> SUFFICES ASSUME NEW g \in Host
        PROVE m_next_expected_packet_id[g] <= m_next_expected_packet_id'[g]
      OBVIOUS
    <2>1. \/ m_next_expected_packet_id'[g] = m_next_expected_packet_id[g]
          \/ m_next_expected_packet_id'[g] = k /\ m_next_expected_packet_id[g] <= k - 1
      BY <1>4 DEF TypeOK, PdmTypeOK
    <2> QED BY <2>1, <1>3, <1>5
  <1>7. /\ \A g \in Host : Len(accepted[g]) \in Nat /\ Len(accepted'[g]) >= Len(accepted[g])
        /\ \A g \in Host : \A i \in 1 .. Len(accepted[g]) : accepted'[g][i] = accepted[g][i]
    <2> SUFFICES ASSUME NEW g \in Host
        PROVE /\ Len(accepted[g]) \in Nat /\ Len(accepted'[g]) >= Len(accepted[g])
              /\ \A i \in 1 .. Len(accepted[g]) : accepted'[g][i] = accepted[g][i]
      OBVIOUS
    <2>1. accepted'[g] = accepted[g] \/ accepted'[g] = Append(accepted[g], k)
      BY <1>4 DEF TypeOK
    <2> QED BY <2>1, <1>3, Lengths
  <1>8. \A g \in Host : \A id : WasAccepted(g, id) => WasAccepted(g, id)'
    BY <1>7 DEF WasAccepted
  <1>9. PacketsNumbered'
    BY <1>2 DEF LinkInv, PacketsNumbered
  <1>10. AcceptedIsPast' /\ AcceptedInOrder'
    <2>1. CASE UNCHANGED <<accepted, m_pending_acks, m_next_expected_packet_id>>
      BY <2>1, <1>2 DEF LinkInv, AcceptedIsPast, AcceptedInOrder
    <2>2. CASE /\ m_next_expected_packet_id[h] <= k - 1
               /\ accepted' = [accepted EXCEPT ![h] = Append(@, k)]
               /\ m_next_expected_packet_id' = [m_next_expected_packet_id EXCEPT ![h] = k]
      <3>1. /\ Len(accepted'[h]) = Len(accepted[h]) + 1
            /\ accepted'[h][Len(accepted[h]) + 1] = k
            /\ m_next_expected_packet_id'[h] = k
            /\ \A g \in Host : g # h => /\ accepted'[g] = accepted[g]
                                        /\ m_next_expected_packet_id'[g] = m_next_expected_packet_id[g]
        BY <2>2, <1>3, Lengths DEF TypeOK, PdmTypeOK
      <3>2. \A i \in 1 .. Len(accepted[h]) : /\ accepted[h][i] \in Nat
                                            /\ accepted[h][i] <= k - 1
                                            /\ accepted[h][i] <= Len(sent[Other(h)])
        <4>1. \A i \in 1 .. Len(accepted[h]) : accepted[h][i] \in Nat
          BY Lengths
        <4>2. \A i \in 1 .. Len(accepted[h]) :
                /\ accepted[h][i] <= Len(sent[Other(h)])
                /\ accepted[h][i] <= m_next_expected_packet_id[h]
          BY DEF LinkInv, AcceptedIsPast
        <4> QED BY ONLY <4>1, <4>2, <2>2, <1>3, <1>5, h \in Host
      <3>3. \A i \in 1 .. Len(accepted[h]) + 1 :
              i \in 1 .. Len(accepted[h]) \/ i = Len(accepted[h]) + 1
        BY <1>7
      <3>4. AcceptedIsPast'
        <4> SUFFICES ASSUME NEW g \in Host, NEW i \in 1 .. Len(accepted'[g])
            PROVE /\ accepted'[g][i] <= Len(sent[Other(g)])
                  /\ accepted'[g][i] <= m_next_expected_packet_id'[g]
          BY <1>2 DEF AcceptedIsPast
        <4>1. CASE g # h
          BY <4>1, <3>1 DEF LinkInv, AcceptedIsPast
        <4>2. CASE g = h /\ i \in 1 .. Len(accepted[h])
          <5>1. accepted'[h][i] = accepted[h][i]
            BY <4>2, <1>7
          <5> QED BY ONLY <5>1, <4>2, <3>1, <3>2, <1>3
        <4>3. CASE g = h /\ i = Len(accepted[h]) + 1
          BY <4>3, <3>1, <1>3, OtherHost, Lengths
        <4> QED BY <4>1, <4>2, <4>3, <3>1, <3>3
      <3>5. AcceptedInOrder'
        <4> SUFFICES ASSUME NEW g \in Host, NEW i \in 1 .. Len(accepted'[g]),
                            NEW j \in 1 .. Len(accepted'[g]), i < j
            PROVE accepted'[g][i] < accepted'[g][j]
          BY DEF AcceptedInOrder
        <4>1. CASE g # h
          BY <4>1, <3>1 DEF LinkInv, AcceptedInOrder
        <4>2. CASE g = h /\ j \in 1 .. Len(accepted[h])
          <5>1. i \in 1 .. Len(accepted[h])
            BY <4>2, <1>7
          <5> QED BY <5>1, <4>2, <1>7 DEF LinkInv, AcceptedInOrder
        <4>3. CASE g = h /\ j = Len(accepted[h]) + 1
          <5>1. i \in 1 .. Len(accepted[h])
            BY <4>3, <1>7
          <5>2. accepted'[h][i] = accepted[h][i]
            BY <5>1, <1>7
          <5> QED BY ONLY <5>1, <5>2, <4>3, <3>1, <3>2, <1>3
        <4> QED BY <4>1, <4>2, <4>3, <3>1, <3>3
      <3> QED BY <3>4, <3>5
    <2> QED BY <2>1, <2>2, <1>4
  <1>11. PendingWereAccepted' /\ PendingInOrder'
    <2>1. CASE UNCHANGED <<accepted, m_pending_acks, m_next_expected_packet_id>>
      BY <2>1, <1>2 DEF LinkInv, PendingWereAccepted, PendingInOrder, WasAccepted
    <2>2. CASE /\ m_next_expected_packet_id[h] <= k - 1
               /\ accepted' = [accepted EXCEPT ![h] = Append(@, k)]
               /\ m_pending_acks' = [m_pending_acks EXCEPT ![h] = Append(@, k - 1)]
      <3> DEFINE p == Len(m_pending_acks[h])
      <3>0. /\ m_pending_acks[h] \in Seq(PacketId)
            /\ m_pending_acks'[h] = Append(m_pending_acks[h], k - 1)
            /\ \A g \in Host : g # h => m_pending_acks'[g] = m_pending_acks[g]
            /\ k - 1 \in PacketId
        BY <2>2, <1>3, Lengths DEF TypeOK, PdmTypeOK, PacketHeader
      <3>1. /\ Len(m_pending_acks'[h]) = p + 1
            /\ m_pending_acks'[h][p + 1] = k - 1
            /\ \A i \in 1 .. p : m_pending_acks'[h][i] = m_pending_acks[h][i]
            /\ p \in Nat
        BY ONLY <3>0
      <3>2. accepted'[h] = Append(accepted[h], k) /\ accepted[h] \in Seq(Nat \ {0})
        BY <2>2, Lengths DEF TypeOK
      <3>3. WasAccepted(h, k - 1)'
        <4>1. /\ accepted'[h][Len(accepted[h]) + 1] = k
              /\ Len(accepted[h]) + 1 \in 1 .. Len(accepted'[h])
          BY ONLY <3>2, <1>3
        <4> QED BY <4>1, <1>3 DEF WasAccepted
      <3>4. \A i \in 1 .. p : m_pending_acks[h][i] \in Nat /\ m_pending_acks[h][i] < k - 1
        <4> SUFFICES ASSUME NEW i \in 1 .. p
            PROVE m_pending_acks[h][i] \in Nat /\ m_pending_acks[h][i] < k - 1
          OBVIOUS
        <4>1. m_pending_acks[h][i] \in Nat
          BY <3>0, IdIsNat
        <4>2. PICK j \in 1 .. Len(accepted[h]) : accepted[h][j] = m_pending_acks[h][i] + 1
          BY DEF LinkInv, PendingWereAccepted, WasAccepted
        <4>3. accepted[h][j] <= m_next_expected_packet_id[h]
          BY DEF LinkInv, AcceptedIsPast
        <4> QED BY ONLY <4>1, <4>2, <4>3, <2>2, <1>3, <1>5, h \in Host
      <3>5. PendingWereAccepted'
        <4> SUFFICES ASSUME NEW g \in Host, NEW i \in 1 .. Len(m_pending_acks'[g])
            PROVE WasAccepted(g, m_pending_acks[g][i])'
          BY DEF PendingWereAccepted
        <4>1. CASE g # h
          <5>1. WasAccepted(g, m_pending_acks[g][i]) /\ m_pending_acks'[g] = m_pending_acks[g]
            BY <4>1, <3>0 DEF LinkInv, PendingWereAccepted
          <5> QED BY ONLY <5>1, <1>8, g \in Host DEF WasAccepted
        <4>2. CASE g = h /\ i \in 1 .. p
          <5>1. WasAccepted(h, m_pending_acks[h][i]) /\ m_pending_acks'[h][i] = m_pending_acks[h][i]
            BY <4>2, <3>1 DEF LinkInv, PendingWereAccepted
          <5> QED BY ONLY <5>1, <4>2, <1>8, h \in Host DEF WasAccepted
        <4>3. CASE g = h /\ i = p + 1
          BY <4>3, <3>1, <3>3 DEF WasAccepted
        <4> QED BY <4>1, <4>2, <4>3, <3>1
      <3>6. PendingInOrder'
        <4> SUFFICES ASSUME NEW g \in Host, NEW i \in 1 .. Len(m_pending_acks'[g]),
                            NEW j \in 1 .. Len(m_pending_acks'[g]), i < j
            PROVE m_pending_acks'[g][i] < m_pending_acks'[g][j]
          BY DEF PendingInOrder
        <4>1. CASE g # h
          BY <4>1, <3>0 DEF LinkInv, PendingInOrder
        <4>2. CASE g = h /\ j \in 1 .. p
          <5>1. i \in 1 .. p
            BY <4>2, <3>1
          <5> QED BY <5>1, <4>2, <3>1 DEF LinkInv, PendingInOrder
        <4>3. CASE g = h /\ j = p + 1
          <5>1. i \in 1 .. p
            BY <4>3, <3>1
          <5> QED BY <5>1, <4>3, <3>1, <3>4
        <4> QED BY <4>1, <4>2, <4>3, <3>1
      <3> QED BY <3>5, <3>6
    <2> QED BY <2>1, <2>2, <1>4
  <1>12. HeadersAckAccepted'
    <2> SUFFICES ASSUME NEW g \in Host, NEW j \in 1 .. Len(sent[g]),
                        NEW bit \in sent[g][j].ack_bitmask
        PROVE WasAccepted(g, sent[g][j].ack_sequence_number + bit)'
      BY <1>2 DEF HeadersAckAccepted, WasAccepted
    <2>1. WasAccepted(g, sent[g][j].ack_sequence_number + bit)
      BY DEF LinkInv, HeadersAckAccepted
    <2> QED BY <2>1, <1>2, <1>8 DEF WasAccepted
  <1>13. /\ AcksResolve(h, header, n)
         /\ m_in_flight_packets' = [m_in_flight_packets EXCEPT ![h] = Popped(@, n)]
    BY <1>1 DEF ProcessRead
  <1>14. Len(ReadStatuses(h, header, n)) = n
    BY DEF ReadStatuses
  <1>15. /\ batch \in Seq(ReportedStatus)
         /\ Len(batch) = n
         /\ \A i \in 1 .. n :
              /\ batch[i].id = m_in_flight_packets[h][i].id
              /\ batch[i].status = StatusOf(m_in_flight_packets[h][i].id, header)
    BY <1>3, <1>14, CausedByType DEF CausedBy, ReadStatuses
  <1> HIDE DEF batch
  <1>16. /\ FateReportedOnce'
         /\ Len(reported'[h]) = Len(reported[h]) + n
         /\ \A i \in 1 .. Len(reported[h]) : reported'[h][i] = reported[h][i]
         /\ \A i \in 1 .. n : reported'[h][Len(reported[h]) + i] = batch[i]
         /\ \A g \in Host : g # h => reported'[g] = reported[g]
    BY <1>1, <1>2, <1>13, <1>15, ReportBatch DEF batch
  <1>17. ReportsAreTrue'
    <2>1. ASSUME NEW g \in Host
          PROVE  /\ Other(g) \in Host
                 /\ m_next_expected_packet_id[Other(g)] <= m_next_expected_packet_id'[Other(g)]
                 /\ m_next_expected_packet_id[Other(g)] \in Nat
                 /\ m_next_expected_packet_id'[Other(g)] \in Nat
      BY <1>5, <1>6, OtherHost, IdIsNat DEF TypeOK, PdmTypeOK
    <2>2. ASSUME NEW g \in Host, NEW i \in 1 .. Len(reported'[g])
          PROVE  reported'[g][i].id \in Nat
      <3>1. reported'[g] \in Seq(ReportedStatus)
        BY DEF TypeOK
      <3>2. reported'[g][i] \in ReportedStatus
        BY <3>1
      <3> QED BY ONLY <3>2, IdIsNat DEF ReportedStatus
    <2> SUFFICES ASSUME NEW g \in Host, NEW i \in 1 .. Len(reported'[g])
        PROVE /\ reported'[g][i].status = ACK => WasAccepted(Other(g), reported'[g][i].id)
              /\ reported'[g][i].cause = BYACKS
                   => reported'[g][i].id < m_next_expected_packet_id[Other(g)]
      <3>1. ReportsAreTrue' <=>
              \A g \in Host : \A i \in 1 .. Len(reported'[g]) :
                /\ reported'[g][i].status = ACK => WasAccepted(Other(g), reported[g][i].id)'
                /\ reported'[g][i].cause = BYACKS
                     => reported'[g][i].id < m_next_expected_packet_id'[Other(g)]
        BY DEF ReportsAreTrue
      <3>2. ASSUME NEW g \in Host, NEW i \in 1 .. Len(reported'[g]),
                   WasAccepted(Other(g), reported'[g][i].id)
            PROVE  WasAccepted(Other(g), reported[g][i].id)'
        BY ONLY <3>2, <2>1, <1>8 DEF WasAccepted
      <3>3. ASSUME NEW g \in Host, NEW i \in 1 .. Len(reported'[g]),
                   reported'[g][i].id < m_next_expected_packet_id[Other(g)]
            PROVE  reported'[g][i].id < m_next_expected_packet_id'[Other(g)]
        BY <3>3, <2>1, <2>2
      <3> QED BY <3>1, <3>2, <3>3
    <2>3. CASE g # h \/ i \in 1 .. Len(reported[h])
      BY <2>3, <1>16 DEF LinkInv, ReportsAreTrue
    <2>4. CASE g = h /\ ~(i \in 1 .. Len(reported[h]))
      <3> DEFINE j == i - Len(reported[h])
                 id == m_in_flight_packets[h][j].id
      <3>1. j \in 1 .. n /\ i = Len(reported[h]) + j
        BY <2>4, <1>16, Lengths
      <3> HIDE DEF j
      <3>2. reported'[h][i].id = id /\ reported'[h][i].status = StatusOf(id, header)
        BY <3>1, <1>15, <1>16
      <3>3. id < m_next_expected_packet_id[Other(h)]
        BY <3>1, <1>13, ResolvedIsPast DEF header
      <3>4. ASSUME StatusOf(id, header) = ACK PROVE WasAccepted(Other(h), id)
        <4>1. id - header.ack_sequence_number \in header.ack_bitmask
          BY <3>4 DEF StatusOf, ACK, DROP
        <4>2. header.ack_sequence_number \in Nat
          BY <1>3, IdIsNat DEF PacketHeader
        <4>3. id \in Nat
          <5>1. m_in_flight_packets[h][j] \in InFlightPacket
            BY <3>1, Lengths
          <5> QED BY <5>1, IdIsNat DEF InFlightPacket
        <4>4. WasAccepted(Other(h), header.ack_sequence_number + (id - header.ack_sequence_number))
          BY <4>1, OtherHost DEF LinkInv, HeadersAckAccepted, header
        <4>5. header.ack_sequence_number + (id - header.ack_sequence_number) = id
          BY ONLY <4>2, <4>3
        <4> QED BY <4>4, <4>5
      <3> QED BY <3>2, <3>3, <3>4, <2>4
    <2> QED BY <2>3, <2>4
  <1> QED BY <1>9, <1>10, <1>11, <1>12, <1>16, <1>17 DEF LinkInv

-----------------------------------------------------------------------------
(* The results.                                                              *)

LEMMA LinkInvStep == NoWrapAround /\ LinkInv /\ [Next]_vars => LinkInv'
  <1> SUFFICES ASSUME NoWrapAround, LinkInv, [Next]_vars PROVE LinkInv'
    OBVIOUS
  <1>1. TypeOK'
    BY TypeStep DEF LinkInv
  <1>2. CASE Elapse \/ UNCHANGED vars
    <2>1. UNCHANGED <<pdmVars, sent, accepted, reported>>
      BY <1>2 DEF Elapse, vars
    <2> QED BY <1>1, <2>1
        DEF pdmVars, LinkInv, PacketsNumbered, FateReportedOnce, AcceptedIsPast,
            AcceptedInOrder, PendingWereAccepted, PendingInOrder, HeadersAckAccepted,
            ReportsAreTrue, WasAccepted
  <1>3. ASSUME NEW h \in Host, WritePacket(h) PROVE LinkInv'
    BY <1>1, <1>3, WriteStep
  <1>4. ASSUME NEW h \in Host, NEW k \in 1 .. Len(sent[Other(h)]), ReadPacket(h, k)
        PROVE  LinkInv'
    BY <1>1, <1>4, ReadStep
  <1>5. ASSUME NEW h \in Host, DropOld(h) PROVE LinkInv'
    BY <1>1, <1>5, DropStep
  <1> QED BY <1>2, <1>3, <1>4, <1>5 DEF Next

LEMMA LinkInvInit == Init => LinkInv
  <1> SUFFICES ASSUME Init PROVE LinkInv
    OBVIOUS
  <1>1. TypeOK
    BY PacketConstants, LinkConstants
       DEF Init, PdmInit, TypeOK, PdmTypeOK, PacketId
  <1> QED BY <1>1, LinkConstants
      DEF Init, PdmInit, LinkInv, PacketsNumbered, FateReportedOnce, AcceptedIsPast,
          AcceptedInOrder, PendingWereAccepted, PendingInOrder, HeadersAckAccepted,
          ReportsAreTrue

LEMMA LinkInvAlways == ASSUME NoWrapAround PROVE Spec => []LinkInv
  <1>1. NoWrapAround
    OBVIOUS
  <1> QED BY <1>1, LinkInvInit, LinkInvStep, PTL DEF Spec

LEMMA LinkInvImplies ==
    LinkInv => /\ AckedWasAccepted
               /\ AckFateIsFinal
               /\ PendingAcksAscend
  <1> SUFFICES ASSUME LinkInv
      PROVE AckedWasAccepted /\ AckFateIsFinal /\ PendingAcksAscend
    OBVIOUS
  <1> TypeOK
    BY DEF LinkInv
  <1>1. ASSUME NEW h \in Host, NEW i \in 1 .. Len(reported[h])
        PROVE  reported[h][i].id = i - 1
    <2>1. i \in 1 .. Len(sent[h]) /\ reported[h][i].id = sent[h][i].id
      <3>1. /\ Len(sent[h]) = Len(reported[h]) + Len(m_in_flight_packets[h])
            /\ reported[h][i].id = sent[h][i].id
        BY DEF LinkInv, FateReportedOnce
      <3>2. Len(reported[h]) \in Nat /\ Len(m_in_flight_packets[h]) \in Nat
        BY Lengths
      <3> DEFINE r == Len(reported[h])
                 f == Len(m_in_flight_packets[h])
                 s == Len(sent[h])
      <3>3. r \in Nat /\ f \in Nat /\ s = r + f /\ i \in 1 .. r
        BY <3>1, <3>2
      <3> HIDE DEF r, f, s
      <3>4. i \in 1 .. s
        BY ONLY <3>3
      <3> QED BY <3>1, <3>4 DEF s
    <2> QED BY <2>1 DEF LinkInv, PacketsNumbered
  <1>2. AckedWasAccepted
    <2> SUFFICES ASSUME NEW h \in Host, NEW i \in 1 .. Len(reported[h]),
                        reported[h][i].status = ACK
        PROVE i \in ToSet(accepted[Other(h)])
      BY DEF AckedWasAccepted
    <2>1. i \in Nat /\ (i - 1) + 1 = i
      BY Lengths
    <2>2. PICK j \in 1 .. Len(accepted[Other(h)]) : accepted[Other(h)][j] = i
      BY <1>1, <2>1 DEF LinkInv, ReportsAreTrue, WasAccepted
    <2>3. j \in DOMAIN accepted[Other(h)]
      BY <2>2, OtherHost, Lengths
    <2> QED BY <2>2, <2>3 DEF ToSet
  <1>3. AckFateIsFinal
    BY DEF LinkInv, ReportsAreTrue, AckFateIsFinal
  <1>4. PendingAcksAscend
    <2> SUFFICES ASSUME NEW h \in Host, NEW i \in 1 .. Len(m_pending_acks[h])
        PROVE m_pending_acks[h][i] >= m_pending_acks[h][1]
      BY DEF PendingAcksAscend, AcksAscend
    <2>1. 1 \in 1 .. Len(m_pending_acks[h])
      BY Lengths
    <2>2. m_pending_acks[h][i] \in Nat /\ m_pending_acks[h][1] \in Nat
      BY <2>1, Lengths, IdIsNat
    <2>3. 1 < i => m_pending_acks[h][1] < m_pending_acks[h][i]
      BY <2>1 DEF LinkInv, PendingInOrder
    <2> QED BY <2>1, <2>2, <2>3
  <1> QED BY <1>2, <1>3, <1>4

\* Until the ids wrap around, an ACK is only reported of an accepted packet, and
\* what acks report is final, under any loss, duplication and reordering.
THEOREM AcksAreTrue ==
    ASSUME NoWrapAround PROVE Spec => [](AckedWasAccepted /\ AckFateIsFinal)
  BY LinkInvAlways, LinkInvImplies, PTL

\* Until the ids wrap around, each packet gets one fate, in order.
THEOREM FatesComeOnceInOrder ==
    ASSUME NoWrapAround PROVE Spec => []FateReportedOnce
  <1>1. LinkInv => FateReportedOnce
    BY DEF LinkInv
  <1> QED BY <1>1, LinkInvAlways, PTL

\* Until the ids wrap around, no packet is accepted twice or out of order.
THEOREM AcceptsInOrder ==
    ASSUME NoWrapAround PROVE Spec => []AcceptedInOrder
  <1>1. LinkInv => AcceptedInOrder
    BY DEF LinkInv
  <1> QED BY <1>1, LinkInvAlways, PTL

\* Until the ids wrap around, the assertion in the loop of write holds.
THEOREM WriteAssertionHolds ==
    ASSUME NoWrapAround PROVE Spec => []PendingAcksAscend
  BY LinkInvAlways, LinkInvImplies, PTL

-----------------------------------------------------------------------------
(* Refinement: the managers keep the contract of DeliveryNotification.       *)

LEMMA ToSetAppend ==
    ASSUME NEW S, NEW s \in Seq(S), NEW x \in S
    PROVE  ToSet(Append(s, x)) = ToSet(s) \cup {x}
  <1>1. DOMAIN s = 1 .. Len(s) /\ Len(s) \in Nat
    OBVIOUS
  <1>2. /\ DOMAIN Append(s, x) = 1 .. Len(s) + 1
        /\ \A i \in 1 .. Len(s) : Append(s, x)[i] = s[i]
        /\ Append(s, x)[Len(s) + 1] = x
    BY <1>1
  <1>3. 1 .. Len(s) + 1 = (1 .. Len(s)) \cup {Len(s) + 1}
    BY <1>1
  <1> QED BY <1>1, <1>2, <1>3 DEF ToSet

\* A call that reports n fates is a Report of the contract.
LEMMA ReportRefines ==
    ASSUME LinkInv, LinkInv', NEW h \in Host, NEW n \in Nat, sent' = sent,
           Len(reported'[h]) = Len(reported[h]) + n,
           \A i \in 1 .. Len(reported[h]) : reported'[h][i] = reported[h][i],
           \A g \in Host : g # h => reported'[g] = reported[g],
           accepted'[Other(h)] = accepted[Other(h)]
    PROVE  \E batch \in Contract!Batches(h) : Contract!Report(h, batch)
  <1> DEFINE r == Len(reported[h])
             Fates(q) == [i \in 1 .. Len(q) |-> q[i].status]
  <1> TypeOK /\ TypeOK'
    BY DEF LinkInv
  <1>1. r \in Nat /\ r + n <= Len(sent[h]) /\ Len(sent[h]) \in Nat
    <2>1. /\ Len(sent[h]) = Len(reported'[h]) + Len(m_in_flight_packets'[h])
      BY DEF LinkInv, FateReportedOnce
    <2>2. m_in_flight_packets'[h] \in Seq(InFlightPacket)
      BY DEF TypeOK, PdmTypeOK
    <2>3. r \in Nat /\ Len(sent[h]) \in Nat /\ Len(m_in_flight_packets'[h]) \in Nat
      BY <2>2, Lengths
    <2> DEFINE f == Len(m_in_flight_packets'[h])
               s == Len(sent[h])
    <2>4. r \in Nat /\ f \in Nat /\ s = r + n + f
      BY <2>1, <2>3
    <2> HIDE DEF r, f, s
    <2>5. r + n <= s
      BY ONLY <2>4, n \in Nat
    <2> QED BY <2>3, <2>5 DEF s
  \* The statuses of the call, as the contract sees them.
  <1>0. PICK batch : batch = [i \in 1 .. n |-> reported'[h][r + i].status]
    OBVIOUS
  <1>2. ASSUME NEW i \in 1 .. n
        PROVE  /\ batch[i] = reported'[h][r + i].status
               /\ batch[i] \in {"ACK", "DROP"}
               /\ batch[i] = "ACK" => r + i \in ToSet(accepted[Other(h)])
    <2>1. r + i \in 1 .. Len(reported'[h])
      BY <1>1
    <2>2. reported'[h] \in Seq(ReportedStatus)
      BY DEF TypeOK
    <2>3. reported'[h][r + i].status \in {ACK, DROP}
      <3>1. reported'[h][r + i] \in ReportedStatus
        BY <2>1, <2>2
      <3> QED BY ONLY <3>1 DEF ReportedStatus
    <2>4. AckedWasAccepted'
      BY LinkInvImplies, PTL
    <2>5. reported'[h][r + i].status = ACK => r + i \in ToSet(accepted'[Other(h)])
      BY <2>1, <2>4 DEF AckedWasAccepted
    <2> QED BY <2>3, <2>5, <1>0 DEF ACK, DROP
  <1>3. Len(batch) = n /\ batch \in [1 .. n -> {"ACK", "DROP"}]
    <2>1. batch = [i \in 1 .. n |-> batch[i]]
      BY <1>0
    <2> QED BY ONLY <2>1, <1>2, n \in Nat
  <1>4. batch \in Contract!Batches(h)
    <2>1. Len(Fates(reported[h])) = r
      BY <1>1
    <2>2. n \in 0 .. Len(sent[h]) - r
      BY <1>1
    <2> QED BY <1>3, <2>1, <2>2 DEF Contract!Batches, Contract!Fate
  <1>5. Fates(reported'[h]) = Fates(reported[h]) \o batch
    <2>1. Fates(reported[h]) \in Seq({"ACK", "DROP"}) /\ Len(Fates(reported[h])) = r
      <3>1. \A i \in 1 .. r : reported[h][i].status \in {"ACK", "DROP"}
        <4>1. \A i \in 1 .. r : reported[h][i] \in ReportedStatus
          BY Lengths
        <4> QED BY <4>1 DEF ReportedStatus, ACK, DROP
      <3> QED BY ONLY <3>1, <1>1
    <2>2. batch \in Seq({"ACK", "DROP"})
      BY ONLY <1>3, n \in Nat
    <2>3. /\ Len(Fates(reported[h]) \o batch) = r + n
          /\ \A i \in 1 .. r : (Fates(reported[h]) \o batch)[i] = Fates(reported[h])[i]
          /\ \A i \in 1 .. n : (Fates(reported[h]) \o batch)[r + i] = batch[i]
          /\ Fates(reported[h]) \o batch \in Seq({"ACK", "DROP"})
      <3> DEFINE old == Fates(reported[h])
      <3>1. old \in Seq({"ACK", "DROP"}) /\ Len(old) = r
        BY <2>1
      <3> HIDE DEF old, Fates, r
      <3>2. /\ old \o batch \in Seq({"ACK", "DROP"})
            /\ Len(old \o batch) = Len(old) + Len(batch)
        BY ONLY <3>1, <2>2, ConcatProperties
      <3>3. /\ \A i \in 1 .. Len(old) : (old \o batch)[i] = old[i]
            /\ \A i \in 1 .. Len(batch) : (old \o batch)[Len(old) + i] = batch[i]
        BY ONLY <3>1, <2>2, ConcatIndices
      <3> QED BY <3>1, <3>2, <3>3, <1>3 DEF old
    <2>4. ASSUME NEW i \in 1 .. r + n
          PROVE  (Fates(reported[h]) \o batch)[i] = reported'[h][i].status
      <3>1. CASE i \in 1 .. r
        BY <3>1, <2>3
      <3>2. CASE ~(i \in 1 .. r)
        <4> DEFINE j == i - r
        <4>1. j \in 1 .. n /\ i = r + j
          BY ONLY <3>2, <1>1, n \in Nat, i \in 1 .. r + n
        <4> HIDE DEF j
        <4> QED BY ONLY <4>1, <2>3, <1>2
      <3> QED BY <3>1, <3>2
    <2> DEFINE whole == Fates(reported[h]) \o batch
    <2>5. whole \in Seq({"ACK", "DROP"}) /\ Len(whole) = r + n
      BY <2>3
    <2>6. \A i \in 1 .. r + n : whole[i] = reported'[h][i].status
      BY <2>4
    <2> HIDE DEF whole
    <2>7. whole = [i \in 1 .. r + n |-> reported'[h][i].status]
      BY ONLY <2>5, <2>6
    <2> QED BY <2>7 DEF whole
  <1>6. Contract!Reportable(h, batch)
    BY <1>1, <1>2, <1>3 DEF Contract!Reportable
  <1>7. [g \in Host |-> Fates(reported'[g])] =
          [[g \in Host |-> Fates(reported[g])] EXCEPT ![h] = @ \o batch]
    BY <1>5
  <1> QED BY <1>4, <1>6, <1>7 DEF Contract!Report

LEMMA ReportedGrows ==
    ASSUME TypeOK, NEW h \in Host, NEW batch \in Seq(ReportedStatus),
           reported' = [reported EXCEPT ![h] = @ \o batch]
    PROVE  /\ Len(batch) \in Nat
           /\ Len(reported'[h]) = Len(reported[h]) + Len(batch)
           /\ \A i \in 1 .. Len(reported[h]) : reported'[h][i] = reported[h][i]
           /\ \A g \in Host : g # h => reported'[g] = reported[g]
  <1>1. /\ reported'[h] = reported[h] \o batch
        /\ \A g \in Host : g # h => reported'[g] = reported[g]
    BY DEF TypeOK
  <1>2. reported[h] \in Seq(ReportedStatus)
    BY Lengths
  <1>3. /\ Len(reported[h] \o batch) = Len(reported[h]) + Len(batch)
        /\ \A i \in 1 .. Len(reported[h]) : (reported[h] \o batch)[i] = reported[h][i]
        /\ Len(batch) \in Nat
    BY ONLY <1>2, batch \in Seq(ReportedStatus), ConcatIndices
  <1> QED BY ONLY <1>1, <1>3

\* Every step of the managers is a step of the contract.
LEMMA StepRefines ==
    ASSUME LinkInv, LinkInv', [Next]_vars
    PROVE  [Contract!ContractNext]_(Contract!contractVars)
  <1> DEFINE S == [h \in Host |-> Len(sent[h])]
             Acc == [h \in Host |-> ToSet(accepted[Other(h)])]
             Fates(q) == [i \in 1 .. Len(q) |-> q[i].status]
             R == [h \in Host |-> Fates(reported[h])]
  <1> TypeOK /\ TypeOK'
    BY DEF LinkInv
  <1>0. Contract!Ends = Host
    BY LinkConstants DEF Contract!Ends
  <1>1. CASE Elapse \/ UNCHANGED vars
    <2>1. UNCHANGED <<sent, accepted, reported>>
      BY <1>1 DEF Elapse, vars
    <2>2. S' = S /\ Acc' = Acc /\ R' = R
      BY <2>1
    <2> QED BY <2>2 DEF Contract!contractVars
  <1>2. ASSUME NEW h \in Host, WritePacket(h)
        PROVE  Contract!ContractNext
    <2>1. PICK n \in 0 .. Len(m_pending_acks[h]) :
            PdmWrite(h, now, n) /\ sent' = [sent EXCEPT ![h] = Append(@, HeaderToWrite(h, n))]
      BY <1>2 DEF WritePacket
    <2>2. HeaderToWrite(h, n) \in PacketHeader
      BY <2>1, HeaderType DEF PdmWrite
    <2>3. /\ sent'[h] = Append(sent[h], HeaderToWrite(h, n))
          /\ \A g \in Host : g # h => sent'[g] = sent[g]
      BY <2>1 DEF TypeOK
    <2>4. Len(sent'[h]) = Len(sent[h]) + 1
      BY <2>2, <2>3, Lengths
    <2>5. S' = [S EXCEPT ![h] = @ + 1]
      BY <2>3, <2>4
    <2>6. UNCHANGED <<accepted, reported>>
      BY <1>2 DEF WritePacket
    <2>7. Acc' = Acc /\ R' = R
      BY <2>6
    <2>8. Contract!SendPacket(h)
      BY <2>5, <2>7 DEF Contract!SendPacket
    <2> QED BY <2>8, <1>0 DEF Contract!ContractNext
  <1>3. ASSUME NEW h \in Host, DropOld(h)
        PROVE  Contract!ContractNext
    <2>1. PICK n \in 0 .. Len(m_in_flight_packets[h]) :
            reported' = [reported EXCEPT
              ![h] = @ \o CausedBy(DropStatuses(h, n), BYTIMEOUT)]
      BY <1>3 DEF DropOld
    <2> DEFINE batch == CausedBy(DropStatuses(h, n), BYTIMEOUT)
    <2>2. batch \in Seq(ReportedStatus)
      BY CausedByType
    <2>3. UNCHANGED <<sent, accepted>>
      BY <1>3 DEF DropOld
    <2> HIDE DEF batch
    <2>4. PICK fates \in Contract!Batches(h) : Contract!Report(h, fates)
      <3>1. reported' = [reported EXCEPT ![h] = @ \o batch]
        BY <2>1 DEF batch
      <3>2. /\ Len(batch) \in Nat
            /\ Len(reported'[h]) = Len(reported[h]) + Len(batch)
            /\ \A i \in 1 .. Len(reported[h]) : reported'[h][i] = reported[h][i]
            /\ \A g \in Host : g # h => reported'[g] = reported[g]
        BY <2>2, <3>1, ReportedGrows
      <3> QED BY <2>3, <3>2, ReportRefines
    <2>5. S' = S /\ Acc' = Acc
      BY <2>3
    <2>6. Contract!Notify(h, fates)
      BY <2>4, <2>5 DEF Contract!Notify
    <2> QED BY <2>4, <2>6, <1>0 DEF Contract!ContractNext
  <1>4. ASSUME NEW h \in Host, NEW k \in 1 .. Len(sent[Other(h)]), ReadPacket(h, k)
        PROVE  Contract!ContractNext
    <2> DEFINE header == sent[Other(h)][k]
    <2>1. PICK n \in 0 .. Len(m_in_flight_packets[h]) :
            reported' = [reported EXCEPT
              ![h] = @ \o CausedBy(ReadStatuses(h, header, n), BYACKS)]
      BY <1>4 DEF ReadPacket
    <2> DEFINE batch == CausedBy(ReadStatuses(h, header, n), BYACKS)
    <2>2. header \in PacketHeader /\ header.id = k - 1 /\ k \in Nat \ {0}
      BY OtherHost, Lengths DEF LinkInv, PacketsNumbered
    <2>3. batch \in Seq(ReportedStatus)
      BY <2>2, CausedByType
    <2>4. sent' = sent /\ accepted'[Other(h)] = accepted[Other(h)]
      BY <1>4, OtherHost DEF ReadPacket, TypeOK
    <2> HIDE DEF batch
    <2>5. PICK fates \in Contract!Batches(h) : Contract!Report(h, fates)
      <3>1. reported' = [reported EXCEPT ![h] = @ \o batch]
        BY <2>1 DEF batch
      <3>2. /\ Len(batch) \in Nat
            /\ Len(reported'[h]) = Len(reported[h]) + Len(batch)
            /\ \A i \in 1 .. Len(reported[h]) : reported'[h][i] = reported[h][i]
            /\ \A g \in Host : g # h => reported'[g] = reported[g]
        BY <2>3, <3>1, ReportedGrows
      <3> QED BY <2>4, <3>2, ReportRefines
    <2>6. S' = S
      BY <2>4
    <2>7. CASE ~Accepts(h, header)
      <3>1. accepted'[h] = accepted[h]
        BY <1>4, <2>7 DEF ReadPacket, TypeOK
      <3>2. \A g \in Host : accepted'[Other(g)] = accepted[Other(g)]
        BY <2>4, <3>1, OtherHost
      <3>3. Acc' = Acc
        BY <3>2
      <3>4. Contract!Notify(h, fates)
        BY <2>5, <2>6, <3>3 DEF Contract!Notify
      <3> QED BY <2>5, <3>4, <1>0 DEF Contract!ContractNext
    <2>8. CASE Accepts(h, header)
      <3>1. accepted'[h] = Append(accepted[h], k)
        BY <1>4, <2>8 DEF ReadPacket, TypeOK
      <3>2. ToSet(accepted'[h]) = ToSet(accepted[h]) \cup {k}
        <4>1. accepted[h] \in Seq(Nat \ {0})
          BY Lengths
        <4> QED BY ONLY <4>1, <3>1, <2>2, ToSetAppend
      <3>3. \A j \in ToSet(accepted[h]) : j < k
        <4> SUFFICES ASSUME NEW i \in 1 .. Len(accepted[h]) PROVE accepted[h][i] < k
          BY Lengths DEF ToSet
        <4>1. accepted[h][i] <= m_next_expected_packet_id[h]
          BY DEF LinkInv, AcceptedIsPast
        <4>2. m_next_expected_packet_id[h] <= k - 1
          BY <2>2, <2>8, IdIsNat DEF Accepts, TypeOK, PdmTypeOK
        <4>3. m_next_expected_packet_id[h] \in Nat /\ accepted[h][i] \in Nat
          BY Lengths, IdIsNat DEF TypeOK, PdmTypeOK
        <4> QED BY <4>1, <4>2, <4>3, <2>2
      <3>4. Contract!Other(h) = Other(h) /\ S[Other(h)] = Len(sent[Other(h)])
            /\ Acc[Other(h)] = ToSet(accepted[h])
        BY OtherHost DEF Contract!Other, Other
      <3>5. Contract!Acceptable(h, k)
        BY <3>3, <3>4 DEF Contract!Acceptable
      <3>6. Acc' = [Acc EXCEPT ![Other(h)] = @ \cup {k}]
        <4>1. ASSUME NEW g \in Host
              PROVE  Acc'[g] = IF g = Other(h) THEN Acc[Other(h)] \cup {k} ELSE Acc[g]
          <5>1. CASE g = Other(h)
            BY <5>1, <3>2, <3>4, OtherHost
          <5>2. CASE g # Other(h)
            <6>1. g = h
              BY <5>2, OtherHost
            <6> QED BY <6>1, <5>2, <2>4
          <5> QED BY <5>1, <5>2
        <4> QED BY <4>1
      <3>7. Contract!Accept(h, fates, k)
        BY <2>5, <2>6, <3>4, <3>5, <3>6 DEF Contract!Accept
      <3>8. k \in 1 .. S[Contract!Other(h)]
        BY <3>4
      <3> QED BY <2>5, <3>7, <3>8, <1>0 DEF Contract!ContractNext
    <2> QED BY <2>7, <2>8
  <1> QED BY <1>1, <1>2, <1>3, <1>4 DEF Next

LEMMA InitRefines == Init => Contract!ContractInit
  BY LinkConstants DEF Init, Contract!ContractInit, Contract!Ends, Other, ToSet

\* Until the ids wrap around, two managers joined by a network that loses,
\* duplicates and reorders packets implement DeliveryNotification.
THEOREM LinkImplementsContract == ASSUME NoWrapAround PROVE Spec => KeepsContract
  <1>1. LinkInv /\ LinkInv' /\ [Next]_vars => [Contract!ContractNext]_(Contract!contractVars)
    BY StepRefines
  <1> QED BY <1>1, InitRefines, LinkInvAlways, PTL DEF Spec, KeepsContract, Contract!ContractSpec

-----------------------------------------------------------------------------
(* What is acknowledged: every accepted packet, once.                        *)

\* Packet id + 1 has been acknowledged in a header, or its ack is queued.
Acknowledged(h, id) ==
    \/ \E j \in 1 .. Len(sent[h]) : id \in AckedIn(sent[h][j])
    \/ \E i \in 1 .. Len(m_pending_acks[h]) : m_pending_acks[h][i] = id

AllAcknowledged ==
    \A h \in Host : \A i \in 1 .. Len(accepted[h]) : Acknowledged(h, accepted[h][i] - 1)

\* Headers acknowledge in order, and what is queued comes after all of them.
AcksInOrder ==
    \A h \in Host :
        /\ \A j, k \in 1 .. Len(sent[h]) : j < k =>
             \A a \in AckedIn(sent[h][j]), b \in AckedIn(sent[h][k]) : a < b
        /\ \A j \in 1 .. Len(sent[h]) : \A a \in AckedIn(sent[h][j]) :
             \A i \in 1 .. Len(m_pending_acks[h]) : a < m_pending_acks[h][i]

LEMMA NewHeaderAcks ==
    ASSUME LinkInv, NEW h \in Host, NEW n \in 0 .. Len(m_pending_acks[h])
    PROVE  /\ \A a \in AckedIn(HeaderToWrite(h, n)) :
                \E i \in 1 .. n : a = m_pending_acks[h][i]
           /\ \A i \in 1 .. n : m_pending_acks[h][i] \in AckedIn(HeaderToWrite(h, n))
  <1> DEFINE new == HeaderToWrite(h, n)
             p == m_pending_acks[h]
  <1> TypeOK
    BY DEF LinkInv
  <1>1. ASSUME NEW a \in AckedIn(new) PROVE \E i \in 1 .. n : a = p[i]
    <2>1. PICK bit \in new.ack_bitmask : a = new.ack_sequence_number + bit
      BY DEF AckedIn
    <2> HIDE DEF new, p
    <2> QED BY <2>1, HeaderAcksPending DEF new, p
  <1>2. ASSUME NEW i \in 1 .. n PROVE p[i] \in AckedIn(new)
    <2>1. p \in Seq(PacketId) /\ Len(p) \in Nat
      BY Lengths
    <2>2. i \in 1 .. Len(p) /\ 1 \in 1 .. Len(p) /\ p # << >>
      BY <2>1
    <2>3. p[i] \in PacketId /\ p[1] \in PacketId /\ p[i] \in Nat /\ p[1] \in Nat
      BY <2>1, <2>2, IdIsNat
    <2>4. p[1] <= p[i]
      <3>1. 1 < i => p[1] < p[i]
        BY <2>2 DEF LinkInv, PendingInOrder
      <3> QED BY <3>1, <2>2, <2>3
    <2>5. p[i] - p[1] \in 0 .. IdModulus - 1
      BY <2>3, <2>4, PacketConstants DEF PacketId
    <2>6. AckOffset(h, i) = p[i] - p[1]
      BY <2>5, ModSmall DEF AckOffset
    <2>7. new.ack_sequence_number = p[1] /\ AckOffset(h, i) \in new.ack_bitmask
      BY <2>2 DEF HeaderToWrite
    <2>8. p[1] + AckOffset(h, i) = p[i]
      BY <2>3, <2>6
    <2> HIDE DEF new, p
    <2> QED BY <2>7, <2>8 DEF AckedIn
  <1> QED BY <1>1, <1>2

LEMMA AckedInIsAccepted ==
    ASSUME LinkInv, NEW h \in Host, NEW j \in 1 .. Len(sent[h]),
           NEW a \in AckedIn(sent[h][j])
    PROVE  a \in Nat /\ a < m_next_expected_packet_id[h] /\ WasAccepted(h, a)
  <1> TypeOK
    BY DEF LinkInv
  <1>1. PICK bit \in sent[h][j].ack_bitmask : a = sent[h][j].ack_sequence_number + bit
    BY DEF AckedIn
  <1>2. sent[h][j] \in PacketHeader
    BY Lengths
  <1>3. a \in Nat
    BY <1>1, <1>2, IdIsNat DEF PacketHeader
  <1>4. WasAccepted(h, a)
    BY <1>1 DEF LinkInv, HeadersAckAccepted
  <1>5. PICK i \in 1 .. Len(accepted[h]) : accepted[h][i] = a + 1
    BY <1>4 DEF WasAccepted
  <1>6. a + 1 <= m_next_expected_packet_id[h] /\ m_next_expected_packet_id[h] \in Nat
    BY <1>5, IdIsNat DEF LinkInv, AcceptedIsPast, TypeOK, PdmTypeOK
  <1> QED BY <1>3, <1>4, <1>6

LEMMA AcksWriteStep ==
    ASSUME LinkInv, AllAcknowledged, AcksInOrder, NEW h \in Host, WritePacket(h)
    PROVE  AllAcknowledged' /\ AcksInOrder'
  <1>1. PICK n \in 0 .. Len(m_pending_acks[h]) :
          PdmWrite(h, now, n) /\ sent' = [sent EXCEPT ![h] = Append(@, HeaderToWrite(h, n))]
    BY DEF WritePacket
  <1> DEFINE new == HeaderToWrite(h, n)
             s == Len(sent[h])
             p == Len(m_pending_acks[h])
  <1> TypeOK
    BY DEF LinkInv
  <1>2. accepted' = accepted
    BY DEF WritePacket
  <1>3. new \in PacketHeader
    BY <1>1, HeaderType DEF PdmWrite
  <1>4. /\ Len(sent'[h]) = s + 1
        /\ sent'[h][s + 1] = new
        /\ \A i \in 1 .. s : sent'[h][i] = sent[h][i]
        /\ \A g \in Host : g # h => sent'[g] = sent[g]
        /\ s \in Nat /\ p \in Nat
    BY <1>1, <1>3, Lengths DEF TypeOK
  <1>5. /\ Len(m_pending_acks'[h]) = p - n
        /\ \A i \in 1 .. p - n : m_pending_acks'[h][i] = m_pending_acks[h][n + i]
        /\ \A g \in Host : g # h => m_pending_acks'[g] = m_pending_acks[g]
    <2>1. m_pending_acks' = [m_pending_acks EXCEPT ![h] = Popped(@, n)]
      BY <1>1 DEF PdmWrite
    <2>2. /\ m_pending_acks'[h] = Popped(m_pending_acks[h], n)
          /\ \A g \in Host : g # h => m_pending_acks'[g] = m_pending_acks[g]
      BY <2>1 DEF TypeOK, PdmTypeOK
    <2>3. m_pending_acks[h] \in Seq(PacketId)
      BY Lengths
    <2>4. /\ Len(Popped(m_pending_acks[h], n)) = Len(m_pending_acks[h]) - n
          /\ \A i \in 1 .. Len(m_pending_acks[h]) - n :
               Popped(m_pending_acks[h], n)[i] = m_pending_acks[h][n + i]
      BY ONLY <2>3, n \in 0 .. Len(m_pending_acks[h]), PoppedProperties, Zenon
    <2> QED BY ONLY <2>2, <2>4
  <1>6. /\ \A a \in AckedIn(new) : \E i \in 1 .. n : a = m_pending_acks[h][i]
        /\ \A i \in 1 .. n : m_pending_acks[h][i] \in AckedIn(new)
    BY NewHeaderAcks
  <1>7. n \in 0 .. p
    OBVIOUS
  <1> HIDE DEF new, s, p
  <1>8. ASSUME NEW g \in Host, NEW id, Acknowledged(g, id) PROVE Acknowledged(g, id)'
    <2>1. CASE g # h
      <3>1. sent'[g] = sent[g] /\ m_pending_acks'[g] = m_pending_acks[g]
        BY <2>1, <1>4, <1>5
      <3> QED BY ONLY <3>1, <1>8 DEF Acknowledged
    <2>2. CASE g = h
      <3>1. ASSUME NEW j \in 1 .. s, id \in AckedIn(sent[h][j]) PROVE Acknowledged(g, id)'
        <4>1. j \in 1 .. Len(sent'[h]) /\ sent'[h][j] = sent[h][j]
          BY <1>4
        <4>2. \E x \in 1 .. Len(sent'[g]) : id \in AckedIn(sent'[g][x])
          BY ONLY <4>1, <3>1, <2>2
        <4> QED BY ONLY <4>2 DEF Acknowledged, AckedIn
      <3>2. ASSUME NEW i \in 1 .. p, m_pending_acks[h][i] = id PROVE Acknowledged(g, id)'
        <4>1. CASE i \in 1 .. n
          <5>1. id \in AckedIn(sent'[h][s + 1]) /\ s + 1 \in 1 .. Len(sent'[h])
            BY <4>1, <3>2, <1>4, <1>6
          <5>2. \E x \in 1 .. Len(sent'[g]) : id \in AckedIn(sent'[g][x])
            BY ONLY <5>1, <2>2
          <5> QED BY ONLY <5>2 DEF Acknowledged, AckedIn
        <4>2. CASE ~(i \in 1 .. n)
          <5> DEFINE y == i - n
          <5>1. y \in 1 .. p - n /\ n + y = i
            BY ONLY <4>2, <1>7, <1>4, i \in 1 .. p
          <5> HIDE DEF y
          <5>2. m_pending_acks'[h][y] = id /\ y \in 1 .. Len(m_pending_acks'[h])
            BY ONLY <5>1, <3>2, <1>5
          <5>3. \E x \in 1 .. Len(m_pending_acks'[g]) : m_pending_acks'[g][x] = id
            BY ONLY <5>2, <2>2
          <5> QED BY ONLY <5>3 DEF Acknowledged
        <4> QED BY <4>1, <4>2
      <3> QED BY <3>1, <3>2, <2>2, <1>8 DEF Acknowledged, s, p
    <2> QED BY <2>1, <2>2
  <1>9. AllAcknowledged'
    <2> SUFFICES ASSUME NEW g \in Host, NEW i \in 1 .. Len(accepted[g])
        PROVE Acknowledged(g, accepted[g][i] - 1)'
      BY <1>2 DEF AllAcknowledged, Acknowledged
    <2> DEFINE id == accepted[g][i] - 1
    <2>1. Acknowledged(g, id) /\ id' = id
      BY <1>2 DEF AllAcknowledged
    <2>2. \A x : Acknowledged(g, x) => Acknowledged(g, x)'
      BY <1>8
    <2> QED BY <2>1, <2>2, <1>2 DEF Acknowledged
  <1>10. ASSUME NEW i \in 1 .. p - n
         PROVE  /\ n + i \in 1 .. p
                /\ \A a \in AckedIn(new) : a < m_pending_acks[h][n + i]
                /\ \A j \in 1 .. s : \A a \in AckedIn(sent[h][j]) : a < m_pending_acks[h][n + i]
    <2>1. n + i \in 1 .. p
      BY ONLY <1>4, <1>7, i \in 1 .. p - n
    <2>2. ASSUME NEW a \in AckedIn(new) PROVE a < m_pending_acks[h][n + i]
      <3>1. PICK y \in 1 .. n : a = m_pending_acks[h][y]
        BY <1>6
      <3>2. y \in 1 .. p /\ y < n + i
        BY ONLY <1>4, <1>7, i \in 1 .. p - n, y \in 1 .. n
      <3> QED BY <3>1, <3>2, <2>1 DEF LinkInv, PendingInOrder, p
    <2>3. \A j \in 1 .. s : \A a \in AckedIn(sent[h][j]) : a < m_pending_acks[h][n + i]
      BY <2>1 DEF AcksInOrder, s, p
    <2> QED BY <2>1, <2>2, <2>3
  <1>11. ASSUME NEW j \in 1 .. s, NEW a \in AckedIn(sent[h][j]), NEW b \in AckedIn(new)
         PROVE  a < b
    <2>1. PICK y \in 1 .. n : b = m_pending_acks[h][y]
      BY <1>6
    <2>2. y \in 1 .. p
      BY ONLY <1>4, <1>7, y \in 1 .. n
    <2> QED BY <2>1, <2>2 DEF AcksInOrder, s, p
  <1>12. ASSUME NEW g \in Host, NEW j \in 1 .. Len(sent'[g]), NEW k \in 1 .. Len(sent'[g]),
                j < k, NEW a \in AckedIn(sent'[g][j]), NEW b \in AckedIn(sent'[g][k])
         PROVE  a < b
    <2>1. CASE g # h
      BY <2>1, <1>4, <1>12 DEF AcksInOrder
    <2>2. CASE g = h /\ k \in 1 .. s
      <3>1. j \in 1 .. s
        BY ONLY <2>2, <1>12, <1>4
      <3>2. sent'[h][j] = sent[h][j] /\ sent'[h][k] = sent[h][k]
        BY ONLY <3>1, <2>2, <1>4
      <3> QED BY <3>1, <3>2, <2>2, <1>12 DEF AcksInOrder, s
    <2>3. CASE g = h /\ ~(k \in 1 .. s)
      <3>1. k = s + 1 /\ j \in 1 .. s
        BY ONLY <2>3, <1>12, <1>4
      <3> QED BY <3>1, <2>3, <1>4, <1>11
    <2> QED BY <2>1, <2>2, <2>3
  <1>13. ASSUME NEW g \in Host, NEW j \in 1 .. Len(sent'[g]), NEW a \in AckedIn(sent'[g][j]),
                NEW i \in 1 .. Len(m_pending_acks'[g])
         PROVE  a < m_pending_acks'[g][i]
    <2>1. CASE g # h
      BY <2>1, <1>4, <1>5 DEF AcksInOrder
    <2>2. CASE g = h
      <3>1. i \in 1 .. p - n /\ m_pending_acks'[g][i] = m_pending_acks[h][n + i]
        BY ONLY <2>2, <1>5, i \in 1 .. Len(m_pending_acks'[g])
      <3>2. CASE j \in 1 .. s
        <4>1. a \in AckedIn(sent[h][j])
          BY <3>2, <2>2, <1>4
        <4> QED BY <4>1, <3>1, <3>2, <1>10
      <3>3. CASE ~(j \in 1 .. s)
        <4>1. j = s + 1
          BY ONLY <3>3, <2>2, <1>4, j \in 1 .. Len(sent'[g])
        <4>2. a \in AckedIn(new)
          BY <4>1, <2>2, <1>4
        <4> QED BY <4>2, <3>1, <1>10
      <3> QED BY <3>2, <3>3
    <2> QED BY <2>1, <2>2
  <1>14. \A x : AckedIn(x)' = AckedIn(x)
    BY DEF AckedIn
  <1>15. AcksInOrder'
    BY <1>12, <1>13 DEF AcksInOrder, AckedIn
  <1> QED BY <1>9, <1>15

LEMMA AcksFrame ==
    ASSUME AllAcknowledged, AcksInOrder, UNCHANGED <<m_pending_acks, sent, accepted>>
    PROVE  AllAcknowledged' /\ AcksInOrder'
  <1>1. AllAcknowledged'
    BY DEF AllAcknowledged, Acknowledged, AckedIn
  <1>2. AcksInOrder'
    BY DEF AcksInOrder
  <1> QED BY <1>1, <1>2

LEMMA AcksReadStep ==
    ASSUME NoWrapAround, LinkInv, AllAcknowledged, AcksInOrder, NEW h \in Host,
           NEW k \in 1 .. Len(sent[Other(h)]), ReadPacket(h, k)
    PROVE  AllAcknowledged' /\ AcksInOrder'
  <1> DEFINE header == sent[Other(h)][k]
             p == Len(m_pending_acks[h])
             e == Len(accepted[h])
  <1>1. PICK n \in 0 .. Len(m_in_flight_packets[h]) : ProcessRead(h, header, n)
    BY DEF ReadPacket
  <1> TypeOK
    BY DEF LinkInv
  <1>2. sent' = sent
    BY DEF ReadPacket
  <1>3. header.id = k - 1 /\ k \in Nat \ {0} /\ header \in PacketHeader
    BY OtherHost, Lengths DEF LinkInv, PacketsNumbered
  <1>4. CASE ~Accepts(h, header)
    <2>1. accepted' = [accepted EXCEPT ![h] = @]
      BY <1>4 DEF ReadPacket
    <2>2. UNCHANGED <<accepted, m_pending_acks>>
      BY <2>1, <1>4, <1>1 DEF ProcessRead, ProcessPacketHeader, TypeOK
    <2> QED BY <2>2, <1>2, AcksFrame
  <1>5. CASE Accepts(h, header)
    <2>1. /\ accepted' = [accepted EXCEPT ![h] = Append(@, k)]
          /\ m_pending_acks' = [m_pending_acks EXCEPT ![h] = Append(@, header.id)]
      BY <1>1, <1>5 DEF ReadPacket, ProcessRead, ProcessPacketHeader
    <2>2. m_next_expected_packet_id[h] <= k - 1 /\ m_next_expected_packet_id[h] \in Nat
      BY <1>3, <1>5, IdIsNat DEF Accepts, TypeOK, PdmTypeOK
    <2>3. /\ accepted'[h] = Append(accepted[h], k)
          /\ m_pending_acks'[h] = Append(m_pending_acks[h], k - 1)
          /\ \A g \in Host : g # h => /\ accepted'[g] = accepted[g]
                                      /\ m_pending_acks'[g] = m_pending_acks[g]
          /\ k - 1 \in PacketId
      BY <2>1, <1>3 DEF TypeOK, PdmTypeOK, PacketHeader
    <2> HIDE DEF header
    <2>4. /\ Len(m_pending_acks'[h]) = p + 1 /\ m_pending_acks'[h][p + 1] = k - 1
          /\ \A i \in 1 .. p : m_pending_acks'[h][i] = m_pending_acks[h][i]
          /\ p \in Nat
      <3>1. m_pending_acks[h] \in Seq(PacketId)
        BY Lengths
      <3> QED BY ONLY <3>1, <2>3
    <2>5. /\ Len(accepted'[h]) = e + 1 /\ accepted'[h][e + 1] = k
          /\ \A i \in 1 .. e : accepted'[h][i] = accepted[h][i]
          /\ e \in Nat
      <3>1. accepted[h] \in Seq(Nat \ {0})
        BY Lengths
      <3> QED BY ONLY <3>1, <2>3, <1>3
    <2> HIDE DEF p, e
    <2>6. \A i \in 1 .. p : i \in 1 .. Len(m_pending_acks'[h])
      BY ONLY <2>4
    <2>7. p + 1 \in 1 .. Len(m_pending_acks'[h])
      BY ONLY <2>4
    <2>8. ASSUME NEW g \in Host, NEW id, Acknowledged(g, id) PROVE Acknowledged(g, id)'
      <3>1. CASE g # h
        <4>1. m_pending_acks'[g] = m_pending_acks[g]
          BY <3>1, <2>3
        <4> QED BY ONLY <4>1, <2>8, <1>2 DEF Acknowledged, AckedIn
      <3>2. CASE g = h
        BY ONLY <3>2, <2>8, <2>6, <2>4, <1>2 DEF Acknowledged, AckedIn, p
      <3> QED BY <3>1, <3>2
    <2>9. Acknowledged(h, k - 1)'
      BY <2>4, <2>7 DEF Acknowledged
    <2>10. AllAcknowledged'
      <3>1. ASSUME NEW g \in Host, NEW i \in 1 .. Len(accepted'[g])
            PROVE  Acknowledged(g, accepted[g][i] - 1)'
        <4>1. CASE g # h
          <5> DEFINE id == accepted[g][i] - 1
          <5>1. accepted'[g] = accepted[g] /\ Acknowledged(g, id)
            BY <4>1, <2>3 DEF AllAcknowledged
          <5>2. \A x : Acknowledged(g, x) => Acknowledged(g, x)'
            BY <2>8
          <5> QED BY <5>1, <5>2 DEF Acknowledged
        <4>2. CASE g = h /\ i \in 1 .. e
          <5> DEFINE id == accepted[h][i] - 1
          <5>1. accepted'[h][i] = accepted[h][i] /\ Acknowledged(h, id)
            BY <4>2, <2>5 DEF AllAcknowledged, e
          <5>2. \A x : Acknowledged(h, x) => Acknowledged(h, x)'
            BY <2>8
          <5> QED BY <5>1, <5>2, <4>2 DEF Acknowledged
        <4>3. CASE g = h /\ ~(i \in 1 .. e)
          <5>1. i = e + 1
            BY ONLY <4>3, <2>5, i \in 1 .. Len(accepted'[g])
          <5> QED BY <5>1, <4>3, <2>5, <2>9 DEF Acknowledged
        <4> QED BY <4>1, <4>2, <4>3
      <3> QED BY <3>1 DEF AllAcknowledged
    <2>11. ASSUME NEW g \in Host, NEW j \in 1 .. Len(sent[g]), NEW a \in AckedIn(sent[g][j]),
                  NEW i \in 1 .. Len(m_pending_acks'[g])
           PROVE  a < m_pending_acks'[g][i]
      <3>1. CASE g # h
        BY <3>1, <2>3 DEF AcksInOrder
      <3>2. CASE g = h /\ i \in 1 .. p
        BY <3>2, <2>4 DEF AcksInOrder, p
      <3>3. CASE g = h /\ ~(i \in 1 .. p)
        <4>1. i = p + 1
          BY ONLY <3>3, <2>4, i \in 1 .. Len(m_pending_acks'[g])
        <4>2. a \in Nat /\ a < m_next_expected_packet_id[h]
          BY <3>3, AckedInIsAccepted
        <4> QED BY ONLY <4>1, <4>2, <3>3, <2>2, <2>4, <1>3
      <3> QED BY <3>1, <3>2, <3>3
    <2>12. \A g \in Host : \A i, j \in 1 .. Len(sent[g]) : i < j =>
             \A a \in AckedIn(sent[g][i]), b \in AckedIn(sent[g][j]) : a < b
      BY ONLY AcksInOrder DEF AcksInOrder
    <2>13. AcksInOrder'
      BY ONLY <2>11, <2>12, <1>2 DEF AcksInOrder
    <2> QED BY <2>10, <2>13
  <1> QED BY <1>4, <1>5

LEMMA AcksInvStep ==
    NoWrapAround /\ LinkInv /\ AllAcknowledged /\ AcksInOrder /\ [Next]_vars
        => AllAcknowledged' /\ AcksInOrder'
  <1> SUFFICES ASSUME NoWrapAround, LinkInv, AllAcknowledged, AcksInOrder, [Next]_vars
      PROVE AllAcknowledged' /\ AcksInOrder'
    OBVIOUS
  <1>1. CASE Elapse \/ UNCHANGED vars \/ \E h \in Host : DropOld(h)
    <2>1. UNCHANGED <<m_pending_acks, sent, accepted>>
      BY <1>1 DEF Elapse, DropOld, DropOldPackets, vars, pdmVars
    <2> QED BY <2>1, AcksFrame
  <1>2. ASSUME NEW h \in Host, WritePacket(h) PROVE AllAcknowledged' /\ AcksInOrder'
    BY <1>2, AcksWriteStep
  <1>3. ASSUME NEW h \in Host, NEW k \in 1 .. Len(sent[Other(h)]), ReadPacket(h, k)
        PROVE  AllAcknowledged' /\ AcksInOrder'
    BY <1>3, AcksReadStep
  <1> QED BY <1>1, <1>2, <1>3 DEF Next

LEMMA AcksInvImplies == LinkInv /\ AllAcknowledged /\ AcksInOrder => AcksAccounted
  <1> SUFFICES ASSUME LinkInv, AllAcknowledged, AcksInOrder, NEW h \in Host
      PROVE /\ {k - 1 : k \in ToSet(accepted[h])} =
                 (UNION {AckedIn(sent[h][j]) : j \in 1 .. Len(sent[h])})
                   \cup ToSet(m_pending_acks[h])
            /\ \A j, k \in 1 .. Len(sent[h]) : j < k =>
                 \A a \in AckedIn(sent[h][j]), b \in AckedIn(sent[h][k]) : a < b
            /\ \A j \in 1 .. Len(sent[h]) :
                 \A a \in AckedIn(sent[h][j]), b \in ToSet(m_pending_acks[h]) : a < b
    BY DEF AcksAccounted
  <1> DEFINE headers == UNION {AckedIn(sent[h][j]) : j \in 1 .. Len(sent[h])}
             pending == ToSet(m_pending_acks[h])
             past == {k - 1 : k \in ToSet(accepted[h])}
  <1> TypeOK
    BY DEF LinkInv
  <1>1. /\ accepted[h] \in Seq(Nat \ {0}) /\ m_pending_acks[h] \in Seq(PacketId)
        /\ DOMAIN accepted[h] = 1 .. Len(accepted[h])
        /\ DOMAIN m_pending_acks[h] = 1 .. Len(m_pending_acks[h])
    BY Lengths
  <1>2. \A b : b \in pending <=> \E i \in 1 .. Len(m_pending_acks[h]) : m_pending_acks[h][i] = b
    BY <1>1 DEF ToSet
  <1>3. \A x : x \in past <=> \E i \in 1 .. Len(accepted[h]) : x = accepted[h][i] - 1
    BY <1>1 DEF ToSet
  <1>4. \A x : x \in headers <=> \E j \in 1 .. Len(sent[h]) : x \in AckedIn(sent[h][j])
    OBVIOUS
  <1> HIDE DEF headers, pending, past
  <1>5. ASSUME NEW x \in past PROVE x \in headers \cup pending
    <2>1. PICK i \in 1 .. Len(accepted[h]) : x = accepted[h][i] - 1
      BY <1>3
    <2> QED BY <2>1, <1>2, <1>4 DEF AllAcknowledged, Acknowledged
  <1>6. ASSUME NEW x, x \in Nat, WasAccepted(h, x) PROVE x \in past
    <2>1. PICK i \in 1 .. Len(accepted[h]) : accepted[h][i] = x + 1
      BY <1>6 DEF WasAccepted
    <2>2. (x + 1) - 1 = x
      BY <1>6
    <2> QED BY <2>1, <2>2, <1>3
  <1>7. ASSUME NEW x \in headers PROVE x \in past
    <2>1. PICK j \in 1 .. Len(sent[h]) : x \in AckedIn(sent[h][j])
      BY <1>4
    <2> QED BY <2>1, <1>6, AckedInIsAccepted
  <1>8. ASSUME NEW x \in pending PROVE x \in past
    <2>1. PICK i \in 1 .. Len(m_pending_acks[h]) : m_pending_acks[h][i] = x
      BY <1>2
    <2>2. x \in Nat
      BY <2>1, <1>1, IdIsNat
    <2> QED BY <2>1, <2>2, <1>6 DEF LinkInv, PendingWereAccepted
  <1>9. past = headers \cup pending
    BY <1>5, <1>7, <1>8
  <1>10. \A j \in 1 .. Len(sent[h]) : \A a \in AckedIn(sent[h][j]), b \in pending : a < b
    BY <1>2 DEF AcksInOrder
  <1>11. \A j, k \in 1 .. Len(sent[h]) : j < k =>
           \A a \in AckedIn(sent[h][j]), b \in AckedIn(sent[h][k]) : a < b
    BY ONLY AcksInOrder, h \in Host DEF AcksInOrder
  <1> QED BY ONLY <1>9, <1>10, <1>11 DEF headers, pending, past

\* Until the ids wrap around, write acknowledges every accepted packet exactly
\* once: no ack is lost between a full mask and the next header, none is written
\* twice, and later headers acknowledge later packets.
THEOREM AcksAreAccountedFor ==
    ASSUME NoWrapAround PROVE Spec => []AcksAccounted
  <1>1. NoWrapAround
    OBVIOUS
  <1>2. Init => AllAcknowledged /\ AcksInOrder
    BY DEF Init, PdmInit, AllAcknowledged, AcksInOrder
  <1> QED BY <1>1, <1>2, LinkInvAlways, AcksInvStep, AcksInvImplies, PTL DEF Spec

\* Until the ids wrap around, a packet that an ack resolves is behind the packet
\* the other host expects next: process_acks never drops what may still arrive.
THEOREM AckFatesAreFinal ==
    ASSUME NoWrapAround PROVE Spec => []AckFateIsFinal
  BY LinkInvAlways, LinkInvImplies, PTL

=============================================================================
