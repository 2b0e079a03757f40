----------------------------- MODULE FakeNetwork -----------------------------
(***************************************************************************)
(* The in-memory network of the tests (network/fake_network.h) under        *)
(* UdpSocket (network/udp_socket.h).  It stands in for UDP wherever Neptun  *)
(* is tested, so what it promises is what the tests can rely on.            *)
(*                                                                          *)
(* A payload is the sequence of the pairs <<number of the send, position>>, *)
(* so that it shows which packet it is from and what was cut off.           *)
(***************************************************************************)
EXTENDS Integers, Sequences, FiniteSets

CONSTANTS
    Ips,            \* addresses
    m_mtu,          \* bytes of a payload that the network carries
    Sizes,          \* sizes of payloads and of the buffers of readers
    MaxSockets,     \* bound: sockets that are opened
    MaxSends        \* bound: packets that are sent

ASSUME FakeNetworkConstants ==
    /\ m_mtu \in Nat
    /\ Sizes \subseteq Nat
    /\ {MaxSockets, MaxSends} \subseteq Nat

VARIABLES
    m_next_fd,
    m_bind,                 \* the pairs <<address, file descriptor>>
    m_buffers,              \* packets waiting at an address
    m_should_drop_packets,
    m_stats,                \* of an address; one without an entry has all zeros
    sends,                  \* history: what was sent, by which socket, if dropped
    reads,                  \* history: what was read at an address
    cleared                 \* history: clear_stats was called

networkVars == <<m_next_fd, m_bind, m_buffers, m_should_drop_packets, m_stats>>
vars == <<networkVars, sends, reads, cleared>>

NoStats == [num_sent_packets |-> 0, num_read_packets |-> 0,
            num_sent_bytes |-> 0, num_read_bytes |-> 0]

Init ==
    /\ m_next_fd = 0
    /\ m_bind = {}
    /\ m_buffers = [ip \in Ips |-> << >>]
    /\ m_should_drop_packets = FALSE
    /\ m_stats = [ip \in Ips |-> NoStats]
    /\ sends = << >>
    /\ reads = [ip \in Ips |-> << >>]
    /\ cleared = FALSE

IsSocketOpen(fd) == fd < m_next_fd

\* Mutant: only the socket is looked for, an address may be bound twice.
IsTaken_SocketOnly(fd, ip) == \E bound \in m_bind : bound[2] = fd

\* IpAddressOrSocketPredicate holds of some pair.
IsTaken(fd, ip) == \E bound \in m_bind : bound[1] = ip \/ bound[2] = fd

IsSocketBound(fd) == \E bound \in m_bind : bound[2] = fd
FindIp(fd) == (CHOOSE bound \in m_bind : bound[2] = fd)[1]

-----------------------------------------------------------------------------
\* UdpSocket::bind opens a socket and binds it; if that throws, the socket stays
\* open and is never bound.  Fake sockets never block.
UdpSocketBind(ip) ==
    LET fd == m_next_fd IN
    /\ m_next_fd < MaxSockets
    /\ m_next_fd' = m_next_fd + 1
    /\ m_bind' = IF IsTaken(fd, ip) THEN m_bind ELSE m_bind \cup {<<ip, fd>>}
    /\ UNCHANGED <<m_buffers, m_should_drop_packets, m_stats, sends, reads, cleared>>

\* bind, of any socket; binding one that is not open, or bound, throws.
Bind(fd, ip) ==
    /\ IsSocketOpen(fd)
    /\ ~IsTaken(fd, ip)
    /\ m_bind' = m_bind \cup {<<ip, fd>>}
    /\ UNCHANGED <<m_next_fd, m_buffers, m_should_drop_packets, m_stats, sends, reads, cleared>>

\* Mutant: what does not fit is kept.
Cut_Nothing(payload, count) == payload

\* The first count bytes of a payload, or all if it has no more.
Cut(payload, count) == SubSeq(payload, 1, IF Len(payload) < count THEN Len(payload) ELSE count)

\* Mutant: a packet that is dropped is not counted.
SentStats_IfKept(stats, size) ==
    IF m_should_drop_packets THEN stats
    ELSE [stats EXCEPT !.num_sent_packets = @ + 1, !.num_sent_bytes = @ + size]

\* Mutant: only the bytes that the network carries are counted.
SentStats_AtMtu(stats, size) ==
    [stats EXCEPT !.num_sent_packets = @ + 1,
                  !.num_sent_bytes = @ + IF size > m_mtu THEN m_mtu ELSE size]

\* A packet counts as sent even if the network drops it.
SentStats(stats, size) ==
    [stats EXCEPT !.num_sent_packets = @ + 1, !.num_sent_bytes = @ + size]

ReadStats(stats, size) ==
    [stats EXCEPT !.num_read_packets = @ + 1, !.num_read_bytes = @ + size]

\* Mutant: the packet goes in front of those that wait.
Pushed_Front(buffer, packet) == <<packet>> \o buffer

Pushed(buffer, packet) == Append(buffer, packet)

\* send_to; it throws if the socket is not bound.  Nobody has to be bound to the
\* address that the packet goes to.
SendTo(fd, ip, size) ==
    LET payload == [i \in 1 .. size |-> <<Len(sends) + 1, i>>] IN
    /\ Len(sends) < MaxSends
    /\ IsSocketBound(fd)
    /\ m_stats' = [m_stats EXCEPT ![FindIp(fd)] = SentStats(@, size)]
    /\ m_buffers' =
         IF m_should_drop_packets THEN m_buffers
         ELSE [m_buffers EXCEPT
                 ![ip] = Pushed(@, [sender |-> FindIp(fd), payload |-> Cut(payload, m_mtu)])]
    /\ sends' = Append(sends, [fd |-> fd, to |-> ip, payload |-> payload,
                               dropped |-> m_should_drop_packets])
    /\ UNCHANGED <<m_next_fd, m_bind, m_should_drop_packets, reads, cleared>>

\* read_from_socket with a buffer of room bytes; it throws if the socket is not
\* bound, and returns nothing if no packet waits.
ReadFromSocket(fd, room) ==
    LET ip == FindIp(fd)
        packet == Head(m_buffers[ip])
    IN
    /\ IsSocketBound(fd)
    /\ m_buffers[ip] # << >>
    /\ m_buffers' = [m_buffers EXCEPT ![ip] = Tail(@)]
    /\ m_stats' = [m_stats EXCEPT ![ip] = ReadStats(@, Len(packet.payload))]
    /\ reads' = [reads EXCEPT
         ![ip] = Append(@, [sender |-> packet.sender, payload |-> Cut(packet.payload, room),
                            room |-> room])]
    /\ UNCHANGED <<m_next_fd, m_bind, m_should_drop_packets, sends, cleared>>

DropPackets(should_drop_packets) ==
    /\ m_should_drop_packets' = should_drop_packets
    /\ UNCHANGED <<m_next_fd, m_bind, m_buffers, m_stats, sends, reads, cleared>>

ClearStats ==
    /\ m_stats' = [ip \in Ips |-> NoStats]
    /\ cleared' = TRUE
    /\ UNCHANGED <<m_next_fd, m_bind, m_buffers, m_should_drop_packets, sends, reads>>

Next ==
    \/ \E ip \in Ips : UdpSocketBind(ip)
    \/ \E fd \in 0 .. MaxSockets - 1, ip \in Ips :
         \/ Bind(fd, ip)
         \/ \E size \in Sizes : SendTo(fd, ip, size)
    \/ \E fd \in 0 .. MaxSockets - 1, room \in Sizes : ReadFromSocket(fd, room)
    \/ \E should_drop_packets \in BOOLEAN : DropPackets(should_drop_packets)
    \/ ClearStats

Spec == Init /\ [][Next]_vars
-----------------------------------------------------------------------------
Fd == 0 .. MaxSockets - 1
Payload == Seq((1 .. MaxSends) \X Nat)

\* Every member has its type, and what waits was cut to the MTU.
TypeOK ==
    /\ m_next_fd \in 0 .. MaxSockets
    /\ m_bind \subseteq Ips \X Fd
    /\ m_buffers \in [Ips -> Seq([sender : Ips, payload : Payload])]
    /\ \A ip \in Ips : \A i \in 1 .. Len(m_buffers[ip]) : Len(m_buffers[ip][i].payload) <= m_mtu
    /\ m_should_drop_packets \in BOOLEAN
    /\ m_stats \in [Ips -> [DOMAIN NoStats -> Nat]]
    /\ sends \in Seq([fd : Fd, to : Ips, payload : Payload, dropped : BOOLEAN])
    /\ reads \in [Ips -> Seq([sender : Ips, payload : Payload, room : Sizes])]
    /\ cleared \in BOOLEAN

\* What an address is to get: the packets sent to it while none were dropped.
Due(ip) == {n \in 1 .. Len(sends) : sends[n].to = ip /\ ~sends[n].dropped}

\* The numbers of the packets that were read at an address, and of those that wait
\* behind them, if they are all that are due there, in the order they were sent.
Numberings(ip) ==
    {number \in [1 .. Len(reads[ip]) + Len(m_buffers[ip]) -> Due(ip)] :
        /\ \A i, j \in DOMAIN number : i < j => number[i] < number[j]
        /\ \A n \in Due(ip) : \E i \in DOMAIN number : number[i] = n}

\* The network loses a packet only if it was told to drop, keeps the order of the
\* packets for an address, delivers each once, and cuts it only at the MTU and at
\* the reader's buffer: what was read and what waits is what was sent.
DeliversAllInOrder ==
    \A ip \in Ips : \E number \in Numberings(ip) :
        /\ \A i \in 1 .. Len(reads[ip]) :
             reads[ip][i].payload =
                Cut(Cut(sends[number[i]].payload, m_mtu), reads[ip][i].room)
        /\ \A i \in 1 .. Len(m_buffers[ip]) :
             m_buffers[ip][i].payload =
                Cut(sends[number[Len(reads[ip]) + i]].payload, m_mtu)

\* The sender that a reader is told is the address of the socket that sent the
\* packet, and no other socket reads what is sent to that address: an answer
\* reaches the one who asked, however many sockets were opened and failed to bind.
AnswerReachesSender ==
    \A ip \in Ips : \E number \in Numberings(ip) :
        \A i \in 1 .. Len(reads[ip]) : \A fd \in Fd :
            <<reads[ip][i].sender, fd>> \in m_bind <=> fd = sends[number[i]].fd

\* What was sent from an address: by the socket that is bound to it.
SentFrom(ip) == {n \in 1 .. Len(sends) : <<ip, sends[n].fd>> \in m_bind}

\* The counters that the tests read balance at every address until they are cleared:
\* all that was sent from it counts as sent, whether or not it was dropped, and all
\* that was sent to it and not dropped counts as read or waits.
StatsBalance ==
    ~cleared => \A ip \in Ips :
        /\ m_stats[ip].num_sent_packets = Cardinality(SentFrom(ip))
        /\ m_stats[ip].num_read_packets + Len(m_buffers[ip]) = Cardinality(Due(ip))

Total(sizes) ==
    LET total[i \in 0 .. Len(sizes)] == IF i = 0 THEN 0 ELSE total[i - 1] + sizes[i]
    IN  total[Len(sizes)]

\* So do the counters of bytes, which are taken at different places: a packet counts
\* as sent with its whole payload, and as read with what the MTU has left of it,
\* however small the reader's buffer is.
BytesBalance ==
    ~cleared => \A ip \in Ips :
        /\ m_stats[ip].num_sent_bytes =
             Total([n \in 1 .. Len(sends) |->
                      IF n \in SentFrom(ip) THEN Len(sends[n].payload) ELSE 0])
        /\ m_stats[ip].num_read_bytes
             + Total([i \in 1 .. Len(m_buffers[ip]) |-> Len(m_buffers[ip][i].payload)]) =
                 Total([n \in 1 .. Len(sends) |->
                          IF n \in Due(ip) THEN Len(Cut(sends[n].payload, m_mtu)) ELSE 0])
=============================================================================
