------------------------------ MODULE SendRate ------------------------------
(***************************************************************************)
(* How often a Neptun host writes to a peer (neptun/neptun.h): the limits   *)
(* of both hosts give the interval of send_packet_ticker, which is set      *)
(* again with every packet that is read, and write asks the ticker.         *)
(*                                                                          *)
(* Of the handshake only its outcome is kept: whether the peer's LetsConnect*)
(* was read (is_peer_connected) and whether its own was acknowledged.  The  *)
(* clock is the system clock, which may also be set back.                   *)
(***************************************************************************)
EXTENDS Ticker, Sequences

CONSTANTS
    Second,         \* units of time in a second: 10^9 in the code
    Rates,          \* the packet rates that a host may be configured with
    Jumps,          \* how far the clock may move between two ticks
    MaxTime         \* bound: the clock stays in 0 .. MaxTime

\* A rate is a u8 and a second has 10^9 units, so that the interval is never zero.
ASSUME SendRateConstants ==
    /\ Second \in Nat \ {0}
    /\ Rates \subseteq 0 .. Second
    /\ Jumps \subseteq Int
    /\ MaxTime \in Nat

VARIABLES
    self_max_send_packet_rate,      \* m_connection_manager_config.limit
    peer_max_read_packet_rate,      \* the configuration of the peer
    is_peer_connected,
    m_self_is_connected,
    send_packet_ticker,
    now,            \* the clock
    stage,          \* what tick does next: "read" or "write"
    sends,          \* when a fully connected host that has a limit wrote packets
    held            \* the last tick of a fully connected host wrote nothing

vars == <<self_max_send_packet_rate, peer_max_read_packet_rate, is_peer_connected,
          m_self_is_connected, send_packet_ticker, now, stage, sends, held>>

\* The rates that limit what this host sends.
Limits == {self_max_send_packet_rate, peer_max_read_packet_rate} \ {0}

is_fully_connected == is_peer_connected /\ m_self_is_connected

Init ==
    /\ self_max_send_packet_rate \in Rates
    /\ peer_max_read_packet_rate \in Rates
    /\ is_peer_connected = FALSE
    /\ m_self_is_connected = FALSE
    /\ now = 0
    /\ send_packet_ticker = NewTicker(now, NoInterval)
    /\ stage = "read"
    /\ sends = << >>
    /\ held = FALSE

\* Mutant: no limit is taken for an interval of zero.
IntervalOf_ZeroIsInterval(rate) == IF rate = 0 THEN 0 ELSE Second \div rate

\* Peer::update_send_rate.  The division of the code truncates too: at 120 packets
\* a second the interval is a third of a nanosecond too short.
IntervalOf(rate) == IF rate = 0 THEN NoInterval ELSE Second \div rate

\* A rate of 0 means no limit.
AgreedRate(self, peer) ==
    IF peer = 0 THEN self
    ELSE IF self = 0 THEN peer
    ELSE IF peer < self THEN peer ELSE self

\* Neptun::read of a packet that is accepted: its acks may tell of our LetsConnect
\* and it may carry one of the peer.
Read(acks_ours, carries) ==
    /\ stage = "read"
    /\ m_self_is_connected' = (m_self_is_connected \/ acks_ours)
    /\ is_peer_connected' = (is_peer_connected \/ carries)
    /\ send_packet_ticker' =
         IF is_peer_connected'
         THEN WithInterval(send_packet_ticker,
                IntervalOf(AgreedRate(self_max_send_packet_rate, peer_max_read_packet_rate)))
         ELSE send_packet_ticker
    /\ stage' = "write"
    /\ UNCHANGED <<self_max_send_packet_rate, peer_max_read_packet_rate, now, sends, held>>

\* There is no packet, or it is refused as old before the rate is set.
ReadNothing ==
    /\ stage = "read"
    /\ stage' = "write"
    /\ UNCHANGED <<self_max_send_packet_rate, peer_max_read_packet_rate, is_peer_connected,
                   m_self_is_connected, send_packet_ticker, now, sends, held>>

\* The ticker says so, or the handshake is not over.
MayWrite == Ticks(send_packet_ticker, now) \/ ~is_fully_connected

\* Neptun::write for this peer; the next tick comes at another time.
Write(jump) ==
    /\ stage = "write"
    /\ ~TickFaults(send_packet_ticker, now)
    /\ send_packet_ticker' = Ticked(send_packet_ticker, now)
    /\ sends' = IF MayWrite /\ is_fully_connected /\ Limits # {}
                THEN Append(sends, now) ELSE sends
    /\ held' = ~MayWrite
    /\ now + jump \in 0 .. MaxTime
    /\ now' = now + jump
    /\ stage' = "read"
    /\ UNCHANGED <<self_max_send_packet_rate, peer_max_read_packet_rate, is_peer_connected,
                   m_self_is_connected>>

Next ==
    \/ \E acks_ours, carries \in BOOLEAN : Read(acks_ours, carries)
    \/ ReadNothing
    \/ \E jump \in Jumps : Write(jump)

Spec == Init /\ [][Next]_vars
-----------------------------------------------------------------------------
\* Every member has its type.  An interval is not zero: tick would divide by it
\* (ticker.h:30).
TypeOK ==
    /\ {self_max_send_packet_rate, peer_max_read_packet_rate} \subseteq Rates
    /\ {is_peer_connected, m_self_is_connected, held} \subseteq BOOLEAN
    /\ send_packet_ticker \in [m_last_known_now : 0 .. MaxTime,
                               m_tick_interval : {NoInterval} \cup 1 .. Second,
                               m_time_since_last_tick : Int]
    /\ now \in 0 .. MaxTime
    /\ stage \in {"read", "write"}
    /\ sends \in Seq(0 .. MaxTime)

\* connection_manager.h:60: a fully connected host respects the limits of both
\* sides.  Between any two of its packets, with k others between them, more than
\* k times the interval of each limit, in whole units of the clock, has passed on
\* its clock, however unevenly tick is called and even if the clock is set back.
RatesRespected ==
    \A i, j \in 1 .. Len(sends) : i < j =>
        \A rate \in Limits : (j - i - 1) * (Second \div rate) < sends[j] - sends[i]

\* The host is not held back longer than the limits ask for: a tick that writes
\* nothing comes less than an interval after the last packet.  It would fail if
\* the packets that keep being read, each of which sets the interval again,
\* made the ticker start anew.
NotHeldBack ==
    held /\ sends # << >> =>
        \E rate \in Limits :
            send_packet_ticker.m_last_known_now - sends[Len(sends)] < Second \div rate

\* If no two ticks are further apart than the interval, the host sends as often as
\* the limits allow: what remains of the elapsed time after a tick is carried
\* over and the packets do not drift.
KeepsPace ==
    (\A jump \in Jumps, rate \in Limits : jump <= Second \div rate) =>
        \A i, j \in 1 .. Len(sends) : i < j =>
            \E rate \in Limits : sends[j] - sends[i] < (j - i + 1) * (Second \div rate)
=============================================================================
