# Neptun: a TLA+ model

Neptun is a small C++ library for real-time traffic over UDP: one `tick` per
frame reads at most one packet and writes at most one packet per peer.  This
directory models its protocol code, the network double of its tests and the
viewer of captured traffic, checks them with TLC on small instances and proves
with TLAPS the safety of packet delivery, of both streams, alone and driven by
`tick`, of the send rate and of the network double.

## The system

| Component | State | Operations | Talks to |
|---|---|---|---|
| `PacketDeliveryManager` | next outgoing and expected id, queue of pending acks, queue of in-flight packets | `write`, `process_read`, `drop_old_packets` | its peer through the packet header; reports delivery statuses to `Neptun` |
| `FlipBuffer` | bytes, begin, end | `remaining`, `advance`, `consume`, `flip` | used by both streams |
| `ReliableStream` | flip buffer, messages in flight and pending, two sequence numbers | `send`, `write`, `read`, `on_packet_delivery_status` | the segment of a packet, the delivery statuses |
| `UnreliableStream` | flip buffer, spans of pending messages | `send`, `write`, `read` | the segment of a packet |
| `ConnectionManager` | queue of LetsConnect packets in flight, number to send, peer's limit, flags | `connect`, `read`, `write`, `on_packet_status_delivery` | the segment of a packet, the delivery statuses |
| `Neptun` | the peers, the socket, one network buffer | `connect`, `send_reliable_to`, `send_unreliable_to`, `tick` | all of the above |
| `Ticker` | last time, interval, time since the last tick | `tick`, `set_tick_interval`, `clear_tick_interval` | decides whether `Neptun::write` sends; `Neptun::read` sets the interval from the limits of both hosts |
| `IoBuffer` and `neptun/messages` | none: they read and write bytes of the host's one network buffer | `write_*`, `read_*`, `validate_size` | every manager, and the formatter |
| `OsNetwork`, `UdpSocket` | a file descriptor | `bind`, `read`, `send_to` | throw into `Neptun::tick` when a system call fails |
| `FakeNetwork` | next descriptor, bound addresses, packets per address, counters | `bind`, `send_to`, `read_from_socket`, `drop_packets`, `clear_stats` | stands for UDP in the tests |
| pcap viewer, `format_neptun_payload` | position in the file, record buffer, count | `process_pcap_file`, `process_record` | the second reader of the packet format |

Within a host everything is sequential; two hosts run concurrently and share
only the network.  What is hard: an ack travels in exactly one header, so one
lost packet makes several delivered packets look dropped; a packet can time out
and still arrive; acks and statuses of a late packet are applied although its
contents are not; a flip moves bytes that queues refer to; the handshake has no
message of its own that could be repeated independently of acks; ids, sequence
numbers and counts have a fixed width; a socket call that fails leaves `tick`
half done; buffers are reused and keep the bytes of earlier packets; `tick` is
called at uneven times by a clock that may be set back.

What makes the parts correct:

* packet delivery: each packet gets one fate, in order; ACK is true; packets are
  accepted in order, once;
* reliable stream: messages arrive once, in order, unchanged, and are given up
  only after that; no two messages share bytes;
* unreliable stream: what arrives is whole, in order, once; the buffer is not
  used up;
* handshake: what a host believes is true, and the hosts do not end up waiting
  for each other;
* `Neptun`: every assertion of the parts holds when they are driven by `tick`;
* send rate: the limits of both hosts are respected, and no packet is held back
  longer than they ask for;
* packet format: what is written is what both readers read;
* network double: it loses and cuts only what it says it does.

## Modules

```
PacketDeliveryManager --> PacketLink --> MCPacketLink
        |                     |  \----> PacketLinkProofs
        |                     | implements
        |                     v
        |             DeliveryNotification --> ReliableLink   --> MCReliableLink, ReliableLinkProofs
        |                                 \--> UnreliableLink --> MCUnreliableLink, UnreliableLinkProofs
        |   FlipBuffer --> ReliableStream -----^      ^
        |           \----> UnreliableStream ----------/
        \--> Neptun <-- ConnectionManager, ReliableStream, UnreliableStream
                \--> MCNeptun, NeptunProofs --> NeptunDeliveryProofs

Ticker --> SendRate --> MCSendRate, SendRateProofs
IoBuffer --> WireFormat --> PcapViewer --> Wire --> MCWire
FakeNetwork --> MCFakeNetwork, FakeNetworkProofs
```

`ReliableLink` in turn implements `ReliableChannel`.  A `...Proofs` module extends
the module it is named after and holds its inductive invariant, the lemmas and the
theorems; `Induction` has the lemmas about numbers that several of them use.

A component module has the members of the class as variables, each a function of
the host that owns the object, and one operator per method.  The link modules and
`Neptun` turn the operators into actions and add the network, the clock and the
history that the properties speak of.  Names are those of the source.
Definitions with an underscore suffix and a comment `Mutant:` are faulty
variants of the definition below them; replacing the definition by its variant
must violate the property listed for it in `PROJECT.json`.

* **PacketDeliveryManager** (`neptun/packet_delivery_manager.h`).  Ids are
  numbers modulo `IdModulus`; the ack bitmask is the set of its 1 bits.  A loop
  that pops a queue is described by how many elements it pops.
* **PacketLink**.  Two managers; a packet once written can be read at any later
  time, any number of times, or never.
* **DeliveryNotification**.  The contract: fates once and in order, ACK only of
  accepted packets, accepting in increasing order.  A DROP promises nothing.
* **FlipBuffer**, **ReliableStream**, **ReliableLink**.  The byte of message m is
  m, so a payload shows whose bytes it holds.  The loops over the messages of an
  acknowledged packet and of a received segment are one step per message.
  `ReliableLink` assumes that each fate of the contract reaches the stream;
  `Neptun` shows when that is so and when not.
* **ReliableChannel**.  What the two streams together promise to the
  applications: delivery one by one and in order, room given back only after
  that, and both for every message in the end.
* **UnreliableStream**, **UnreliableLink**.  Spans are positions that do not move
  when the buffer flips.  The count of a segment is taken modulo `CountModulus`.
* **ConnectionManager** (`neptun/connection_manager.h`).  Of the limits only
  `max_read_packet_size` is kept, with the loss of its last byte; the byte that
  the reader sees instead is any of `StaleBytes`.  The pop from the empty queue
  (line 127) is undefined; the model keeps how far begin is behind end, lets the
  comparison with the arbitrary front go either way, loses the next push, and
  lets a match on an ACK loop for ever (`Hang`).  A Reject goes out under the id of
  LetsConnect and has 3 bytes (lines 203-205); the reader takes the bytes that
  follow for the limits and counts 9 (line 184).
* **Neptun** (`neptun/neptun.h`).  `tick` in steps: statuses of old packets one
  by one (connection manager, then reliable stream), one packet with its stages
  and early returns, one packet written.  While a host is in `tick` the other
  waits: they share only the network, which may delay a packet arbitrarily, so
  any interleaving has an equivalent one of this kind.  With `Unordered` the
  network keeps every packet and delivers any of them any number of times;
  otherwise it is a queue that loses packets.  `m_network_buffer` is the one buffer
  that a host reads packets into and writes them from: the model has the segments
  that begin at each place in it, each message with one byte.  Behind a Reject the
  streams start 6 bytes too late (`SegmentsRead`).  In a packet that is long enough
  this is the middle of a segment, where neither finds a type of its own; else
  `advance` (`types.h:39-41`) has wrapped, which is undefined for a span, and in a
  build without library assertions is a span that starts there and does not end
  with the packet, so that they read what the buffer holds of earlier packets,
  those that the host wrote included (`LeftOvers`).  With `RateLimited` a fully
  connected host may skip a write, which stands for the ticker.  Any `recvfrom`
  may fail (`ReadFails`: the exception ends `tick` before the write) and any
  `sendto` (`SendTo`: the packet counts as sent everywhere and never leaves); the
  application goes on with the next `tick`.
* **Ticker** (`common/ticker.h`), **SendRate**.  A ticker is a record of its
  members, `tick` the value it returns (`Ticks`) and the ticker after it
  (`Ticked`).  `SendRate` is one host: `Read` sets the interval from the agreed
  rate, `Write` asks the ticker, and the clock jumps, also backwards, between two
  ticks.  Of the handshake only its two outcomes are kept, each of which may come
  with any packet.  `sends` records when the host wrote while it was fully
  connected and limited.  The interval is a second divided by the rate and truncated
  (`neptun.h:44`), so that at 30, 60, 90 or 120 packets a second, the rates of the
  tests and the example, it is up to a nanosecond shorter than the exact one; the
  properties count in these intervals.
* **IoBuffer**, **WireFormat**.  Packets as bytes: the writers of all managers in
  the order of `write_to_peer`, `Neptun::read`, and the formatter.  A field that
  lies behind the payload is read from what the buffer holds there.
* **PcapViewer** (`neptun/pcap`), **Wire**.  `Wire` puts two hosts, each with its
  one network buffer, and a capture of their traffic together with the viewer.
  The frames that tcpdump captures (Ethernet, IPv4, UDP, other traffic) are
  external.  A frame that says IPv4 and holds another version ends the viewer with an
  exception (`Throws`).  Text is left out: a line is a record of what it shows.
* **FakeNetwork** (`network/fake_network.h`, `network/udp_socket.h`).  A payload
  names the send it is from and its bytes, so that cuts show.

## Runs

| Run | Result | Question |
|---|---|---|
| `packet_link` | passes | fates, acks, acceptance, the assertion of `write`, the refinement of `DeliveryNotification`, and that every packet gets a fate although the network may deliver nothing |
| `reliable_link` | passes | bytes, tiling of the buffer, order, assertions, no message given up early, also when sequence numbers wrap; the refinement of `ReliableChannel`, so that every message gets through if the losses end |
| `unreliable_link` | passes | spans, order, wholeness, and that an arriving packet is read completely when its count is not cut |
| `neptun` | passes | handshake with one initiator over a lossy queue and failing sockets: progress, truth, assertions |
| `neptun_unordered` | passes | order of both streams with reordering, duplicates, refused requests and a rate limit, until a Reject is written |
| `neptun_reject` | violated | order of the reliable stream with refused requests: a Reject makes its reader deliver its own message |
| `neptun_reorder_assert` | violated | the stream's assertions when packets are reordered |
| `neptun_both_connect` | violated | handshake progress when both hosts call `connect` |
| `neptun_early_message` | violated | reliable messages before the handshake is complete |
| `send_rate` | passes | the limits of both hosts, no drift, no packet held back too long, no interval of zero |
| `fake_network` | passes | order, cuts, senders and, at every address, counters of packets and bytes of the network double |
| `wire` | passes | both readers of the format find what was written; the viewer shows every packet once, under its number |

The violated runs are disagreements of the code with its own comments,
assertions or tests; `findings` in `PROJECT.json` quotes them.  Beyond those, the
comment at `connection_manager.h:77` says that handshake messages are ignored
once the handshake has happened, while `read` takes every LetsConnect of a peer
and schedules answers again; the passing `neptun` run depends on it, since this
is how a server repeats an answer that was lost.  Five more differences are in the
model and have no run of their own: a request that does not validate sets
`is_fail` and schedules nothing, although `connection_manager.h:55` promises a
RejectLetsConnect (a Reject is written only by a host that also has a LetsConnect
to send, and then not as one, `neptun_reject`); the unreliable messages that do not
fit in a packet are dropped (`unreliable_stream.h:84`) and their bytes never given
back, so that every overflow makes the buffer smaller for good (TLC refutes
`DroppedFreesBuffer` with `MCUnreliableLinkLeak.cfg`); the number of unreliable
messages in a packet is cut to a u8 (`unreliable_stream.h:68`), so that of 256
messages none is read; "Clear the
queue." (`connection_manager.h:123`) pops once more from the empty queue
(`CmAck` and `m_underflow`); and the fields of LetsConnect take 7 bytes where
`kSerializedSize` says 6 (`messages/lets_connect.h:16-20`), so that the last byte
of `max_read_packet_size` is not sent: 800 arrives as 768 plus a stale byte.
`ReadAsWritten` and `FormattedAsWritten` say exactly that all the rest of a packet
arrives.  Outside the library, the ticker of `example.cc:53` has an interval of
0, for which `tick` takes a remainder by zero (`TickFaults`).

### Bounds

* `packet_link`: 3 packets a side, a window of 2 bits, a timeout of 1 and a clock
  up to 2: enough for a gap inside the bitmask, for an ack that does not fit in
  it, for late packets and duplicates, for packets that time out after their ack
  was written, and for packets written after others timed out.  The proofs remove
  the bounds.
* `reliable_link`: a buffer of 2 bytes, 4 messages of 1 or 2 bytes, packets with
  room for up to two messages, sequence numbers modulo 3: the buffer fills up and
  flips with messages in flight, messages are repeated, and the numbers wrap.  The
  number of packets is bounded by what costs one: up to 2 are lost or given up
  (`MaxLost`) and up to 1 is sent with nothing pending (`MaxEmpty`); every other
  packet carries something new.  With a modulus of 2 the order is lost: the code
  is safe because 3200 bytes hold fewer than 2^32 messages.
* `unreliable_link`: 4 bytes, 5 messages, packets with room for none to three of
  the messages, message counts modulo 3, so that a count is cut and packets of two
  messages are read completely.
* `neptun`: 4 packets a side, one message a side, clock up to 1, timeout 1: the
  handshake, its repetition after a loss, and a message.  `neptun_unordered`: 3
  packets a side, 2 reliable and 2 unreliable messages of one side.  One host
  has a limit of 200, which `validate` refuses without its last byte if the stale
  byte read in place of it is below 100: of the two stale bytes one passes and one
  does not.  Behaviours are followed up to a Reject (`NoReject`): behind it neither
  property holds.  `neptun_reject`: the same limit with the stale bytes 0 and 0x20,
  the last byte of the other host's 800, without reordering, and with one reliable
  message.
* `send_rate`: a second of 13 units, rates of 0 (no limit), 2, 3 and 5, jumps of
  -2, 0, 1, 3 and 4 units up to time 16: intervals of 6, 4 and 2 units, all
  truncated, that are met exactly, passed by a part and passed by more than one
  interval.
* `fake_network`: 2 addresses, 3 sockets, so that two sockets want one address, 3
  packets of 1 and 3 bytes with an MTU of 2, so that packets are cut at the MTU,
  at the reader's buffer and not at all.
* `wire`: 2 captured frames from 18 packets, with and without LetsConnect and none
  to two messages of either stream, in both directions, and 5 other frames, one
  of which ends the viewer; the second packet is read into a buffer that holds the first.

Runs with `CHECK_DEADLOCK FALSE` stop when the bounds on packets, time and
messages are used up.

### Fairness

`packet_link`: time passes, and `drop_old_packets`, which every `tick` calls for
every peer, keeps being called.  Nothing is assumed of the network.

`reliable_link`: `tick` keeps writing what is pending, fates keep being reported
(`EveryFateReported` shows that they are), the stream's loops run to their end,
and the network, after `MaxLost` losses, delivers what is still sent.  The last
one is the code's own premise: a stream over a network that loses everything
cannot deliver.  The application need not send.

## Proofs

| Module | Theorems | Assumed beyond the types of the constants |
|---|---|---|
| `PacketLinkProofs` | `TypeCorrect` | |
| | `FatesComeOnceInOrder`, `AcksAreTrue`, `AcceptsInOrder`, `WriteAssertionHolds`, `AcksAreAccountedFor`, `AckFatesAreFinal`, `LinkImplementsContract` | `NoWrapAround` |
| `ReliableLinkProofs` | `TypeCorrect`, `StatusAssertions`, `MessagesTile`, `BytesStayIntact`, `DeliversInOrder`, `ConsumesOnlyDelivered`, `StreamsImplementChannel` | `NumbersOutlastBuffer` |
| `UnreliableLinkProofs` | `TypeCorrect`, `PendingIsIntact`, `ReceivesInOrder`, `PacketsAreDeliveredWhole` | |
| `SendRateProofs` | `TypeCorrect`, `RatesAreRespected`, `NothingHeldBack`, `PaceIsKept` | |
| `FakeNetworkProofs` | `TypeCorrect`, `NetworkDelivers`, `AnswersReachTheirSender`, `CountersBalance` | |
| `NeptunProofs` | `TypeCorrect` | |
| `NeptunDeliveryProofs` | `UnreliableMessagesInOrder` | `RequestsAreValid` |
| | `ReliableMessagesInOrder` | `RequestsAreValid`, `MaxReliable < SequenceModulus` |
| | `TickKeepsStatusAssertions` | `~Unordered` |
| | `ConnectedHostsAreKnown` | `RequestsAreValid` |
| | `HandshakeGoesOn` | `~Unordered`, `RequestsAreValid`, `Initiators # Host` |

Each holds for every value of the constants: any window, timeout, capacity,
message size, rate, clock, MTU, number of packets, of messages and of addresses.
The assumptions are these.

* `NoWrapAround`: fewer packets than ids.  It cannot be dropped: with `IdModulus`
  = 4 and `MaxPackets` = 5 TLC finds a state in which the pending acks do not
  ascend, and the assertion at `packet_delivery_manager.h:117` would fail.  With
  the 32 bits of the code that takes 2^32 packets.
* `NumbersOutlastBuffer`: the buffer holds fewer messages than there are sequence
  numbers.  The code has 3200 bytes and 2^32 numbers.  The numbers may wrap any
  number of times.
* `MaxReliable < SequenceModulus`, in `Neptun` only: no more reliable messages than
  sequence numbers.  Before the handshake is complete a message can be
  acknowledged that the other end ignored (`neptun_early_message`); it is never
  sent again, the reader waits for its number, and would take the message that has
  it after a wrap around.  So the bound cannot be dropped here, while over the
  contract alone it can.
* `~Unordered`: packets do not overtake each other.  Over a network that reorders
  the assertions do fail (`neptun_reorder_assert`).
* `RequestsAreValid`, for the handshake and the order of both streams: every limit that a host may read in the
  peer's LetsConnect passes `validate`, also with a stale byte in place of the last
  one.  A refused request is acknowledged like any other, and the host that sent it
  then takes itself for connected to a peer that has no limits of it.  And a host that
  has refused one may write a Reject, whose reader can deliver its own messages
  (`neptun_reject`).
* `Initiators # Host`, for `HandshakeNotStuck`: not both applications call
  `connect`.  If both do it fails (`neptun_both_connect`).  The `neptun` run is an
  instance of all three assumptions.

`Neptun` has, in `NeptunConstants`, also the counterpart of `NoWrapAround`: a host
stops after `MaxPackets` packets, fewer than there are ids.

### Packet delivery

None of the properties is inductive alone: that an ACK is true depends on what
headers in the network say, that on what was pending when they were written, and
that on what was accepted.  `LinkInv` adds to `TypeOK`, `FateReportedOnce` and
`AcceptedInOrder`: the k-th packet has id k - 1 (`PacketsNumbered`); everything
accepted is below the next expected id (`AcceptedIsPast`); pending acks were
accepted (`PendingWereAccepted`) and ascend (`PendingInOrder`); every header ever
written acknowledges only accepted packets (`HeadersAckAccepted`); the reports so
far are true and, if they come from acks, final (`ReportsAreTrue`).  One lemma per
action shows that it keeps each part.  For `AcksAccounted` two more are needed:
every accepted packet is acknowledged in a header or its ack is pending
(`AllAcknowledged`), and acks are written in order (`AcksInOrder`).  The refinement maps `sent` to the
number of packets, `accepted` to the set of the other host's accepted packets,
and `reported` to the statuses; a write is a `SendPacket`, a read an `Accept` or
a `Notify` with the statuses of that call, a timeout a `Notify`.

### Reliable stream

`StreamInv` says of each direction: the messages not yet consumed, in flight and
then pending, lie one behind the other in the buffer from begin to end with their
bytes (`BufferInv`).  A packet holds whole messages with consecutive numbers
(`PacketsInv`), and older packets are less than a buffer ahead of it
(`PacketsNear`), so that equal sequence numbers modulo 2^32 mean equal messages:
this is where `NumbersOutlastBuffer` is used.  What is in flight is in a packet
whose fate is open (`FlightInv`), and a packet whose messages are being popped was
read to its end (`AckInv`).  What is being read is the rest of the newest accepted
packet (`ReadInv`).  What was delivered is the beginning of what was sent
(`DeliveredInv`), and a message in flight was delivered, or is about to be, if its
packet and those of all older messages in flight were accepted (`ProgressInv`): it
is what makes an ACK safe to act on.  `StreamsImplementChannel` proves
`ChannelSafety`, the safety part of `ImplementsChannel`, with the mapping of the
run: `send` is an `Offer`, the loop step that hands a message to the application a
`Receive`, the one that consumes its bytes a `Release`, all others stutter.

### Unreliable stream

`UnreliableInv`: pending spans lie one behind the other in the used part of the
buffer and hold the newest messages (`Intact`); a packet carries whole messages in
order, all older than the pending ones and those of later packets
(`PacketsInOrder`); what was delivered came in accepted packets, in order
(`DeliveredFrom`), and an accepted packet whose count was not cut was delivered as
a whole (`DeliveredAll`).  How many messages `write`
takes is a choice by a running total, so that "the bytes consumed are bytes in
use" needs an induction over the messages: `Induction!UpTo`, which is stated for
sets of numbers and follows from the least number principle.

### Send rate

`RatesRespected` is about two packets and everything between them, the clock set
back included.  The proof watches `Base`, the moment from which the running
interval counts, which stands still however the clock moves and is moved only by a
`tick` that writes.  `RateInv`: the ticker's interval is the one of the agreed rate
from the peer's LetsConnect on, and less than it has passed (`IntervalInv`); each
packet moves the base, and with it the packets, by at least an interval
(`Spaced`); the base is not behind the last packet, and a packet that was held
back is held back for less than an interval (`LastInv`); and if `tick` comes often
enough, the base moves by at most an interval with each packet (`PaceInv`).

### Network double

`NetworkInv`: an address is bound at most once (`BoundOnce`), and for each address
the sends to it that were not dropped can be counted off, in order, so that they
are what was read followed by what is still queued, cut at the MTU and, if read, at
the reader's buffer, and each from the address of the socket that sent it
(`Accounted`).  For `CountersBalance` the counters are added (`CountInv`): the one
of sent packets is the number of sends of the socket that is bound to the address,
and the one of read packets is the length of what was read.  That the sends to an
address which were not dropped are as many as were read or wait follows from the
numbering, which is a bijection.

### Neptun

`BaseInv` is the invariant that all of it rests on: the types; what the stages of
`tick` say of one another (`TickInv`: statuses only before the segments are read, a
packet in hand only in the stages that read it, a stream's loop only in the tick of
its host); and the layout of both buffers (`StreamInv`, `SpansInv`: the messages in
flight and pending fill the used part of the reliable stream's buffer, the spans
are the end of the other one's).  Without the layout not even the types are
inductive: that a position stays within the capacity depends on where the messages
lie.  `BaseInv` makes no assumption on the network or on the connection manager,
whose queue may underflow and whose requests may be refused.  `BufferInv` adds that
the places of the network buffer hold segments of the right types, which is what the
streams are given behind a Reject.

`NeptunDeliveryProofs` adds one invariant for each property.  The order of both
streams rests on `ConnectedHostsAreKnown`'s invariant: if no request is refused, no
packet on its way or in hand holds a Reject (`NoRejectIsRead`), and the streams read
the segments of the packet and nothing else.

* `OrderInv`: every packet on its way, the one in hand and the segment being read
  hold messages of the other application with the number and the byte of their
  place (`SegmentOf`); the next expected number is the number of messages
  delivered.  What was in flight and why does not matter.
* `IdsInv`: packet ids have not wrapped, and everything on its way or expected is
  below the next id.
* `UOrderInv`: every packet on its way holds whole messages that come after those of
  older packets and, if it would still be accepted, after all that were delivered
  and those in hand.  A late or repeated packet is behind the expected id, which is
  what keeps duplicates out.
* `FateInv` and `NetOrdered`: the packet whose messages are being popped, the
  statuses still to be handed on and the packets in flight follow one another in
  the order of their ids (`Awaiting`), messages in flight are in the order of their
  packets (`Queued`), and the packet of each is one of these (`Carried`).  The last
  is where the order of the network is needed: the statuses of a packet that is
  refused as old are not handed on (`neptun.h` returns before
  `process_delivery_statuses`), and then messages stay in flight whose fate never
  comes.  `NetOrdered` says that no packet on its way is that old.  A host that
  hangs in the connection manager is left out of `Carried`; it never ticks again.
* `HandshakeInv`: a packet on its way has a LetsConnect if its sender waits for the
  fate of one in it (`NoteInv`).  An ACK of a LetsConnect, in a header on its way or
  among the statuses of the tick, comes from a host that has the limits of the
  sender (`NoteInv`, `ToldInv`); while the ack is pending that host has them, has
  them in hand, or hangs and acknowledges nothing any more (`PendingInv`).  This
  needs no order of the network.
* For `HandshakeNotStuck`, `WaitInv`: the LetsConnects in flight are queued in the
  order of their ids, and the fate of each is still to come.  `AnswerInv`: the host
  that does not call `connect` sends no LetsConnect before it has read one.  And
  for the host o that calls it, as long as it has no limits of its peer, `Alone(o)`:
  it still sends requests or has one in flight (`AskInv`); the other host
  acknowledges a packet in the very tick that reads it, a request together with the
  answer, so that it never has more than one ack pending (`ReadInv`); hence a packet
  that acknowledges a request brings a LetsConnect (`ReplyInv`), and the ACK is the
  last status of its tick, with that LetsConnect in hand (`LastInv`).  So o stops
  asking only when the answer is there; and if the answer is lost, so is the ACK,
  and o asks again.

These were checked as invariants of the `neptun` and `neptun_unordered` instances
before they were proved.

### Only model-checked

* Liveness under fairness, which is out of the prover's reach:
  `EveryFateReported` and the liveness of `ImplementsChannel`.
* `Wire`: what the folds over bytes compute is an induction over data.
* `BytesBalance` of the network double, for the same reason: its totals are sums over
  sequences.

## Not modelled

* Several peers of one host: their objects share only the socket and the network
  buffer.  (An exception of `send_to` for one peer also skips the peers behind it.)
* `max_send_packet_size`: the room of a packet is a constant.
* Malformed packets: the hosts of the model send what the code writes.
* A Reject in `Wire`: the code writes it, but it is not read as it was written, so
  `ReadAsWritten` has nothing to say of it.  What the streams find behind it is in
  `Neptun`, for messages of one byte; payloads and limits whose bytes look like the
  type of a segment, which a reader that starts in the middle of one could take for
  it, are left out.
* Captures that are cut off inside a record, frames with padding behind the UDP
  packet, IPv4 options other than none or 36 bytes (the viewer takes all options to be 36
  bytes long, `file_format.h:77-83`, and decodes other lengths wrongly), and captures of the other byte
  order, which the viewer refuses.
* Restart and disconnect, which the code does not handle.
* The system calls that open, bind and close a socket, the text form of addresses,
  metrics, logging, and the examples.

## Plan

1. Done: packet delivery with its contract and proofs; streams over the
   contract; handshake and `Neptun`.
2. Done: failing sockets in `Neptun`; the send rate; packets as bytes, the
   formatter and the pcap viewer; the network double; that every reliable message
   gets through.
3. Done: proofs of the packet delivery, of both streams, of the send rate and of
   the network double; of `Neptun` the types, the order of both streams and the
   assertions of the reliable stream.
4. Done: proofs about the handshake, that a host that takes itself for connected is
   right and, with one initiator, that the hosts do not wait for each other; and
   that the counters of the network double are exact.
