------------------------ MODULE UnreliableLinkProofs ------------------------
(***************************************************************************)
(* Proofs about UnreliableLink, for every capacity of the buffer, every     *)
(* width of the message count, every room in the packets and any number of  *)
(* messages and packets.                                                    *)
(***************************************************************************)
EXTENDS UnreliableLink, Induction, SequenceTheorems

-----------------------------------------------------------------------------
(* The inductive invariant.                                                  *)

\* The number of the message that a payload is: its first byte.
Number(payload) == payload[1]

\* The payload is the whole of the message whose number it carries.
Whole(payload, sizes) ==
    /\ Number(payload) \in 1 .. Len(sizes)
    /\ payload = [i \in 1 .. sizes[Number(payload)] |-> Number(payload)]

\* The pending spans lie one behind the other in the used part of the buffer and
\* hold the newest messages.
Intact(pending, buffer, sizes) ==
    LET older == Len(sizes) - Len(pending) IN
    /\ older >= 0
    /\ buffer.m_begin <= buffer.m_end
    /\ \A i \in 1 .. Len(pending) :
         /\ buffer.m_begin <= pending[i].begin
         /\ pending[i].begin < pending[i].end
         /\ pending[i].end <= buffer.m_end
         /\ BytesAt(buffer, pending[i].begin, pending[i].end) =
              [x \in 1 .. sizes[older + i] |-> older + i]
    /\ \A i \in 2 .. Len(pending) : pending[i - 1].end <= pending[i].begin

\* The packets hold whole messages, older than what is pending, in order.
PacketsInOrder(segments, sizes, older) ==
    /\ \A k \in 1 .. Len(segments) :
         LET messages == segments[k].messages IN
         /\ segments[k].message_count = Len(messages) % CountModulus
         /\ \A x \in 1 .. Len(messages) :
              Whole(messages[x], sizes) /\ Number(messages[x]) <= older
         /\ \A x, y \in 1 .. Len(messages) :
              x < y => Number(messages[x]) < Number(messages[y])
    /\ \A j, k \in 1 .. Len(segments) : j < k =>
         \A x \in 1 .. Len(segments[j].messages), y \in 1 .. Len(segments[k].messages) :
            Number(segments[j].messages[x]) < Number(segments[k].messages[y])

\* What was delivered came in the packets that were taken, whole and in order.
DeliveredFrom(got, segments, taken, sizes) ==
    /\ \A i \in 1 .. Len(got) :
         /\ Whole(got[i], sizes)
         /\ \E k \in taken : \E x \in 1 .. Len(segments[k].messages) :
              Number(got[i]) = Number(segments[k].messages[x])
    /\ \A i, j \in 1 .. Len(got) : i < j => Number(got[i]) < Number(got[j])

\* A packet whose count is not cut was delivered as a whole.
DeliveredAll(got, segments, taken) ==
    \A k \in taken : Len(segments[k].messages) < CountModulus =>
        \E before \in 0 .. Len(got) - Len(segments[k].messages) :
            \A i \in 1 .. Len(segments[k].messages) : got[before + i] = segments[k].messages[i]

UnreliableInv ==
    /\ TypeOK
    /\ Intact(m_pending_messages[A], m_unreliable_buffer[A], submitted[A])
    /\ Len(packets[A]) = sent[A]
    /\ PacketsInOrder(packets[A], submitted[A], Len(submitted[A]) - Len(m_pending_messages[A]))
    /\ accepted[A] \subseteq 1 .. sent[A]
    /\ DeliveredFrom(delivered[B], packets[A], accepted[A], submitted[A])
    /\ DeliveredAll(delivered[B], packets[A], accepted[A])

-----------------------------------------------------------------------------
(* The bytes that write consumes.                                            *)

\* The loop of write adds up the sizes.
LEMMA PayloadBytesSum ==
    ASSUME NEW spans \in Seq(Span), NEW n \in 0 .. Len(spans)
    PROVE  \E total \in [0 .. n -> Int] :
             /\ total[0] = 0
             /\ \A i \in 1 .. n : total[i] = total[i - 1] + USize(spans[i])
             /\ PayloadBytes(spans, n) = total[n]
  <1> DEFINE Sums(f) == f = [i \in 0 .. n |-> IF i = 0 THEN 0 ELSE f[i - 1] + USize(spans[i])]
             total == CHOOSE f : Sums(f)
             item == [i \in 1 .. n |-> USize(spans[i])]
  <1>1. n \in Nat /\ \A i \in 1 .. n : USize(spans[i]) \in Int
    <2>1. Len(spans) \in Nat /\ n \in Nat /\ \A i \in 1 .. n : i \in 1 .. Len(spans)
      OBVIOUS
    <2>2. \A i \in 1 .. n : spans[i] \in Span
      BY <2>1
    <2> QED BY <2>1, <2>2, CapacityIsNat DEF Span, USize
  <1>2. item \in [1 .. n -> Int]
    BY <1>1
  <1>3. PICK g \in [0 .. n -> Int] :
          g[0] = 0 /\ \A i \in 1 .. n : g[i] = g[i - 1] + item[i]
    <2> HIDE DEF item
    <2> QED BY <1>1, <1>2, RunningTotals
  <1>4. ASSUME NEW i \in 1 .. n PROVE g[i] = g[i - 1] + USize(spans[i])
    BY <1>3
  <1> HIDE DEF item
  <1>5. Sums(g)
    <2> DEFINE f == [i \in 0 .. n |-> IF i = 0 THEN 0 ELSE g[i - 1] + USize(spans[i])]
    <2>1. ASSUME NEW i \in 0 .. n PROVE g[i] = f[i]
      BY <1>1, <1>3, <1>4
    <2>2. DOMAIN g = 0 .. n /\ g = [i \in 0 .. n |-> g[i]]
      BY <1>3
    <2> QED BY <2>1, <2>2
  <1>6. Sums(total)
    BY <1>5
  <1>7. PayloadBytes(spans, n) = total[n]
    BY DEF PayloadBytes
  <1> HIDE DEF total
  <1>8. DOMAIN total = 0 .. n /\ total[0] = 0
        /\ \A i \in 1 .. n : total[i] = total[i - 1] + USize(spans[i])
    BY <1>6, <1>1
  <1>9. \A i \in 0 .. n : total[i] \in Int
    <2> DEFINE Good == {i \in 0 .. n : total[i] \in Int}
    <2>1. 0 \in Good
      BY <1>1, <1>8
    <2>2. \A i \in 1 .. n : i - 1 \in Good => i \in Good
      BY <1>1, <1>8
    <2>3. \A i \in 0 .. n : i \in Good
      <3> HIDE DEF Good
      <3> QED BY ONLY <2>1, <2>2, <1>1, UpTo, Zenon
    <2> QED BY <2>3
  <1>10. total = [i \in 0 .. n |-> total[i]]
    BY <1>6
  <1>11. total \in [0 .. n -> Int]
    BY <1>9, <1>10
  <1> QED BY <1>7, <1>8, <1>11

\* Where a pending span lies and what it holds.
LEMMA SpanFacts ==
    ASSUME NEW pending \in Seq(Span), NEW buffer \in Buffer, NEW sizes \in Seq(Nat \ {0}),
           Intact(pending, buffer, sizes), NEW i \in 1 .. Len(pending)
    PROVE  /\ pending[i].begin \in Nat /\ pending[i].end \in Nat
           /\ buffer.m_begin <= pending[i].begin
           /\ pending[i].begin < pending[i].end
           /\ pending[i].end <= buffer.m_end
           /\ i # 1 => pending[i - 1].end <= pending[i].begin
           /\ Len(sizes) - Len(pending) + i \in 1 .. Len(sizes)
           /\ BytesAt(buffer, pending[i].begin, pending[i].end) =
                [x \in 1 .. sizes[Len(sizes) - Len(pending) + i] |->
                   Len(sizes) - Len(pending) + i]
  <1>1. pending[i] \in Span
    OBVIOUS
  <1>2. pending[i].begin \in Nat /\ pending[i].end \in Nat
    BY <1>1, CapacityIsNat DEF Span
  <1>3. Len(pending) \in Nat /\ Len(sizes) \in Nat /\ Len(sizes) - Len(pending) >= 0
    <2>1. Len(pending) \in Nat /\ Len(sizes) \in Nat
      OBVIOUS
    <2> QED BY <2>1 DEF Intact
  <1>4. /\ buffer.m_begin <= pending[i].begin
        /\ pending[i].begin < pending[i].end
        /\ pending[i].end <= buffer.m_end
    BY DEF Intact
  <1>5. i # 1 => pending[i - 1].end <= pending[i].begin
    <2> SUFFICES ASSUME i # 1 PROVE pending[i - 1].end <= pending[i].begin
      OBVIOUS
    <2>1. i \in 2 .. Len(pending)
      BY <1>3
    <2> QED BY <2>1 DEF Intact
  <1>6. BytesAt(buffer, pending[i].begin, pending[i].end) =
          [x \in 1 .. sizes[Len(sizes) - Len(pending) + i] |->
             Len(sizes) - Len(pending) + i]
    BY Zenon DEF Intact
  <1>7. Len(sizes) - Len(pending) + i \in 1 .. Len(sizes)
    BY <1>3
  <1> QED BY <1>2, <1>4, <1>5, <1>6, <1>7

\* What write consumes is in use: the spans lie one behind the other in it.
LEMMA ConsumesWhatIsUsed ==
    ASSUME NEW pending \in Seq(Span), NEW buffer \in Buffer, NEW sizes \in Seq(Nat \ {0}),
           Intact(pending, buffer, sizes), NEW n \in 1 .. Len(pending)
    PROVE  PayloadBytes(pending, n) \in 0 .. buffer.m_end - buffer.m_begin
  <1>1. Len(pending) \in Nat /\ n \in Nat /\ n \in 0 .. Len(pending)
    OBVIOUS
  <1>2. PICK total \in [0 .. n -> Int] :
          /\ total[0] = 0
          /\ \A i \in 1 .. n : total[i] = total[i - 1] + USize(pending[i])
          /\ PayloadBytes(pending, n) = total[n]
    BY <1>1, PayloadBytesSum
  <1>3. buffer.m_begin \in Int /\ buffer.m_end \in Int /\ buffer.m_begin <= buffer.m_end
    BY CapacityIsNat DEF Buffer, Intact
  <1>4. ASSUME NEW i \in 1 .. n
        PROVE  /\ pending[i].begin \in Int /\ pending[i].end \in Int
               /\ USize(pending[i]) = pending[i].end - pending[i].begin
               /\ buffer.m_begin <= pending[i].begin
               /\ pending[i].begin < pending[i].end
               /\ pending[i].end <= buffer.m_end
               /\ i # 1 => pending[i - 1].end <= pending[i].begin
    <2>1. i \in 1 .. Len(pending)
      BY <1>1
    <2>2. /\ pending[i].begin \in Nat /\ pending[i].end \in Nat
          /\ buffer.m_begin <= pending[i].begin
          /\ pending[i].begin < pending[i].end
          /\ pending[i].end <= buffer.m_end
          /\ i # 1 => pending[i - 1].end <= pending[i].begin
      BY ONLY <2>1, SpanFacts, pending \in Seq(Span), buffer \in Buffer,
              sizes \in Seq(Nat \ {0}), Intact(pending, buffer, sizes), Zenon
    <2> QED BY <2>2 DEF USize
  <1> DEFINE Good == {i \in 0 .. n :
                        /\ total[i] >= 0
                        /\ i # 0 => total[i] <= pending[i].end - buffer.m_begin}
  <1>5. 0 \in Good
    BY <1>1, <1>2
  <1>6. ASSUME NEW i \in 1 .. n, i - 1 \in Good PROVE i \in Good
    <2>1. total[i] \in Int /\ total[i - 1] \in Int /\ i \in 0 .. n /\ i # 0
      BY <1>1, <1>2
    <2>2. total[i] = total[i - 1] + (pending[i].end - pending[i].begin) /\ total[i - 1] >= 0
      BY <1>2, <1>4, <1>6
    <2>3. total[i] >= 0
      BY <2>1, <2>2, <1>4
    <2>4. total[i] <= pending[i].end - buffer.m_begin
      <3>1. CASE i = 1
        <4>1. total[i - 1] = 0
          BY <3>1, <1>2
        <4>2. pending[i].begin \in Int /\ pending[i].end \in Int
              /\ buffer.m_begin <= pending[i].begin
          BY <1>4
        <4>3. total[i] = pending[i].end - pending[i].begin
          BY <4>1, <4>2, <2>2
        <4> QED BY ONLY <4>2, <4>3, <1>3
      <3>2. CASE i # 1
        <4>1. i - 1 \in 1 .. n /\ i - 1 # 0
          BY <3>2, <1>1
        <4>2. total[i - 1] <= pending[i - 1].end - buffer.m_begin
          BY <4>1, <1>6
        <4>3. pending[i - 1].end \in Int /\ pending[i - 1].end <= pending[i].begin
          BY <4>1, <3>2, <1>4
        <4>4. pending[i].begin \in Int /\ pending[i].end \in Int
          BY <1>4
        <4> DEFINE before == total[i - 1]
                   now == total[i]
                   end == pending[i].end
                   begin == pending[i].begin
                   lastEnd == pending[i - 1].end
        <4>5. /\ {before, now, end, begin, lastEnd} \subseteq Int
              /\ before <= lastEnd - buffer.m_begin /\ lastEnd <= begin
              /\ now = before + (end - begin)
          BY <4>2, <4>3, <4>4, <2>1, <2>2
        <4> HIDE DEF before, now, end, begin, lastEnd
        <4>6. now <= end - buffer.m_begin
          BY ONLY <4>5, <1>3
        <4> QED BY <4>6 DEF now, end
      <3> QED BY <3>1, <3>2
    <2> QED BY <2>1, <2>3, <2>4
  <1>7. n \in Good
    <2> HIDE DEF Good
    <2>1. \A i \in 1 .. n : i - 1 \in Good => i \in Good
      BY <1>6
    <2>2. \A i \in 0 .. n : i \in Good
      BY ONLY <1>1, <1>5, <2>1, UpTo, Zenon
    <2> QED BY <2>2, <1>1
  <1>8. total[n] \in Int /\ total[n] >= 0 /\ total[n] <= pending[n].end - buffer.m_begin
    BY <1>7, <1>1, <1>2
  <1>9. n \in 1 .. n
    BY <1>1
  <1>10. pending[n].end \in Int /\ pending[n].end <= buffer.m_end
    BY <1>9, <1>4
  <1> QED BY <1>2, <1>3, <1>8, <1>10

-----------------------------------------------------------------------------
(* The buffer and the spans.                                                 *)

\* Positions behind the end of the used part, and in a span before it.
LEMMA CellBehind ==
    ASSUME NEW capacity \in Nat, NEW end \in Nat, NEW size \in Nat, NEW x \in 1 .. size,
           end + size <= capacity
    PROVE  end + x \in 1 .. capacity /\ end + x \in end + 1 .. end + size
  OBVIOUS

LEMMA CellBefore ==
    ASSUME NEW capacity \in Nat, NEW end \in Nat, NEW size \in Nat, NEW first \in Nat,
           NEW last \in Nat, last <= end, end <= capacity, NEW x \in 1 .. last - first
    PROVE  first + x \in 1 .. capacity /\ ~(first + x \in end + 1 .. end + size)
  OBVIOUS

\* Consuming what is in use and flipping leaves a buffer.
LEMMA FlipKeepsBuffer ==
    ASSUME NEW buffer \in Buffer, buffer.m_begin <= buffer.m_end,
           NEW count \in 0 .. buffer.m_end - buffer.m_begin
    PROVE  /\ Flip(Consume(buffer, count)) \in Buffer
           /\ Flip(Consume(buffer, count)).m_begin <= Flip(Consume(buffer, count)).m_end
  <1> DEFINE b == Consume(buffer, count)
  <1>1. buffer.m_begin \in Nat /\ buffer.m_end \in 0 .. Capacity
        /\ buffer.m_buffer \in [1 .. Capacity -> Nat]
    BY CapacityIsNat DEF Buffer
  <1>2. b.m_begin \in Nat /\ b.m_end \in 0 .. Capacity /\ b.m_begin <= b.m_end
        /\ b.m_buffer \in [1 .. Capacity -> Nat]
    BY <1>1, CapacityIsNat DEF Buffer, Consume
  <1> HIDE DEF b
  <1>3. b.m_end - b.m_begin \in 0 .. Capacity
    BY <1>2, CapacityIsNat
  <1> DEFINE cells == [i \in 1 .. Capacity |->
                         IF i <= b.m_end - b.m_begin
                         THEN b.m_buffer[b.m_begin + i] ELSE b.m_buffer[i]]
  <1>4. cells \in [1 .. Capacity -> Nat]
    <2>1. ASSUME NEW i \in 1 .. Capacity, i <= b.m_end - b.m_begin
          PROVE  b.m_begin + i \in 1 .. Capacity
      BY <2>1, <1>2, CapacityIsNat
    <2> QED BY <2>1, <1>2
  <1>5. Flip(b) = [m_begin |-> 0, m_end |-> b.m_end - b.m_begin, m_buffer |-> cells]
    BY DEF Flip
  <1> HIDE DEF cells
  <1>6. Flip(b) \in Buffer /\ Flip(b).m_begin <= Flip(b).m_end
    BY <1>3, <1>4, <1>5, CapacityIsNat DEF Buffer
  <1> QED BY <1>6 DEF b

\* A message that is written behind the others leaves them where they are.
LEMMA SendKeepsIntact ==
    ASSUME NEW pending \in Seq(Span), NEW buffer \in Buffer, NEW sizes \in Seq(Nat \ {0}),
           Intact(pending, buffer, sizes), NEW size \in 1 .. Remaining(buffer)
    PROVE  LET span  == [begin |-> buffer.m_end, end |-> buffer.m_end + size]
               wrote == WriteAndAdvance(buffer, size, Len(sizes) + 1)
           IN  /\ span \in Span
               /\ wrote \in Buffer
               /\ Intact(Append(pending, span), wrote, Append(sizes, size))
  <1> DEFINE span  == [begin |-> buffer.m_end, end |-> buffer.m_end + size]
             byte  == Len(sizes) + 1
             wrote == WriteAndAdvance(buffer, size, byte)
             next  == Append(pending, span)
             more  == Append(sizes, size)
             older == Len(sizes) - Len(pending)
  <1>1. buffer.m_begin \in Nat /\ buffer.m_end \in 0 .. Capacity
        /\ buffer.m_buffer \in [1 .. Capacity -> Nat]
        /\ buffer.m_begin <= buffer.m_end
    BY CapacityIsNat DEF Buffer, Intact
  <1>2. size \in Nat /\ size >= 1 /\ buffer.m_end + size \in 0 .. Capacity
    BY <1>1, CapacityIsNat DEF Remaining
  <1>3. Len(sizes) \in Nat /\ Len(pending) \in Nat /\ byte \in Nat /\ older \in Nat
    <2>1. Len(sizes) \in Nat /\ Len(pending) \in Nat
      OBVIOUS
    <2> QED BY <2>1 DEF Intact
  <1>4. span \in Span /\ span.begin = buffer.m_end /\ span.end = buffer.m_end + size
    BY <1>1, <1>2 DEF Span
  <1>5. /\ wrote.m_begin = buffer.m_begin
        /\ wrote.m_end = buffer.m_end + size
        /\ wrote.m_buffer \in [1 .. Capacity -> Nat]
        /\ \A i \in 1 .. Capacity : wrote.m_buffer[i] =
             IF i \in buffer.m_end + 1 .. buffer.m_end + size THEN byte ELSE buffer.m_buffer[i]
        /\ wrote \in Buffer
    <2> HIDE DEF byte
    <2>1. buffer = [m_begin |-> buffer.m_begin, m_end |-> buffer.m_end,
                    m_buffer |-> buffer.m_buffer]
      BY DEF Buffer
    <2> DEFINE cells == [i \in 1 .. Capacity |->
                           IF i \in buffer.m_end + 1 .. buffer.m_end + size
                           THEN byte ELSE buffer.m_buffer[i]]
    <2>2. wrote = [m_begin |-> buffer.m_begin, m_end |-> buffer.m_end + size,
                   m_buffer |-> cells]
      <3>1. wrote = [buffer EXCEPT !.m_end = buffer.m_end + size, !.m_buffer = cells]
        BY DEF WriteAndAdvance
      <3> HIDE DEF wrote, cells
      <3> QED BY <3>1, <2>1
    <2>3. cells \in [1 .. Capacity -> Nat]
      BY <1>1, <1>3
    <2>4. \A i \in 1 .. Capacity : cells[i] =
            IF i \in buffer.m_end + 1 .. buffer.m_end + size THEN byte ELSE buffer.m_buffer[i]
      OBVIOUS
    <2> HIDE DEF cells, wrote
    <2>5. buffer.m_begin \in 0 .. Capacity
      BY DEF Buffer
    <2> QED BY <2>2, <2>3, <2>4, <2>5, <1>2 DEF Buffer
  <1>6. /\ next \in Seq(Span) /\ Len(next) = Len(pending) + 1
        /\ next[Len(pending) + 1] = span
        /\ \A i \in 1 .. Len(pending) : next[i] = pending[i]
    <2> HIDE DEF span
    <2> QED BY <1>4
  <1>7. /\ Len(more) = byte /\ more[byte] = size
        /\ \A i \in 1 .. Len(sizes) : more[i] = sizes[i]
    BY <1>2
  <1> HIDE DEF span, wrote, next, more
  <1>8. ASSUME NEW i \in 1 .. Len(next)
        PROVE  /\ wrote.m_begin <= next[i].begin
               /\ next[i].begin < next[i].end
               /\ next[i].end <= wrote.m_end
               /\ BytesAt(wrote, next[i].begin, next[i].end) =
                    [x \in 1 .. more[older + i] |-> older + i]
    <2>1. CASE i = Len(pending) + 1
      <3>1. older + i = byte /\ next[i] = span
        BY <2>1, <1>3, <1>6
      <3>2. ASSUME NEW x \in 1 .. size PROVE wrote.m_buffer[buffer.m_end + x] = byte
        <4>1. buffer.m_end + x \in 1 .. Capacity
              /\ buffer.m_end + x \in buffer.m_end + 1 .. buffer.m_end + size
          <5>1. buffer.m_end \in Nat /\ buffer.m_end + size <= Capacity
            BY <1>1, <1>2, CapacityIsNat
          <5> QED BY ONLY <5>1, <1>2, x \in 1 .. size, CapacityIsNat, CellBehind
        <4> QED BY <4>1, <1>5
      <3>3. span.end - span.begin = size
        BY <1>1, <1>2, <1>4
      <3>4. BytesAt(wrote, span.begin, span.end) = [x \in 1 .. size |-> byte]
        <4> HIDE DEF byte
        <4> QED BY <3>2, <3>3, <1>4 DEF BytesAt
      <3> QED BY <3>1, <3>4, <1>1, <1>2, <1>4, <1>5, <1>7
    <2>2. CASE i # Len(pending) + 1
      <3>1. i \in 1 .. Len(pending) /\ next[i] = pending[i]
        BY <2>2, <1>3, <1>6
      <3>2. /\ pending[i].begin \in Nat /\ pending[i].end \in Nat
            /\ buffer.m_begin <= pending[i].begin
            /\ pending[i].begin < pending[i].end
            /\ pending[i].end <= buffer.m_end
            /\ older + i \in 1 .. Len(sizes)
        BY <3>1, SpanFacts
      <3>3. BytesAt(buffer, pending[i].begin, pending[i].end) =
              [x \in 1 .. sizes[older + i] |-> older + i]
        BY ONLY <3>1, SpanFacts, pending \in Seq(Span), buffer \in Buffer,
                sizes \in Seq(Nat \ {0}), Intact(pending, buffer, sizes), Zenon
      <3>4. older + i \in 1 .. Len(sizes) /\ more[older + i] = sizes[older + i]
        BY <3>2, <1>7
      <3>5. ASSUME NEW x \in 1 .. pending[i].end - pending[i].begin
            PROVE  wrote.m_buffer[pending[i].begin + x] = buffer.m_buffer[pending[i].begin + x]
        <4>1. pending[i].begin + x \in 1 .. Capacity
              /\ ~(pending[i].begin + x \in buffer.m_end + 1 .. buffer.m_end + size)
          <5>1. buffer.m_end \in Nat /\ buffer.m_end <= Capacity
            BY <1>1, CapacityIsNat
          <5> QED BY ONLY <5>1, <3>2, <1>2, CapacityIsNat, CellBefore,
                          x \in 1 .. pending[i].end - pending[i].begin
        <4> QED BY <4>1, <1>5
      <3>6. BytesAt(wrote, pending[i].begin, pending[i].end) =
              BytesAt(buffer, pending[i].begin, pending[i].end)
        BY <3>5 DEF BytesAt
      <3>7. pending[i].end <= wrote.m_end
        BY <3>2, <1>1, <1>2, <1>5
      <3> QED BY <3>1, <3>2, <3>3, <3>4, <3>6, <3>7, <1>5
    <2> QED BY <2>1, <2>2
  <1>9. ASSUME NEW i \in 2 .. Len(next) PROVE next[i - 1].end <= next[i].begin
    <2>1. i - 1 \in 1 .. Len(pending) /\ next[i - 1] = pending[i - 1]
      BY <1>3, <1>6
    <2>2. CASE i = Len(pending) + 1
      BY <2>1, <2>2, <1>4, <1>6 DEF Intact
    <2>3. CASE i # Len(pending) + 1
      <3>1. i \in 2 .. Len(pending) /\ next[i] = pending[i]
        BY <2>3, <1>3, <1>6
      <3> QED BY <3>1, <2>1 DEF Intact
    <2> QED BY <2>2, <2>3
  <1>10. Len(more) - Len(next) = older /\ older >= 0
    BY <1>3, <1>6, <1>7
  <1>11. wrote.m_begin <= wrote.m_end
    BY <1>1, <1>2, <1>5
  <1>12. Intact(next, wrote, more)
    <2> HIDE DEF older
    <2> QED BY <1>8, <1>9, <1>10, <1>11 DEF Intact
  <1> QED BY <1>4, <1>5, <1>12 DEF span, wrote, next, more

-----------------------------------------------------------------------------
(* Whole messages.                                                           *)

Segment == [message_count : 0 .. CountModulus - 1, messages : Seq(Payload)]

\* The bytes of message m are a payload, and its first byte says which.
LEMMA WholeMessage ==
    ASSUME NEW sizes \in Seq(Nat \ {0}), NEW m \in 1 .. Len(sizes),
           NEW payload, payload = [x \in 1 .. sizes[m] |-> m]
    PROVE  payload \in Payload /\ Number(payload) = m /\ Whole(payload, sizes)
  <1>1. sizes[m] \in Nat \ {0} /\ m \in Nat
    OBVIOUS
  <1>2. payload \in Seq(Nat)
    BY <1>1
  <1>3. Number(payload) = m
    BY <1>1 DEF Number
  <1> QED BY <1>2, <1>3 DEF Payload, Whole

\* A whole message stays whole when more messages are sent.
LEMMA WholeStays ==
    ASSUME NEW sizes \in Seq(Nat \ {0}), NEW size \in Nat \ {0}, NEW payload,
           Whole(payload, sizes)
    PROVE  Whole(payload, Append(sizes, size))
  <1> DEFINE m == Number(payload)
             more == Append(sizes, size)
  <1>1. Len(sizes) \in Nat
    OBVIOUS
  <1>2. Len(more) = Len(sizes) + 1 /\ \A i \in 1 .. Len(sizes) : more[i] = sizes[i]
    OBVIOUS
  <1>3. m \in 1 .. Len(sizes) /\ payload = [i \in 1 .. sizes[m] |-> m]
    BY Zenon DEF Whole
  <1> HIDE DEF m, more
  <1>4. m \in 1 .. Len(more) /\ more[m] = sizes[m]
    BY <1>1, <1>2, <1>3
  <1>5. payload = [i \in 1 .. more[m] |-> m]
    BY <1>3, <1>4
  <1> QED BY <1>4, <1>5, Zenon DEF Whole, m, more

\* The segment that write makes holds the first n pending messages.
LEMMA SegmentIsWhole ==
    ASSUME NEW pending \in Seq(Span), NEW buffer \in Buffer, NEW sizes \in Seq(Nat \ {0}),
           Intact(pending, buffer, sizes), NEW n \in 0 .. Len(pending),
           NEW segment,
           segment = [message_count |-> n % CountModulus,
                      messages |-> [i \in 1 .. n |->
                                      BytesAt(buffer, pending[i].begin, pending[i].end)]]
    PROVE  /\ segment \in Segment
           /\ Len(segment.messages) = n
           /\ segment.message_count = n % CountModulus
           /\ \A i \in 1 .. n :
                /\ Whole(segment.messages[i], sizes)
                /\ Number(segment.messages[i]) = Len(sizes) - Len(pending) + i
  <1> DEFINE messages == [i \in 1 .. n |-> BytesAt(buffer, pending[i].begin, pending[i].end)]
  <1>1. n \in Nat /\ Len(pending) \in Nat
    OBVIOUS
  <1>2. ASSUME NEW i \in 1 .. n
        PROVE  /\ messages[i] \in Payload
               /\ Whole(messages[i], sizes)
               /\ Number(messages[i]) = Len(sizes) - Len(pending) + i
    <2> DEFINE m == Len(sizes) - Len(pending) + i
    <2>1. i \in 1 .. Len(pending)
      BY <1>1
    <2>2. m \in 1 .. Len(sizes)
      BY <2>1, SpanFacts
    <2>3. BytesAt(buffer, pending[i].begin, pending[i].end) = [x \in 1 .. sizes[m] |-> m]
      BY <2>1, SpanFacts
    <2>4. messages[i] = [x \in 1 .. sizes[m] |-> m]
      BY <2>3
    <2> HIDE DEF m, messages
    <2>5. messages[i] \in Payload /\ Whole(messages[i], sizes) /\ Number(messages[i]) = m
      BY <2>2, <2>4, WholeMessage
    <2> QED BY <2>5 DEF m
  <1>3. messages \in [1 .. n -> Payload]
    <2>1. \A i \in 1 .. n : BytesAt(buffer, pending[i].begin, pending[i].end) \in Payload
      BY <1>2
    <2> QED BY <2>1
  <1>4. segment.messages = messages /\ segment.message_count = n % CountModulus
        /\ segment = [message_count |-> n % CountModulus, messages |-> messages]
    OBVIOUS
  <1> HIDE DEF messages
  <1>5. messages \in Seq(Payload) /\ Len(messages) = n
    BY <1>1, <1>3
  <1>6. n % CountModulus \in 0 .. CountModulus - 1
    BY <1>1, CountModulusIsPos
  <1>7. segment \in Segment
    BY <1>4, <1>5, <1>6 DEF Segment
  <1> QED BY <1>2, <1>4, <1>5, <1>7

-----------------------------------------------------------------------------
(* What the packets hold and what is delivered, step by step.                *)

\* More messages are sent.
LEMMA SendKeepsPackets ==
    ASSUME NEW sizes \in Seq(Nat \ {0}), NEW size \in Nat \ {0}, NEW segments, NEW older,
           NEW got, NEW taken,
           PacketsInOrder(segments, sizes, older),
           DeliveredFrom(got, segments, taken, sizes)
    PROVE  /\ PacketsInOrder(segments, Append(sizes, size), older)
           /\ DeliveredFrom(got, segments, taken, Append(sizes, size))
  <1> DEFINE more == Append(sizes, size)
  <1>1. \A payload : Whole(payload, sizes) => Whole(payload, more)
    BY WholeStays
  <1> HIDE DEF more
  <1>2. PacketsInOrder(segments, more, older)
    BY <1>1 DEF PacketsInOrder
  <1>3. DeliveredFrom(got, segments, taken, more)
    BY <1>1 DEF DeliveredFrom
  <1> QED BY <1>2, <1>3 DEF more

\* A packet is written, with messages newer than those of the packets before.
LEMMA WriteKeepsPackets ==
    ASSUME NEW sizes \in Seq(Nat \ {0}), NEW segments \in Seq(Segment), NEW older \in Int,
           PacketsInOrder(segments, sizes, older),
           NEW segment \in Segment, NEW n \in Nat, Len(segment.messages) = n,
           segment.message_count = n % CountModulus,
           \A i \in 1 .. n : /\ Whole(segment.messages[i], sizes)
                             /\ Number(segment.messages[i]) = older + i,
           NEW newest \in Int, older + n <= newest
    PROVE  PacketsInOrder(Append(segments, segment), sizes, newest)
  <1> DEFINE more == Append(segments, segment)
             last == Len(segments) + 1
  <1>1. Len(segments) \in Nat
    OBVIOUS
  <1>2. Len(more) = last /\ more[last] = segment
        /\ \A k \in 1 .. Len(segments) : more[k] = segments[k]
    OBVIOUS
  <1>3. \A k \in 1 .. Len(more) : k = last \/ k \in 1 .. Len(segments)
    BY <1>1, <1>2
  <1>4. \A p, m \in Int : (m <= older => m <= newest) /\ (p \in 1 .. n => older + p <= newest)
    OBVIOUS
  <1>5. \A payload : Whole(payload, sizes) => Number(payload) \in Int
    <2>1. Len(sizes) \in Nat
      OBVIOUS
    <2> QED BY <2>1 DEF Whole
  <1> HIDE DEF more, last
  <1>6. ASSUME NEW k \in 1 .. Len(more)
        PROVE  LET messages == more[k].messages IN
               /\ more[k].message_count = Len(messages) % CountModulus
               /\ \A x \in 1 .. Len(messages) :
                    Whole(messages[x], sizes) /\ Number(messages[x]) <= newest
               /\ \A x, y \in 1 .. Len(messages) :
                    x < y => Number(messages[x]) < Number(messages[y])
    <2>1. CASE k = last
      BY <2>1, <1>2
    <2>2. CASE k \in 1 .. Len(segments)
      <3> DEFINE messages == segments[k].messages
      <3>1. /\ segments[k].message_count = Len(messages) % CountModulus
            /\ \A x \in 1 .. Len(messages) :
                 Whole(messages[x], sizes) /\ Number(messages[x]) <= older
            /\ \A x, y \in 1 .. Len(messages) :
                 x < y => Number(messages[x]) < Number(messages[y])
        BY <2>2 DEF PacketsInOrder
      <3> HIDE DEF messages
      <3>2. \A x \in 1 .. Len(messages) :
              Whole(messages[x], sizes) /\ Number(messages[x]) <= newest
        BY <3>1, <1>4, <1>5
      <3>3. more[k] = segments[k]
        BY <2>2, <1>2
      <3> QED BY <3>1, <3>2, <3>3 DEF messages
    <2> QED BY <2>1, <2>2, <1>3
  <1>7. ASSUME NEW j \in 1 .. Len(more), NEW k \in 1 .. Len(more), j < k,
               NEW x \in 1 .. Len(more[j].messages), NEW y \in 1 .. Len(more[k].messages)
        PROVE  Number(more[j].messages[x]) < Number(more[k].messages[y])
    <2>1. j \in 1 .. Len(segments) /\ more[j] = segments[j]
      BY <1>7, <1>1, <1>2 DEF last
    <2>2. CASE k = last
      <3>1. Number(more[j].messages[x]) <= older /\ Whole(more[j].messages[x], sizes)
        BY <2>1 DEF PacketsInOrder
      <3>2. more[k] = segment /\ y \in 1 .. n
        BY <2>2, <1>2
      <3>3. Number(segment.messages[y]) = older + y
        BY <3>2
      <3>4. Number(more[j].messages[x]) \in Int
        BY <3>1, <1>5
      <3> HIDE DEF Number
      <3> QED BY <3>1, <3>2, <3>3, <3>4
    <2>3. CASE k \in 1 .. Len(segments)
      <3>1. more[k] = segments[k]
        BY <2>3, <1>2
      <3> QED BY <3>1, <2>1, <2>3, <1>7 DEF PacketsInOrder
    <2> QED BY <2>2, <2>3, <1>3
  <1>8. PacketsInOrder(more, sizes, newest)
    BY <1>6, <1>7 DEF PacketsInOrder
  <1> QED BY <1>8 DEF more

\* A packet that is written changes nothing of what was delivered.
LEMMA WriteKeepsDelivered ==
    ASSUME NEW sizes, NEW segments \in Seq(Segment), NEW segment \in Segment, NEW got,
           NEW taken \in SUBSET (1 .. Len(segments)),
           DeliveredFrom(got, segments, taken, sizes), DeliveredAll(got, segments, taken)
    PROVE  /\ DeliveredFrom(got, Append(segments, segment), taken, sizes)
           /\ DeliveredAll(got, Append(segments, segment), taken)
  <1> DEFINE more == Append(segments, segment)
  <1>1. \A k \in taken : more[k] = segments[k]
    OBVIOUS
  <1> HIDE DEF more
  <1>2. DeliveredFrom(got, more, taken, sizes)
    <2>1. ASSUME NEW i \in 1 .. Len(got)
          PROVE  \E k \in taken : \E x \in 1 .. Len(more[k].messages) :
                   Number(got[i]) = Number(more[k].messages[x])
      <3>1. PICK k \in taken : \E x \in 1 .. Len(segments[k].messages) :
                   Number(got[i]) = Number(segments[k].messages[x])
        BY Zenon DEF DeliveredFrom
      <3>2. more[k] = segments[k]
        BY <1>1
      <3> QED BY <3>1, <3>2
    <2>2. /\ \A i \in 1 .. Len(got) : Whole(got[i], sizes)
          /\ \A i, j \in 1 .. Len(got) : i < j => Number(got[i]) < Number(got[j])
      BY Zenon DEF DeliveredFrom
    <2> QED BY <2>1, <2>2, Zenon DEF DeliveredFrom
  <1>3. DeliveredAll(got, more, taken)
    <2> SUFFICES ASSUME NEW k \in taken, Len(more[k].messages) < CountModulus
                 PROVE  \E before \in 0 .. Len(got) - Len(more[k].messages) :
                          \A i \in 1 .. Len(more[k].messages) :
                            got[before + i] = more[k].messages[i]
      BY DEF DeliveredAll
    <2>1. more[k] = segments[k]
      BY <1>1
    <2> QED BY <2>1 DEF DeliveredAll
  <1> QED BY <1>2, <1>3 DEF more

\* A packet newer than all that were taken is taken: as many messages as its count
\* says are delivered.
LEMMA TakeKeepsDelivered ==
    ASSUME NEW sizes \in Seq(Nat \ {0}), NEW segments \in Seq(Segment), NEW older \in Int,
           PacketsInOrder(segments, sizes, older),
           NEW got \in Seq(Payload), NEW taken \in SUBSET (1 .. Len(segments)),
           DeliveredFrom(got, segments, taken, sizes), DeliveredAll(got, segments, taken),
           NEW k \in 1 .. Len(segments), \A j \in taken : j < k
    PROVE  LET now == got \o UnreliableRead(segments[k]) IN
           /\ now \in Seq(Payload)
           /\ DeliveredFrom(now, segments, taken \cup {k}, sizes)
           /\ DeliveredAll(now, segments, taken \cup {k})
  <1> DEFINE messages == segments[k].messages
             count == segments[k].message_count
             part == UnreliableRead(segments[k])
             now == got \o part
             all == taken \cup {k}
  <1>1. segments[k] \in Segment
    OBVIOUS
  <1>2. messages \in Seq(Payload) /\ Len(messages) \in Nat /\ count \in Nat
    BY <1>1, CountModulusIsPos DEF Segment
  <1>3. count = Len(messages) % CountModulus
    BY DEF PacketsInOrder
  <1>4. count <= Len(messages) /\ (Len(messages) < CountModulus => count = Len(messages))
    <2> DEFINE len == Len(messages)
    <2>1. len \in Nat /\ count = len % CountModulus
      BY <1>2, <1>3
    <2> HIDE DEF len, count
    <2>2. count <= len /\ (len < CountModulus => count = len)
      BY ONLY <2>1, CountModulusIsPos
    <2> QED BY <2>2 DEF len
  <1>5. /\ part \in Seq(Payload) /\ Len(part) = count
        /\ \A i \in 1 .. count : part[i] = messages[i]
    <2> HIDE DEF messages, count
    <2>1. part = SubSeq(messages, 1, count)
      BY DEF UnreliableRead, messages, count
    <2> HIDE DEF part
    <2> QED BY <2>1, <1>2, <1>4
  <1> HIDE DEF part
  <1>6. Len(got) \in Nat
    OBVIOUS
  <1>7. /\ now \in Seq(Payload) /\ Len(now) = Len(got) + count
        /\ \A i \in 1 .. Len(got) : now[i] = got[i]
        /\ \A i \in 1 .. count : now[Len(got) + i] = messages[i]
    <2> HIDE DEF messages, count
    <2>1. now \in Seq(Payload) /\ Len(now) = Len(got) + count
      BY ONLY got \in Seq(Payload), <1>5, ConcatProperties DEF now
    <2>2. \A i \in 1 .. Len(got) : now[i] = got[i]
      BY <1>5
    <2>3. ASSUME NEW i \in 1 .. count PROVE now[Len(got) + i] = messages[i]
      <3>1. Len(got) + i \in 1 .. Len(got) + Len(part) /\ Len(got) + i > Len(got)
            /\ (Len(got) + i) - Len(got) = i
        BY <1>2, <1>5, <1>6
      <3>2. now[Len(got) + i] = part[i]
        BY <3>1, <1>5
      <3> QED BY <3>2, <1>5
    <2> QED BY <2>1, <2>2, <2>3
  <1> HIDE DEF now
  <1>8. \A i \in 1 .. Len(now) :
          i \in 1 .. Len(got) \/ (i - Len(got) \in 1 .. count /\ Len(got) + (i - Len(got)) = i)
    <2> HIDE DEF count
    <2> QED BY <1>2, <1>6, <1>7
  <1>9. \A i \in 1 .. count : i \in 1 .. Len(messages)
    <2> HIDE DEF count, messages
    <2> QED BY <1>2, <1>4
  <1>10. \A i \in 1 .. count : Whole(messages[i], sizes)
    BY <1>9 DEF PacketsInOrder
  <1>11. \A i, j \in 1 .. count : i < j => Number(messages[i]) < Number(messages[j])
    BY <1>9 DEF PacketsInOrder
  <1>12. ASSUME NEW j \in taken, NEW x \in 1 .. Len(segments[j].messages),
                NEW y \in 1 .. count
         PROVE  Number(segments[j].messages[x]) < Number(messages[y])
    <2>1. j \in 1 .. Len(segments) /\ j < k
      OBVIOUS
    <2>2. y \in 1 .. Len(messages)
      BY <1>9
    <2> QED BY <2>1, <2>2 DEF PacketsInOrder
  <1>13. \A i \in 1 .. Len(got) :
           /\ Whole(got[i], sizes)
           /\ \E j \in taken : \E x \in 1 .. Len(segments[j].messages) :
                Number(got[i]) = Number(segments[j].messages[x])
    BY Zenon DEF DeliveredFrom
  <1>14. \A i, j \in 1 .. Len(got) : i < j => Number(got[i]) < Number(got[j])
    BY Zenon DEF DeliveredFrom
  <1>15. \A i \in 1 .. Len(got), y \in 1 .. count : Number(got[i]) < Number(messages[y])
    <2> SUFFICES ASSUME NEW i \in 1 .. Len(got), NEW y \in 1 .. count
                 PROVE  Number(got[i]) < Number(messages[y])
      OBVIOUS
    <2>1. PICK j \in taken : \E x \in 1 .. Len(segments[j].messages) :
                Number(got[i]) = Number(segments[j].messages[x])
      BY <1>13
    <2> HIDE DEF messages, count
    <2> QED BY <2>1, <1>12
  <1>16. DeliveredFrom(now, segments, all, sizes)
    <2>1. ASSUME NEW i \in 1 .. Len(now)
          PROVE  /\ Whole(now[i], sizes)
                 /\ \E j \in all : \E x \in 1 .. Len(segments[j].messages) :
                      Number(now[i]) = Number(segments[j].messages[x])
      <3>1. CASE i \in 1 .. Len(got)
        <4>1. now[i] = got[i]
          BY <3>1, <1>7
        <4>2. taken \subseteq all
          OBVIOUS
        <4> HIDE DEF all
        <4> QED BY <3>1, <4>1, <4>2, <1>13, Zenon
      <3>2. CASE i - Len(got) \in 1 .. count /\ Len(got) + (i - Len(got)) = i
        <4> DEFINE x == i - Len(got)
        <4>1. now[i] = messages[x] /\ x \in 1 .. Len(messages) /\ Whole(messages[x], sizes)
          BY <3>2, <1>7, <1>9, <1>10
        <4> HIDE DEF x
        <4>2. Number(now[i]) = Number(segments[k].messages[x])
              /\ x \in 1 .. Len(segments[k].messages) /\ k \in all
          BY <4>1
        <4> QED BY <4>1, <4>2, Zenon
      <3> QED BY <3>1, <3>2, <1>8
    <2>2. ASSUME NEW i \in 1 .. Len(now), NEW j \in 1 .. Len(now), i < j
          PROVE  Number(now[i]) < Number(now[j])
      <3> HIDE DEF messages, count
      <3>1. CASE j \in 1 .. Len(got)
        <4>1. i \in 1 .. Len(got)
          BY <3>1, <2>2, <1>6
        <4> QED BY <3>1, <4>1, <2>2, <1>7, <1>14
      <3>2. CASE j - Len(got) \in 1 .. count /\ Len(got) + (j - Len(got)) = j
        <4>1. now[j] = messages[j - Len(got)]
          BY <3>2, <1>7
        <4>2. CASE i \in 1 .. Len(got)
          <5>1. now[i] = got[i]
            BY <4>2, <1>7
          <5> QED BY <3>2, <4>1, <4>2, <5>1, <1>15
        <4>3. CASE i - Len(got) \in 1 .. count /\ Len(got) + (i - Len(got)) = i
          <5>1. now[i] = messages[i - Len(got)]
            BY <4>3, <1>7
          <5>2. i - Len(got) < j - Len(got)
            BY <2>2, <1>6, <1>7
          <5> QED BY <3>2, <4>1, <4>3, <5>1, <5>2, <1>11
        <4> QED BY <4>2, <4>3, <1>8
      <3> QED BY <3>1, <3>2, <1>8
    <2> HIDE DEF all
    <2> QED BY <2>1, <2>2, Zenon DEF DeliveredFrom
  <1>17. DeliveredAll(now, segments, all)
    <2> SUFFICES ASSUME NEW j \in all, Len(segments[j].messages) < CountModulus
                 PROVE  \E before \in 0 .. Len(now) - Len(segments[j].messages) :
                          \A i \in 1 .. Len(segments[j].messages) :
                            now[before + i] = segments[j].messages[i]
      BY DEF DeliveredAll
    <2>1. CASE j = k
      <3>1. count = Len(messages)
        BY <2>1, <1>4
      <3>2. Len(got) \in 0 .. Len(now) - Len(messages)
        <4> HIDE DEF messages, count
        <4> QED BY <3>1, <1>2, <1>6, <1>7
      <3>3. \A i \in 1 .. Len(messages) : now[Len(got) + i] = messages[i]
        <4> HIDE DEF messages, count
        <4> QED BY <3>1, <1>7
      <3> QED BY <2>1, <3>2, <3>3
    <2>2. CASE j \in taken
      <3> DEFINE theirs == segments[j].messages
      <3>1. PICK before \in 0 .. Len(got) - Len(theirs) :
              \A i \in 1 .. Len(theirs) : got[before + i] = theirs[i]
        BY <2>2 DEF DeliveredAll
      <3>2. Len(theirs) \in Nat
        <4>1. j \in 1 .. Len(segments)
          BY <2>2
        <4>2. segments[j] \in Segment
          BY <4>1
        <4> QED BY <4>2 DEF Segment
      <3> HIDE DEF theirs, count, messages
      <3>3. before \in 0 .. Len(now) - Len(theirs)
        BY <3>1, <3>2, <1>2, <1>6, <1>7
      <3>4. ASSUME NEW i \in 1 .. Len(theirs) PROVE now[before + i] = theirs[i]
        <4>1. before + i \in 1 .. Len(got)
          BY <3>1, <3>2, <1>6
        <4> QED BY <4>1, <3>1, <1>7
      <3> QED BY <3>3, <3>4 DEF theirs
    <2> QED BY <2>1, <2>2
  <1> QED BY <1>7, <1>16, <1>17 DEF now, part

-----------------------------------------------------------------------------
(* The invariant is preserved.                                               *)

LEMMA EndsAreTwo == A \in Ends /\ B \in Ends /\ Other(B) = A /\ Other(A) = B
  BY TwoHosts DEF Ends, Other

\* The types of what one direction keeps.
LEMMA TypesAt ==
    ASSUME TypeOK
    PROVE  /\ sent[A] \in Nat
           /\ accepted[A] \in SUBSET (Nat \ {0})
           /\ m_unreliable_buffer[A] \in Buffer
           /\ m_pending_messages[A] \in Seq(Span)
           /\ packets[A] \in Seq(Segment)
           /\ submitted[A] \in Seq(Nat \ {0})
           /\ delivered[B] \in Seq(Payload)
  BY EndsAreTwo DEF TypeOK, Segment

LEMMA InvInit ==
    ASSUME Init
    PROVE  UnreliableInv
  <1>1. UPeers = Ends /\ A \in Ends /\ B \in Ends
    BY EndsAreTwo, UnreliableLinkConstants
  <1>2. NewBuffer \in Buffer /\ NewBuffer.m_begin = 0 /\ NewBuffer.m_end = 0
    BY CapacityIsNat DEF NewBuffer, Buffer, NoByte
  <1>3. TypeOK
    <2>1. <<>> \in Seq(Fate) /\ <<>> \in Seq(Span) /\ <<>> \in Seq(Segment)
          /\ <<>> \in Seq(Nat \ {0}) /\ <<>> \in Seq(Payload)
      OBVIOUS
    <2> QED BY <1>1, <1>2, <2>1 DEF Init, ContractInit, UnreliableInit, TypeOK, Segment
  <1>4. /\ sent[A] = 0 /\ accepted[A] = {}
        /\ m_unreliable_buffer[A] = NewBuffer /\ m_pending_messages[A] = << >>
        /\ packets[A] = << >> /\ submitted[A] = << >> /\ delivered[B] = << >>
    BY <1>1 DEF Init, ContractInit, UnreliableInit
  <1>5. Intact(<< >>, NewBuffer, << >>)
    BY <1>2 DEF Intact
  <1>6. PacketsInOrder(<< >>, << >>, Len(<< >>) - Len(<< >>))
    BY DEF PacketsInOrder
  <1>7. DeliveredFrom(<< >>, << >>, {}, << >>)
    BY DEF DeliveredFrom
  <1>8. DeliveredAll(<< >>, << >>, {})
    BY DEF DeliveredAll
  <1>9. Len(<< >>) = 0 /\ {} \subseteq 1 .. 0
    OBVIOUS
  <1> QED BY <1>3, <1>4, <1>5, <1>6, <1>7, <1>8, <1>9 DEF UnreliableInv

LEMMA InvSend ==
    ASSUME UnreliableInv, NEW size \in 1 .. MaxSize, Send(A, size)
    PROVE  UnreliableInv'
  <1> DEFINE pending == m_pending_messages[A]
             buffer == m_unreliable_buffer[A]
             sizes == submitted[A]
             span == [begin |-> buffer.m_end, end |-> buffer.m_end + size]
             wrote == WriteAndAdvance(buffer, size, Len(sizes) + 1)
  <1>1. TypeOK
    BY DEF UnreliableInv
  <1>2. /\ buffer \in Buffer /\ pending \in Seq(Span) /\ sizes \in Seq(Nat \ {0})
        /\ Intact(pending, buffer, sizes)
    BY <1>1, TypesAt DEF UnreliableInv
  <1>3. size \in 1 .. Remaining(buffer) /\ size \in Nat \ {0}
    BY UnreliableLinkConstants DEF Send, UnreliableSend
  <1>4. /\ m_pending_messages' = [m_pending_messages EXCEPT ![A] = Append(@, span)]
        /\ m_unreliable_buffer' = [m_unreliable_buffer EXCEPT ![A] = wrote]
        /\ submitted' = [submitted EXCEPT ![A] = Append(@, size)]
        /\ UNCHANGED <<sent, accepted, reported, packets, delivered>>
    BY DEF Send, UnreliableSend, contractVars
  <1> HIDE DEF pending, buffer, sizes
  <1>5. span \in Span /\ wrote \in Buffer
        /\ Intact(Append(pending, span), wrote, Append(sizes, size))
    BY <1>2, <1>3, SendKeepsIntact
  <1> HIDE DEF span, wrote
  <1>6. Append(pending, span) \in Seq(Span) /\ Append(sizes, size) \in Seq(Nat \ {0})
        /\ Len(Append(pending, span)) = Len(pending) + 1
        /\ Len(Append(sizes, size)) = Len(sizes) + 1
        /\ Len(pending) \in Nat /\ Len(sizes) \in Nat
    BY <1>2, <1>3, <1>5
  <1>7. /\ m_pending_messages'[A] = Append(pending, span)
        /\ m_unreliable_buffer'[A] = wrote
        /\ submitted'[A] = Append(sizes, size)
    BY <1>1, <1>4, EndsAreTwo DEF TypeOK, pending, sizes
  <1>8. TypeOK'
    <2>1. m_pending_messages' \in [Ends -> Seq(Span)]
      BY <1>1, <1>4, <1>6 DEF TypeOK, pending
    <2>2. m_unreliable_buffer' \in [Ends -> Buffer]
      BY <1>1, <1>4, <1>5 DEF TypeOK
    <2>3. submitted' \in [Ends -> Seq(Nat \ {0})]
      BY <1>1, <1>4, <1>6 DEF TypeOK, sizes
    <2> QED BY <1>1, <1>4, <2>1, <2>2, <2>3 DEF TypeOK
  <1>9. Intact(pending, buffer, sizes)'
    BY <1>5, <1>7 DEF pending, buffer, sizes
  <1>10. Len(submitted'[A]) - Len(m_pending_messages'[A]) = Len(sizes) - Len(pending)
    BY <1>6, <1>7
  <1>11. /\ PacketsInOrder(packets[A], Append(sizes, size), Len(sizes) - Len(pending))
         /\ DeliveredFrom(delivered[B], packets[A], accepted[A], Append(sizes, size))
    <2>1. /\ PacketsInOrder(packets[A], sizes, Len(sizes) - Len(pending))
          /\ DeliveredFrom(delivered[B], packets[A], accepted[A], sizes)
      BY DEF UnreliableInv, sizes, pending
    <2> QED BY <2>1, <1>2, <1>3, SendKeepsPackets
  <1>12. /\ Len(packets[A]) = sent[A] /\ accepted[A] \subseteq 1 .. sent[A]
         /\ DeliveredAll(delivered[B], packets[A], accepted[A])
    BY DEF UnreliableInv
  <1> QED BY <1>4, <1>7, <1>8, <1>9, <1>10, <1>11, <1>12
          DEF UnreliableInv, pending, buffer, sizes

\* After a packet with n messages: nothing changes of what is pending if n = 0,
\* nothing is pending otherwise.
LEMMA InvWritePacket ==
    ASSUME UnreliableInv, NEW room \in MinRoom .. MaxRoom, WritePacket(A, room)
    PROVE  UnreliableInv'
  <1> DEFINE pending == m_pending_messages[A]
             buffer == m_unreliable_buffer[A]
             sizes == submitted[A]
             older == Len(sizes) - Len(pending)
  <1>1. TypeOK
    BY DEF UnreliableInv
  <1>2. /\ buffer \in Buffer /\ pending \in Seq(Span) /\ sizes \in Seq(Nat \ {0})
        /\ Intact(pending, buffer, sizes)
        /\ packets[A] \in Seq(Segment) /\ sent[A] \in Nat
    BY <1>1, TypesAt DEF UnreliableInv
  <1>3. PICK n \in 0 .. Len(pending) :
          /\ UnreliableWrite(A, room, n)
          /\ packets' = [packets EXCEPT ![A] = Append(@, USegmentToWrite(A, n))]
    BY DEF WritePacket
  <1>4. /\ sent' = [sent EXCEPT ![A] = @ + 1]
        /\ UNCHANGED <<accepted, reported, submitted, delivered>>
    BY DEF WritePacket, SendPacket
  <1> DEFINE segment == USegmentToWrite(A, n)
  <1>5. segment = [message_count |-> n % CountModulus,
                   messages |-> [i \in 1 .. n |->
                                   BytesAt(buffer, pending[i].begin, pending[i].end)]]
    BY DEF USegmentToWrite
  <1>6. \/ /\ n = 0
           /\ m_unreliable_buffer' = m_unreliable_buffer
           /\ m_pending_messages' = m_pending_messages
        \/ /\ n > 0
           /\ m_unreliable_buffer' = [m_unreliable_buffer EXCEPT
                ![A] = Flip(Consume(@, PayloadBytes(pending, n)))]
           /\ m_pending_messages' = [m_pending_messages EXCEPT ![A] = << >>]
    BY <1>3 DEF UnreliableWrite, unreliableVars
  <1> HIDE DEF pending, buffer, sizes, segment
  <1>7. /\ segment \in Segment
        /\ Len(segment.messages) = n
        /\ segment.message_count = n % CountModulus
        /\ \A i \in 1 .. n : /\ Whole(segment.messages[i], sizes)
                             /\ Number(segment.messages[i]) = older + i
    <2>1. /\ segment \in Segment
          /\ Len(segment.messages) = n
          /\ segment.message_count = n % CountModulus
          /\ \A i \in 1 .. n :
               /\ Whole(segment.messages[i], sizes)
               /\ Number(segment.messages[i]) = Len(sizes) - Len(pending) + i
      BY ONLY <1>2, <1>5, n \in 0 .. Len(pending), SegmentIsWhole
    <2> QED BY <2>1
  <1>8. Len(sizes) \in Nat /\ Len(pending) \in Nat /\ older \in Nat /\ n \in Nat
    <2>1. Len(sizes) \in Nat /\ Len(pending) \in Nat /\ n \in Nat
      BY <1>2
    <2> QED BY <2>1, <1>2 DEF Intact
  <1>9. /\ m_unreliable_buffer' \in [Ends -> Buffer]
         /\ m_pending_messages' \in [Ends -> Seq(Span)]
         /\ Intact(m_pending_messages'[A], m_unreliable_buffer'[A], sizes)
         /\ older + n <= Len(sizes) - Len(m_pending_messages'[A])
         /\ Len(sizes) - Len(m_pending_messages'[A]) \in Int
    <2>1. CASE n = 0 /\ m_unreliable_buffer' = m_unreliable_buffer
               /\ m_pending_messages' = m_pending_messages
      BY <2>1, <1>1, <1>2, <1>8 DEF TypeOK, pending, buffer
    <2>2. CASE /\ n > 0
               /\ m_unreliable_buffer' = [m_unreliable_buffer EXCEPT
                    ![A] = Flip(Consume(@, PayloadBytes(pending, n)))]
               /\ m_pending_messages' = [m_pending_messages EXCEPT ![A] = << >>]
      <3> DEFINE count == PayloadBytes(pending, n)
                 flipped == Flip(Consume(buffer, count))
      <3>1. n \in 1 .. Len(pending)
        BY <2>2, <1>8
      <3>2. count \in 0 .. buffer.m_end - buffer.m_begin /\ buffer.m_begin <= buffer.m_end
        BY <3>1, <1>2, ConsumesWhatIsUsed DEF Intact
      <3>3. m_unreliable_buffer' = [m_unreliable_buffer EXCEPT ![A] = flipped]
        BY <2>2 DEF buffer
      <3> HIDE DEF count
      <3>4. flipped \in Buffer /\ flipped.m_begin <= flipped.m_end
        BY <3>2, <1>2, FlipKeepsBuffer
      <3> HIDE DEF flipped
      <3>5. m_unreliable_buffer' \in [Ends -> Buffer] /\ m_unreliable_buffer'[A] = flipped
        BY <3>3, <3>4, <1>1, EndsAreTwo DEF TypeOK
      <3>6. << >> \in Seq(Span) /\ Len(<< >>) = 0
        OBVIOUS
      <3>7. m_pending_messages' \in [Ends -> Seq(Span)] /\ m_pending_messages'[A] = << >>
        BY <2>2, <3>6, <1>1, EndsAreTwo DEF TypeOK
      <3>8. Intact(<< >>, flipped, sizes)
        BY <3>4, <3>6, <1>8 DEF Intact
      <3>9. older + n <= Len(sizes) /\ Len(sizes) - 0 = Len(sizes)
        BY <3>1, <1>8
      <3> QED BY <3>5, <3>6, <3>7, <3>8, <3>9, <1>8
    <2> QED BY <1>6, <2>1, <2>2
  <1>10. packets' = [packets EXCEPT ![A] = Append(@, segment)]
    BY <1>3 DEF segment
  <1>11. packets'[A] = Append(packets[A], segment) /\ Append(packets[A], segment) \in Seq(Segment)
         /\ Len(Append(packets[A], segment)) = Len(packets[A]) + 1 /\ sent'[A] = sent[A] + 1
    BY <1>1, <1>2, <1>4, <1>7, <1>10, EndsAreTwo DEF TypeOK
  <1>12. TypeOK'
    <2>1. packets' \in [Ends -> Seq(Segment)]
      BY <1>1, <1>10, <1>11 DEF TypeOK, Segment
    <2>2. sent' \in [Ends -> Nat]
      <3>1. sent \in [Ends -> Nat] /\ sent[A] + 1 \in Nat
        BY <1>1, <1>2 DEF TypeOK
      <3> QED BY ONLY <3>1, <1>4
    <2> QED BY <1>1, <1>4, <1>9, <2>1, <2>2 DEF TypeOK, Segment
  <1>13. /\ Len(packets[A]) = sent[A] /\ accepted[A] \in SUBSET (1 .. Len(packets[A]))
         /\ PacketsInOrder(packets[A], sizes, older)
         /\ DeliveredFrom(delivered[B], packets[A], accepted[A], sizes)
         /\ DeliveredAll(delivered[B], packets[A], accepted[A])
    BY DEF UnreliableInv, sizes, pending
  <1> DEFINE newest == Len(sizes) - Len(m_pending_messages'[A])
  <1>14. PacketsInOrder(Append(packets[A], segment), sizes, newest)
    <2>1. newest \in Int /\ older + n <= newest
      BY ONLY <1>9
    <2>2. older \in Int
      BY ONLY <1>8
    <2> HIDE DEF newest, older
    <2> QED BY <2>1, <2>2, <1>2, <1>7, <1>8, <1>13, WriteKeepsPackets
  <1>15. /\ DeliveredFrom(delivered[B], Append(packets[A], segment), accepted[A], sizes)
         /\ DeliveredAll(delivered[B], Append(packets[A], segment), accepted[A])
    BY <1>2, <1>7, <1>13, WriteKeepsDelivered
  <1>16. accepted[A] \subseteq 1 .. sent[A] + 1
    BY <1>2, <1>13
  <1> QED BY <1>4, <1>9, <1>11, <1>12, <1>13, <1>14, <1>15, <1>16
          DEF UnreliableInv, sizes

LEMMA InvReceivePacket ==
    ASSUME UnreliableInv, NEW k \in 1 .. sent[A], ReceivePacket(B, k)
    PROVE  UnreliableInv'
  <1>1. TypeOK
    BY DEF UnreliableInv
  <1> DEFINE older == Len(submitted[A]) - Len(m_pending_messages[A])
             got == UnreliableRead(packets[A][k])
  <1>2. /\ \A j \in accepted[A] : j < k
        /\ reported' = [reported EXCEPT ![B] = @ \o << >>]
        /\ accepted' = [accepted EXCEPT ![A] = @ \cup {k}]
        /\ delivered' = [delivered EXCEPT ![B] = @ \o got]
        /\ UNCHANGED <<sent, m_unreliable_buffer, m_pending_messages, packets, submitted>>
    BY EndsAreTwo DEF ReceivePacket, Accept, Acceptable, Report, unreliableVars
  <1>3. /\ packets[A] \in Seq(Segment) /\ submitted[A] \in Seq(Nat \ {0})
        /\ delivered[B] \in Seq(Payload) /\ sent[A] \in Nat /\ older \in Int
    <2>1. m_pending_messages[A] \in Seq(Span) /\ submitted[A] \in Seq(Nat \ {0})
      BY <1>1, TypesAt
    <2>2. Len(submitted[A]) \in Int /\ Len(m_pending_messages[A]) \in Int
      BY <2>1
    <2> QED BY <1>1, <2>2, TypesAt
  <1>4. /\ Len(packets[A]) = sent[A] /\ accepted[A] \in SUBSET (1 .. Len(packets[A]))
        /\ PacketsInOrder(packets[A], submitted[A], older)
        /\ DeliveredFrom(delivered[B], packets[A], accepted[A], submitted[A])
        /\ DeliveredAll(delivered[B], packets[A], accepted[A])
    BY DEF UnreliableInv
  <1>5. /\ delivered[B] \o got \in Seq(Payload)
        /\ DeliveredFrom(delivered[B] \o got, packets[A], accepted[A] \cup {k}, submitted[A])
        /\ DeliveredAll(delivered[B] \o got, packets[A], accepted[A] \cup {k})
    <2> HIDE DEF older
    <2>1. k \in 1 .. Len(packets[A])
      BY <1>4
    <2> QED BY <2>1, <1>2, <1>3, <1>4, TakeKeepsDelivered
  <1> HIDE DEF got
  <1>6. /\ delivered'[B] = delivered[B] \o got
        /\ accepted'[A] = accepted[A] \cup {k}
        /\ accepted[A] \cup {k} \subseteq 1 .. sent[A]
    BY <1>1, <1>2, <1>4, EndsAreTwo DEF TypeOK
  <1>7. TypeOK'
    <2>1. reported' \in [Ends -> Seq(Fate)]
      <3>1. reported[B] \o << >> \in Seq(Fate)
        BY <1>1, EndsAreTwo DEF TypeOK
      <3> QED BY <3>1, <1>1, <1>2 DEF TypeOK
    <2>2. accepted' \in [Ends -> SUBSET (Nat \ {0})]
      <3>1. k \in Nat \ {0} /\ accepted[A] \in SUBSET (Nat \ {0})
        BY <1>1, <1>3, TypesAt
      <3> QED BY <3>1, <1>1, <1>2 DEF TypeOK
    <2>3. delivered' \in [Ends -> Seq(Payload)]
      BY <1>1, <1>2, <1>5 DEF TypeOK
    <2> QED BY <1>1, <1>2, <2>1, <2>2, <2>3 DEF TypeOK
  <1> QED BY <1>2, <1>4, <1>5, <1>6, <1>7 DEF UnreliableInv

LEMMA InvStep ==
    ASSUME UnreliableInv, [Next]_vars
    PROVE  UnreliableInv'
  <1>1. CASE \E size \in 1 .. MaxSize : Send(A, size)
    BY <1>1, InvSend
  <1>2. CASE \E room \in MinRoom .. MaxRoom : WritePacket(A, room)
    BY <1>2, InvWritePacket
  <1>3. CASE \E k \in 1 .. sent[A] : ReceivePacket(B, k)
    BY <1>3, InvReceivePacket
  <1>4. CASE UNCHANGED vars
    <2>1. UNCHANGED <<sent, accepted, reported, m_unreliable_buffer, m_pending_messages,
                      packets, submitted, delivered>>
      BY <1>4 DEF vars, contractVars, unreliableVars
    <2>2. TypeOK'
      BY <2>1 DEF UnreliableInv, TypeOK
    <2> QED BY <2>1, <2>2 DEF UnreliableInv
  <1> QED BY <1>1, <1>2, <1>3, <1>4 DEF Next

-----------------------------------------------------------------------------
(* The theorems.                                                             *)

\* The inductive invariant holds in every reachable state.
LEMMA InvAlways == Spec => []UnreliableInv
  <1>1. Init => UnreliableInv
    BY InvInit
  <1>2. UnreliableInv /\ [Next]_vars => UnreliableInv'
    BY InvStep
  <1> QED BY <1>1, <1>2, PTL DEF Spec

\* Every member of the unreliable streams keeps its type: FlipBuffer::advance and
\* consume never leave the buffer, whatever is sent and however much room the
\* packets have.
THEOREM TypeCorrect == Spec => []TypeOK
  <1>1. UnreliableInv => TypeOK
    BY DEF UnreliableInv
  <1> QED BY <1>1, InvAlways, PTL

\* The spans that UnreliableStream::write is going to read always hold the bytes of
\* the newest messages, although a flip does not adjust them.
THEOREM PendingIsIntact == Spec => []SpansIntact
  <1>1. UnreliableInv => SpansIntact
    <2> SUFFICES ASSUME UnreliableInv PROVE SpansIntact
      OBVIOUS
    <2>1. Intact(m_pending_messages[A], m_unreliable_buffer[A], submitted[A])
      BY DEF UnreliableInv
    <2> QED BY <2>1, Zenon DEF SpansIntact, Intact, IsMessage
  <1> QED BY <1>1, InvAlways, PTL

\* What the application gets from UnreliableStream::read are some of the messages
\* sent, each whole and at most once, in the order they were sent.
THEOREM ReceivesInOrder == Spec => []ReceivedInOrder
  <1>1. UnreliableInv => ReceivedInOrder
    <2> SUFFICES ASSUME UnreliableInv PROVE ReceivedInOrder
      OBVIOUS
    <2> DEFINE got == delivered[B]
               number == [i \in 1 .. Len(got) |-> Number(got[i])]
    <2> HIDE DEF got
    <2>1. DeliveredFrom(got, packets[A], accepted[A], submitted[A])
      BY DEF UnreliableInv, got
    <2>2. /\ \A i \in 1 .. Len(got) : Whole(got[i], submitted[A])
          /\ \A i, j \in 1 .. Len(got) : i < j => Number(got[i]) < Number(got[j])
      BY <2>1, Zenon DEF DeliveredFrom
    <2>3. number \in [1 .. Len(got) -> 1 .. Len(submitted[A])]
      BY <2>2 DEF Whole
    <2>4. \A i \in 1 .. Len(got) : number[i] = Number(got[i])
      OBVIOUS
    <2> HIDE DEF number
    <2>5. \A i \in 1 .. Len(got) : IsMessage(A, number[i], got[i])
      <3> SUFFICES ASSUME NEW i \in 1 .. Len(got) PROVE IsMessage(A, number[i], got[i])
        OBVIOUS
      <3>1. got[i] = [x \in 1 .. submitted[A][Number(got[i])] |-> Number(got[i])]
        BY <2>2, Zenon DEF Whole
      <3>2. number[i] = Number(got[i])
        BY <2>4
      <3> QED BY <3>1, <3>2 DEF IsMessage
    <2>6. \A i, j \in 1 .. Len(got) : i < j => number[i] < number[j]
      BY <2>2, <2>4
    <2> QED BY <2>3, <2>5, <2>6, Zenon DEF ReceivedInOrder, got
  <1> QED BY <1>1, InvAlways, PTL

\* A packet that arrives with fewer messages than its u8 count can say gives the
\* application all of them, one behind the other.
THEOREM PacketsAreDeliveredWhole == Spec => []WrittenIsDelivered
  <1>1. UnreliableInv => WrittenIsDelivered
    BY DEF UnreliableInv, DeliveredAll, WrittenIsDelivered
  <1> QED BY <1>1, InvAlways, PTL
=============================================================================
