----------------------------- MODULE FlipBuffer -----------------------------
(***************************************************************************)
(* The byte buffer under both streams (common/flip_buffer.h): the bytes in  *)
(* [m_begin, m_end) are in use, the ones behind m_end are free, and flip    *)
(* moves the used ones to the front.  Positions count from 0 as in the      *)
(* code; position i is cell i + 1 of the sequence m_buffer.                 *)
(***************************************************************************)
EXTENDS Integers, Sequences

CONSTANT Capacity       \* bytes of a buffer: 3200 for the reliable stream

ASSUME CapacityIsNat == Capacity \in Nat

\* What a byte holds before anything is written to it.
NoByte == 0

NewBuffer == [m_begin |-> 0, m_end |-> 0,
              m_buffer |-> [i \in 1 .. Capacity |-> NoByte]]

\* Mutant: the span ends one byte behind the buffer.
Remaining_OneTooMany(b) == Capacity - b.m_end + 1

\* How many bytes remaining() offers.
Remaining(b) == Capacity - b.m_end

\* The bytes of the positions [begin, end).
BytesAt(b, begin, end) == [i \in 1 .. end - begin |-> b.m_buffer[begin + i]]

\* Mutant: the cells are copied, the end is not moved.
Flip_KeepsEnd(b) ==
    [b EXCEPT !.m_begin = 0,
              !.m_buffer = [i \in 1 .. Capacity |->
                               IF i <= b.m_end - b.m_begin
                               THEN b.m_buffer[b.m_begin + i] ELSE @[i]]]

\* The copy runs upwards and never reads a cell it has written.
Flip(b) ==
    [m_begin |-> 0,
     m_end |-> b.m_end - b.m_begin,
     m_buffer |-> [i \in 1 .. Capacity |->
                      IF i <= b.m_end - b.m_begin
                      THEN b.m_buffer[b.m_begin + i] ELSE b.m_buffer[i]]]

Consume(b, count) == [b EXCEPT !.m_begin = @ + count]

\* The caller writes count copies of byte behind m_end, then calls advance.
WriteAndAdvance(b, count, byte) ==
    [b EXCEPT !.m_end = @ + count,
              !.m_buffer = [i \in 1 .. Capacity |->
                               IF i \in b.m_end + 1 .. b.m_end + count
                               THEN byte ELSE @[i]]]
=============================================================================
