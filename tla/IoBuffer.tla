------------------------------ MODULE IoBuffer ------------------------------
(***************************************************************************)
(* Big-endian numbers in a buffer of bytes (network/io_buffer.h).  A buffer *)
(* is a sequence; position idx of the code is its cell idx + 1.  A write    *)
(* returns the new buffer.                                                  *)
(***************************************************************************)
EXTENDS Integers, Sequences, SequencesExt

Byte == 0 .. 255

\* Widths of the unsigned types in bytes.
U8 == 1
U16 == 2
U32 == 4

\* Mutant: the upper bits are not masked off.
ByteOf_Unmasked(value, width, i) == value \div 256 ^ (width - 1 - i)

\* Byte i of a number, the most significant one first.
ByteOf(value, width, i) == (value \div 256 ^ (width - 1 - i)) % 256

WriteByteArray(buffer, data, idx) ==
    [p \in 1 .. Len(buffer) |->
        IF p - idx \in 1 .. Len(data) THEN data[p - idx] ELSE buffer[p]]

WriteUnsigned(buffer, width, value, idx) ==
    WriteByteArray(buffer, [i \in 1 .. width |-> ByteOf(value, width, i - 1)], idx)

ReadUnsigned(buffer, width, idx) ==
    FoldLeft(LAMBDA value, byte : 256 * value + byte, 0, SubSeq(buffer, idx + 1, idx + width))

\* The span of a buffer that has size bytes is cut at its end.
ReadByteArray(buffer, size, idx, length) ==
    SubSeq(buffer, idx + 1, idx + IF length < size - idx THEN length ELSE size - idx)

\* Bit i of a byte, the most significant one first.
BitOf(byte, i) == (byte \div 2 ^ (7 - i)) % 2

\* read_bits: the bits [lower_bound, upper_bound) of the buffer, from idx on.
ReadBits(buffer, idx, lower_bound, upper_bound) ==
    FoldLeft(LAMBDA result, bit : 2 * result + BitOf(buffer[idx + 1 + bit \div 8], bit % 8), 0,
             [i \in 1 .. upper_bound - lower_bound |-> lower_bound + i - 1])
=============================================================================
