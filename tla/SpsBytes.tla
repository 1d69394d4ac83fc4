------------------------------ MODULE SpsBytes ------------------------------
(***************************************************************************)
(* media/sps-parser/sps_parser.c: the bytes of a stream, in which the      *)
(* writer puts a 3 where two zero bytes could be taken for the beginning   *)
(* of the next unit, and the bits that bitstream_read_bits makes of them.  *)
(***************************************************************************)
EXTENDS Integers, Sequences

Byte == 0..255

NoBytes == [out |-> <<>>, zeroes |-> 0]

\* bitstream_read_bits, what it does at a new byte: a 3 after two zero bytes is
\* passed over, and the zeroes are counted from the byte that follows it
\* mutant: they are counted on
TakeByteCounting(b, byte) ==
    IF byte = 3 /\ b.zeroes = 2 THEN b
    ELSE [out |-> Append(b.out, byte), zeroes |-> IF byte = 0 THEN b.zeroes + 1 ELSE 0]
TakeByte(b, byte) ==
    IF byte = 3 /\ b.zeroes = 2 THEN [b EXCEPT !.zeroes = 0]
    ELSE [out |-> Append(b.out, byte), zeroes |-> IF byte = 0 THEN b.zeroes + 1 ELSE 0]

Taken(bytes) ==
    LET read[n \in 0..Len(bytes)] == IF n = 0 THEN NoBytes ELSE TakeByte(read[n - 1], bytes[n])
    IN  read[Len(bytes)]

\* the bits it delivers, from the left of each byte
Delivered(bytes) ==
    LET taken == Taken(bytes).out
    IN  [i \in 1..(8 * Len(taken)) |->
            (taken[(i - 1) \div 8 + 1] \div 2^(7 - ((i - 1) % 8))) % 2]

\* what the writer does: a byte of at most 3 after two zero bytes is preceded by a 3
PutByte(e, byte) ==
    IF e.zeroes = 2 /\ byte <= 3
    THEN [out |-> Append(Append(e.out, 3), byte), zeroes |-> IF byte = 0 THEN 1 ELSE 0]
    ELSE [out |-> Append(e.out, byte), zeroes |-> IF byte = 0 THEN e.zeroes + 1 ELSE 0]

Put(bytes) ==
    LET put[n \in 0..Len(bytes)] == IF n = 0 THEN NoBytes ELSE PutByte(put[n - 1], bytes[n])
    IN  put[Len(bytes)]

Escape(bytes) == Put(bytes).out

=============================================================================
