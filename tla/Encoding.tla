------------------------------ MODULE Encoding ------------------------------
(***************************************************************************)
(* The integers and strings of an MQTT packet, as MQTTPacket.c writes and  *)
(* reads them.  A buffer is a sequence of bytes; a reader answers with the *)
(* value and the rest of the buffer.  The bases are constants so that the  *)
(* boundaries of the encodings can be reached with small numbers: a digit  *)
(* of a length never reaches 128, the flag of a digit that is not the last. *)
(***************************************************************************)
EXTENDS Integers, Sequences

CONSTANTS LengthBase,    \* 128: the base of a variable byte integer
          ByteBase       \* 256: the base of the other integers

More == 128              \* the flag of a digit that is not the last
MaxLengthBytes == 4      \* MAX_NO_OF_REMAINING_LENGTH_BYTES

After(b, n) == SubSeq(b, n + 1, Len(b))

-----------------------------------------------------------------------------
(* Variable byte integers. *)

RECURSIVE encode(_)
encode(length) ==
  LET d == length % LengthBase
      q == length \div LengthBase
  IN  IF q = 0 THEN <<d>> ELSE <<More + d>> \o encode(q)

\* Mutant: a length of exactly LengthBase is thought to fit in one byte.
VBIlenOffByOne(n) ==
  IF n <= LengthBase THEN 1
  ELSE IF n < LengthBase^2 THEN 2
  ELSE IF n < LengthBase^3 THEN 3 ELSE 4

VBIlen(n) ==
  IF n < LengthBase THEN 1
  ELSE IF n < LengthBase^2 THEN 2
  ELSE IF n < LengthBase^3 THEN 3 ELSE 4

\* MQTTPacket_VBIdecode from a buffer, with n bytes read so far.
RECURSIVE VBIfrom(_, _, _, _)
VBIfrom(b, n, value, multiplier) ==
  IF n = MaxLengthBytes THEN [v |-> value, len |-> n + 1]
  ELSE LET v == value + (b[n + 1] % More) * multiplier
       IN  IF b[n + 1] >= More THEN VBIfrom(b, n + 1, v, multiplier * LengthBase)
           ELSE [v |-> v, len |-> n + 1]

decodeBuf(b) ==
  LET r == VBIfrom(b, 0, 0, 1) IN [v |-> r.v, len |-> r.len, rest |-> After(b, r.len)]

-----------------------------------------------------------------------------
(* Two bytes, four bytes. *)

writeInt(n) == <<(n \div ByteBase) % ByteBase, n % ByteBase>>

readInt(b) == [v |-> ByteBase * b[1] + b[2], rest |-> After(b, 2)]

\* C's / and % round to zero; a char keeps the low byte.
Quot(a, b) == IF a >= 0 THEN a \div b ELSE -((-a) \div b)
Rem(a, b)  == a - b * Quot(a, b)
Char(n)    == n % ByteBase

\* writeInt4 takes an int: an unsigned value from 2^31 on arrives negative.
writeInt4(n) ==
  LET a == IF n < ByteBase^4 \div 2 THEN n ELSE n - ByteBase^4
      b == Rem(a, ByteBase^3)
      c == Rem(b, ByteBase^2)
  IN  <<Char(Quot(a, ByteBase^3)), Char(Quot(b, ByteBase^2)), Char(Quot(c, ByteBase)),
        Char(Rem(c, ByteBase))>>

\* readInt4 computes in an int, which wraps, and is stored in an unsigned.
readInt4(b) ==
  [v |-> (ByteBase^3 * b[1] + ByteBase^2 * b[2] + ByteBase * b[3] + b[4]) % ByteBase^4,
   rest |-> After(b, 4)]

-----------------------------------------------------------------------------
(* Length-delimited data: writeUTF, writeData and writeMQTTLenString. *)

writeData(data) == writeInt(Len(data)) \o data

\* readUTFlen: NULL if the length goes beyond the end.
readUTF(b) ==
  IF Len(b) <= 1 THEN [null |-> TRUE, v |-> <<>>, rest |-> b]
  ELSE LET n == readInt(b)
       IN  IF n.v <= Len(n.rest)
           THEN [null |-> FALSE, v |-> SubSeq(n.rest, 1, n.v), rest |-> After(n.rest, n.v)]
           ELSE [null |-> TRUE, v |-> <<>>, rest |-> n.rest]

\* What nothing was stored in: no string and no list.
Uninitialised == "uninitialised"

\* MQTTLenStringRead: the data stay as they are if the length goes beyond the
\* end, and no bytes are counted, though those of the length are taken.
LenStringRead(b) ==
  LET n == readInt(b)
  IN  IF Len(b) <= 1 THEN [v |-> Uninitialised, rest |-> b, len |-> 0]
      ELSE IF n.v > Len(n.rest) THEN [v |-> Uninitialised, rest |-> n.rest, len |-> 0]
      ELSE [v |-> SubSeq(n.rest, 1, n.v), rest |-> After(n.rest, n.v), len |-> 2 + n.v]
=============================================================================
