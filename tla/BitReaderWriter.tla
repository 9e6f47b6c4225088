-------------------------------- MODULE BitReaderWriter --------------------------------
(***************************************************************************)
(* Reading and writing any number of bits at any position of a byte array  *)
(* (Encoding/BitReaderWriter.cpp).  Positions count bits from bit 7 of the *)
(* first byte on.  Bytes are 0 .. 255; the byte with index i in the code   *)
(* is element i + 1 of a sequence.                                         *)
(***************************************************************************)
EXTENDS Integers, Sequences, Bitwise, SequencesExt

\* uint8_t arithmetic.
Left(byte, count) == (byte * 2^count) % 256
Right(byte, count) == byte \div 2^count

Bytes(bits) == (bits + 7) \div 8
Zeros(n) == [i \in 1..n |-> 0]

\* The byte with this index, 0 outside of the array.
At(data, i) == IF i \in 0..Len(data) - 1 THEN data[i + 1] ELSE 0

\* The masks: the last bits of a byte, its first bits, and what is right of an end.
LowBits(byte, count) == byte % 2^count
KeepStart(byte, count) == byte - (byte % 2^(8 - count))
\* A mask that is one bit short.
KeepTooLittle(byte, end) == IF end = 0 THEN 0 ELSE byte % 2^(7 - end)
KeepEnd(byte, end) == IF end = 0 THEN 0 ELSE byte % 2^(8 - end)

(***************************************************************************)
(* By how much a byte is shifted to the right, or to the left by the rest  *)
(* of 8 bits, so that "size" bits end where they have to, and whether the  *)
(* first byte is one that is shared by two bytes of the other side.        *)
(***************************************************************************)
Shifts(size, bitPosition) ==
  LET difference == 8 - (size % 8) - bitPosition
      towardsLeft == size % 8 = 0 \/ difference < 0
      one == IF difference < 0 THEN -difference ELSE 8 - difference
      other == 8 - one
  IN  IF difference < 0 THEN [first |-> towardsLeft, major |-> one, minor |-> other]
      ELSE [first |-> towardsLeft, major |-> one, minor |-> IF difference = 8 THEN 0 ELSE difference]
----------------------------------------------------------------------------
(* Reading.                                                                *)

\* The byte of the source, the first one without the bits in front of the position.
SourceByte(data, position, k) ==
  LET byte == At(data, position \div 8 + k)
  IN  IF k = 0 THEN LowBits(byte, 8 - (position % 8)) ELSE byte

getPosition(data, position, size) ==
  LET bitPosition == position % 8
      relativeEnd == bitPosition + size
      s == Shifts(size, bitPosition)
      left == s.major
      right == s.minor
      byte(k) == SourceByte(data, position, k)
      target(t) == IF s.first /\ left > 0
                   THEN Left(byte(t), left) | Right(byte(t + 1), right)
                   ELSE IF t > 0 /\ left > 0 THEN Left(byte(t - 1), left) | Right(byte(t), right)
                                             ELSE Right(byte(t), right)
  IN  IF size > 0 /\ Bytes(relativeEnd) = 1 THEN <<Right(byte(0), 8 - relativeEnd)>>
      ELSE [i \in 1..Bytes(size) |-> target(i - 1)]

\* The number of up to "width" bits: getPosition8, getPosition16, getPosition32 and getPosition64.
getPositionNumber(width, data, position, requested) ==
  LET size == IF requested > width THEN width ELSE requested
      bitPosition == position % 8
      n == Bytes(bitPosition + size)
      rest == (8 - ((bitPosition + size) % 8)) % 8
      part(k) == IF k = n - 1 THEN Right(SourceByte(data, position, k), rest)
                 ELSE SourceByte(data, position, k) * 2^(size - (8 - bitPosition) - 8 * k)
  IN  IF size = 0 THEN 0
      ELSE FoldLeft(LAMBDA sum, k : sum + part(k - 1), 0, [k \in 1..n |-> k])
----------------------------------------------------------------------------
(* Writing.                                                                *)

\* The target, long enough, with zeros where the bits go.
Cleared(target, position, size) ==
  LET first == position \div 8
      end == (position % 8) + size
      last == first + Bytes(end) - 1
      byte(i) == IF first = last /\ i = first
                 THEN KeepStart(At(target, i), position % 8) + KeepEnd(At(target, i), end % 8)
                 ELSE CASE i = first -> KeepStart(At(target, i), position % 8)
                        [] i = last -> KeepEnd(At(target, i), end % 8)
                        [] i \in first + 1..last - 1 -> 0
                        [] OTHER -> At(target, i)
      length == IF Len(target) > last + 1 THEN Len(target) ELSE last + 1
  IN  [i \in 1..length |-> byte(i - 1)]

\* Write the given bytes, most significant one first.
Placed(position, size, target, source(_)) ==
  LET bitPosition == position % 8
      n == Bytes(size)
      s == Shifts(size, bitPosition)
      right == s.major
      left == s.minor
      byte(k) == CASE k = 0 -> IF size % 8 = 0 THEN source(0) ELSE LowBits(source(0), size % 8)
                   [] k \in 1..n - 1 -> source(k)
                   [] OTHER -> 0
      part(j) == IF s.first
                 THEN Right(byte(j), right) | (IF right > 0 THEN Left(byte(j - 1), left) ELSE 0)
                 ELSE Right(byte(j + 1), right) | Left(byte(j), left)
      cleared == Cleared(target, position, size)
      first == position \div 8
  IN  IF size = 0 THEN target
      ELSE [i \in 1..Len(cleared) |->
              IF i - 1 \in first..first + Bytes(bitPosition + size) - 1
              THEN cleared[i] | part(i - 1 - first) ELSE cleared[i]]

setPositionBE(position, size, target, source) ==
  LET offset == Len(source) - Bytes(size)
  IN  Placed(position, size, target, LAMBDA k : At(source, k + offset))

setPositionLE(position, size, target, source) ==
  Placed(position, size, target, LAMBDA k : At(source, Bytes(size) - 1 - k))
============================================================================
