------------------------------------ MODULE Parameter ------------------------------------
(***************************************************************************)
(* From a value to the bytes of a packet and back                          *)
(* (DeviceDescription/Parameter.cpp).  A parameter is a record of its      *)
(* description: the type "logical", minimumValue, maximumValue,            *)
(* defaultValue and specialValues (thousandths if it is a decimal), the    *)
(* sequence casts, isSigned, its physical size as bytes and bits, little   *)
(* (endianness), and of its role invert and scale: <<>> or                 *)
(* <<valueMin, valueMax, scaleMin, scaleMax>>.                             *)
(*                                                                         *)
(* Strings, actions and binary data have branches of their own, which are  *)
(* left out, as is the physical size of four bytes and more.               *)
(***************************************************************************)
EXTENDS ParameterFile

\* HelperFunctions::memcpyBigEndian: leading zeros are not written.
ToBytes(n) ==
  LET length == CASE n < 256 -> 1 [] n \in 256..65535 -> 2 [] OTHER -> 3
  IN  [i \in 1..length |-> (n \div 256^(length - i)) % 256]
FromBytes(data) == FoldLeft(LAMBDA n, byte : n * 256 + byte, 0, data)

\* What the two conversions use of a parameter as it was loaded, with its only role that is no group.
Conversion(p) ==
  LET role == IF DOMAIN p.roles = {} THEN Role ELSE p.roles[CHOOSE id \in DOMAIN p.roles : id % 100 # 0]
      limits == IF "minimumValue" \in DOMAIN p.logical THEN p.logical ELSE [minimumValue |-> 0, maximumValue |-> 0]
      special == IF "specialValues" \in DOMAIN p.logical THEN Range(p.logical.specialValues) ELSE {}
  IN  [logical |-> p.logical.type, minimumValue |-> limits.minimumValue, maximumValue |-> limits.maximumValue,
       defaultValue |-> p.logical.defaultValue, specialValues |-> special, casts |-> p.casts,
       isSigned |-> p.properties.isSigned, bytes |-> p.physical.size \div Unit,
       bits |-> (p.physical.size % Unit) \div 100, little |-> p.physical.endianess = "little", invert |-> role.invert,
       scale |-> IF role.scale THEN <<role.valueMin, role.valueMax, role.scaleMin, role.scaleMax>> ELSE <<>>]

\* Double the byte size, but at least one: std::ceil of the size.
ByteSize(p) == p.bytes + (IF p.bits > 0 THEN 1 ELSE 0)
BitSize(p) == 8 * p.bytes + p.bits

reverseData(p, data) ==
  [i \in 1..ByteSize(p) |-> IF i <= Len(data) THEN data[Len(data) + 1 - i] ELSE 0]

InOrder(p, data) == IF p.little THEN reverseData(p, data) ELSE data
----------------------------------------------------------------------------
(* The range of the logical type and the role.                             *)

Clamped(p, x) ==
  IF x > p.maximumValue THEN p.maximumValue ELSE IF x < p.minimumValue THEN p.minimumValue ELSE x

Mirrored(p, x) == p.minimumValue + ((p.maximumValue - p.minimumValue) - (x - p.minimumValue))

\* Math::scale.
Scaled(x, from, to, span) == span[to] + Rounded((x - span[from]) * (span[to + 1] - span[to]), span[from + 1] - span[from])
ToScale(p, x) == IF p.scale = <<>> THEN x ELSE Scaled(x, 1, 3, p.scale)
FromScale(p, x) == IF p.scale = <<>> THEN x ELSE Scaled(x, 3, 1, p.scale)

InvertedOut(p, x) == IF p.invert THEN Mirrored(p, x) ELSE x
\* Integers from zero to at most two are inverted like a boolean, in this direction only.
InvertedIn(p, x) ==
  IF ~p.invert THEN x
  ELSE IF p.logical = "tInteger" /\ p.minimumValue = 0 /\ p.maximumValue <= 2 THEN IF x # 0 THEN 0 ELSE 1
  ELSE Mirrored(p, x)

\* The special values are looked up by floatValue for integers too.
Special(p, v) ==
  CASE p.logical = "tFloat" -> v.floatValue = p.defaultValue \/ v.floatValue \in p.specialValues
    [] p.logical = "tInteger" -> v.integerValue = p.defaultValue \/ v.floatValue \in {s * Unit : s \in p.specialValues}
    [] OTHER -> FALSE

\* The number the range and the role are about.
OnNumber(p, v, f(_)) ==
  IF p.logical = "tFloat" THEN [v EXCEPT !.floatValue = f(@)] ELSE [v EXCEPT !.integerValue = f(@)]

BoundedIn(p, v) ==
  IF p.logical = "tBoolean" THEN [v EXCEPT !.booleanValue = @ # p.invert]
  ELSE IF Special(p, v) THEN v
  ELSE OnNumber(p, v, LAMBDA x : ToScale(p, InvertedIn(p, Clamped(p, x))))

BoundedOut(p, v) ==
  IF p.logical = "tBoolean" THEN [v EXCEPT !.booleanValue = @ # p.invert]
  ELSE IF Special(p, v) THEN v
  ELSE OnNumber(p, v, LAMBDA x : InvertedOut(p, FromScale(p, Clamped(p, x))))

\* A value of another type than that of the variable.
Adopted(p, v) ==
  CASE p.logical = "tFloat" /\ v.floatValue = 0 -> [v EXCEPT !.floatValue = v.integerValue * Unit]
    [] p.logical = "tInteger" /\ v.integerValue = 0 -> [v EXCEPT !.integerValue = v.floatValue \div Unit]
    [] p.logical = "tBoolean" -> [v EXCEPT !.booleanValue = @ \/ v.integerValue # 0 \/ v.floatValue # 0]
    [] OTHER -> v
----------------------------------------------------------------------------
(* The two conversions.                                                    *)

\* The number in the packet, negative if it is signed and its first bit is set.
Signed(p, data) ==
  LET n == FromBytes(data)
      negative == p.isSigned /\ Len(data) = ByteSize(p) /\ Field(n, BitSize(p) - 1, 1) = 1
  IN  [Integer(n) EXCEPT !.integerValue = IF negative THEN n - 2^BitSize(p) ELSE n]

convertFromPacket(p, data) ==
  LET n == FromBytes(InOrder(p, data))
      cast == FoldRight(LAMBDA c, v : fromPacket(p, c, v), p.casts, Signed(p, InOrder(p, data)))
  IN  CASE p.logical = "tEnum" /\ p.casts = <<>> -> Integer(ToScale(p, InvertedIn(p, n)))
        [] p.logical = "tBoolean" /\ p.casts = <<>> -> Boolean(p.invert = (n = 0))
        [] OTHER -> BoundedIn(p, cast)

\* Crop to the size, most importantly for negative numbers.
Cropped(p, n) == n % 2^BitSize(p)

convertToPacket(p, value) ==
  LET bounded == BoundedOut(p, Adopted(p, value))
      cast == IF p.casts = <<>> /\ p.logical = "tBoolean" THEN Boolean(bounded.booleanValue)
              ELSE FoldLeft(LAMBDA v, c : toPacket(p, c, v), bounded, p.casts)
  IN  InOrder(p, ToBytes(Cropped(p, cast.integerValue)))

\* The member of Variable that holds the value of this type.
LogicalValue(p, v) ==
  CASE p.logical = "tFloat" -> v.floatValue
    [] p.logical = "tBoolean" -> v.booleanValue
    [] OTHER -> v.integerValue
ToVariable(p, x) ==
  CASE p.logical = "tFloat" -> Decimal(x)
    [] p.logical = "tBoolean" -> Boolean(x)
    [] OTHER -> Integer(x)
===========================================================================================
