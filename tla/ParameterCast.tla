---------------------------------- MODULE ParameterCast ----------------------------------
(***************************************************************************)
(* The casts between the value of a variable and the number in a packet    *)
(* (DeviceDescription/ParameterCast.cpp): those between integers, decimals *)
(* and booleans.  A value is a record of the members of Variable that they *)
(* use.  A decimal is a number of thousandths (Unit); the rounding errors  *)
(* of double arithmetic are left out.  A cast is a record with its name    *)
(* and its settings; the casts of strings, arrays and binary data are not  *)
(* modelled.                                                               *)
(***************************************************************************)
EXTENDS Integers, Sequences, Bitwise

Unit == 1000

\* std::lround of a / b.
Rounded(a, b) ==
  LET sign == IF (a < 0) = (b < 0) THEN 1 ELSE -1
      x == IF a < 0 THEN -a ELSE a
      y == IF b < 0 THEN -b ELSE b
  IN  sign * ((2 * x + y) \div (2 * y))

Integer(n) == [integerValue |-> n, floatValue |-> n * Unit, booleanValue |-> n # 0]
Decimal(d) == [integerValue |-> Rounded(d, Unit), floatValue |-> d, booleanValue |-> d # 0]
Boolean(b) == [integerValue |-> IF b THEN 1 ELSE 0, floatValue |-> 0, booleanValue |-> b]

\* What most of the casts leave behind.
AsInteger(v, n) == [v EXCEPT !.integerValue = n]
ToInteger(v, n) == [v EXCEPT !.integerValue = n, !.floatValue = 0]
ToDecimal(v, d) == [v EXCEPT !.integerValue = 0, !.floatValue = d]

Shift(n, bits) == n * 2^bits
Field(n, start, size) == (n \div 2^start) % 2^size
----------------------------------------------------------------------------
(* Scales and offsets.                                                     *)

DecimalIntegerScaleFrom(c, v) == ToDecimal(v, Rounded(v.integerValue * Unit, c.factor) - c.offset)
DecimalIntegerScaleTo(c, v) == ToInteger(v, Rounded((v.floatValue + c.offset) * c.factor, Unit))

\* A division by zero gives an infinite double.
Infinite == 2147483647
DecimalIntegerInverseScaleFrom(c, v) ==
  ToDecimal(v, IF v.integerValue = 0 THEN Infinite ELSE Rounded(c.factor * Unit, v.integerValue))
DecimalIntegerInverseScaleTo(c, v) == ToInteger(v, Rounded(c.factor * Unit, v.floatValue))

IntegerIntegerScaleFrom(c, v) ==
  AsInteger(v, (IF c.operation = "division" THEN v.integerValue * c.factor
                ELSE Rounded(v.integerValue, c.factor)) - c.offset)
IntegerIntegerScaleTo(c, v) ==
  AsInteger(v, IF c.operation = "multiplication" THEN (v.integerValue + c.offset) * c.factor
               ELSE Rounded(v.integerValue + c.offset, c.factor))

\* The same for IntegerOffset and DecimalOffset.
Offset(c, x, add) == IF ~c.addOffset THEN c.offset - x ELSE IF add THEN x + c.offset ELSE x - c.offset
IntegerOffsetFrom(c, v) == AsInteger(v, Offset(c, v.integerValue, ~c.directionToPacket))
IntegerOffsetTo(c, v) == AsInteger(v, Offset(c, v.integerValue, c.directionToPacket))
DecimalOffsetFrom(c, v) == [v EXCEPT !.floatValue = Offset(c, @, ~c.directionToPacket)]
DecimalOffsetTo(c, v) == [v EXCEPT !.floatValue = Offset(c, @, c.directionToPacket)]
----------------------------------------------------------------------------
(* Maps and booleans.  c.pairs has a pair <<physical, logical>> for every  *)
(* entry; a later entry replaces an earlier one with the same key.         *)

Lookup(pairs, key, value, x) ==
  LET entries == {i \in DOMAIN pairs : pairs[i][key] = x}
  IN  IF entries = {} THEN x ELSE pairs[CHOOSE i \in entries : \A j \in entries : j <= i][value]

IntegerIntegerMapFrom(c, v) ==
  AsInteger(v, IF c.direction \in {"fromDevice", "both"} THEN Lookup(c.pairs, 1, 2, v.integerValue) ELSE v.integerValue)
IntegerIntegerMapTo(c, v) ==
  AsInteger(v, IF c.direction \in {"toDevice", "both"} THEN Lookup(c.pairs, 2, 1, v.integerValue) ELSE v.integerValue)
OptionIntegerFrom(c, v) == AsInteger(v, Lookup(c.pairs, 1, 2, v.integerValue))
OptionIntegerTo(c, v) == AsInteger(v, Lookup(c.pairs, 2, 1, v.integerValue))

\* Without the two values a threshold decides; with them the value keeps what it was otherwise.
BooleanIntegerFrom(c, v) ==
  LET n == v.integerValue
      value == IF c.trueValue = 0 /\ c.falseValue = 0 THEN n >= c.threshold
               ELSE n # c.falseValue /\ (n = c.trueValue \/ n >= c.threshold \/ v.booleanValue)
  IN  [v EXCEPT !.booleanValue = value # c.invert, !.integerValue = 0]
BooleanDecimalFrom(c, v) ==
  LET d == v.floatValue
      value == IF c.trueValue = 0 /\ c.falseValue = 0 THEN d >= c.threshold
               ELSE d = c.trueValue \/ d >= c.threshold \/ (d # c.falseValue /\ v.booleanValue)
  IN  [v EXCEPT !.booleanValue = value # c.invert, !.integerValue = 0]

\* "one" is what TRUE is worth if no value is given.
BooleanValue(c, v, one) ==
  LET value == v.booleanValue # c.invert
  IN  IF c.trueValue = 0 /\ c.falseValue = 0 THEN IF value THEN one ELSE 0
      ELSE IF value THEN c.trueValue ELSE c.falseValue
BooleanIntegerTo(c, v) == [v EXCEPT !.integerValue = BooleanValue(c, v, 1), !.booleanValue = FALSE]
BooleanDecimalTo(c, v) == [v EXCEPT !.floatValue = BooleanValue(c, v, Unit), !.booleanValue = FALSE]
----------------------------------------------------------------------------
(* Numbers with a factor or an exponent.                                   *)

\* The factors of the five bit numbers, in thousandths: 0.1, 1, 5, 10, 60, 300, 600 and 3600.
TimeFactors == <<100, 1000, 5000, 10000, 60000, 300000, 600000, 3600000>>

\* The first factor that leaves a number of at most five bits, or the last one.
TimeFactor(d) ==
  LET enough == {i \in DOMAIN TimeFactors : d <= 31 * TimeFactors[i]} \cup {Len(TimeFactors)}
  IN  CHOOSE i \in enough : \A j \in enough : i <= j

\* Descriptions that bring their own factors and number of bits are left out.
DecimalConfigTimeFrom(v) ==
  LET byte == v.integerValue % 256
  IN  ToDecimal(v, (byte % 32) * TimeFactors[byte \div 32 + 1])
\* Index and number are joined by "or": a number of more than five bits runs into the index.
DecimalConfigTimeTo(v) ==
  LET d == IF v.floatValue < 0 THEN 0 ELSE v.floatValue
      index == TimeFactor(d)
  IN  ToInteger(v, ((32 * (index - 1)) | Rounded(d, TimeFactors[index])) % 256)

IntegerTinyFloatFrom(c, v) ==
  LET mantissa == IF c.mantissaSize = 0 THEN 1 ELSE Field(v.integerValue, c.mantissaStart, c.mantissaSize)
  IN  AsInteger(v, mantissa * 2^Field(v.integerValue, c.exponentStart, c.exponentSize))
IntegerTinyFloatTo(c, v) ==
  LET maxMantissa == 2^c.mantissaSize - 1
      maxExponent == 2^c.exponentSize - 1
      small(e) == v.integerValue \div 2^e < maxMantissa
      halvings == IF maxMantissa = 0 THEN 0
                  ELSE CHOOSE e \in 0..31 : small(e) /\ \A f \in 0..e - 1 : ~small(f)
      mantissa == v.integerValue \div 2^halvings
      Least(a, b) == IF a < b THEN a ELSE b
  IN  AsInteger(v, Shift(Least(mantissa, maxMantissa), c.mantissaStart)
                   + Shift(Least(halvings, maxExponent), c.exponentStart))
----------------------------------------------------------------------------
(* The others.  "p" is the parameter the cast belongs to.                  *)

\* The mirror image in the range of the logical type.
InvertBoth(p, v) ==
  LET mirrored(x) == p.maximumValue - (x - p.minimumValue)
  IN  CASE p.logical = "tBoolean" -> [v EXCEPT !.booleanValue = ~@]
        [] p.logical = "tInteger" -> [v EXCEPT !.integerValue = mirrored(@)]
        [] p.logical = "tFloat" -> [v EXCEPT !.floatValue = mirrored(@)]
        [] OTHER -> v

\* To a number of decimal places or a half.
RoundBoth(c, v) ==
  LET step == IF c.roundToPoint5 THEN Unit \div 2 ELSE 10^(3 - c.decimalPlaces)
  IN  [v EXCEPT !.floatValue = Rounded(@, step) * step]

BlindTestBoth(c, v) == AsInteger(v, c.value)

fromPacket(p, c, v) ==
  CASE c.name = "decimalIntegerScale" -> DecimalIntegerScaleFrom(c, v)
    [] c.name = "decimalIntegerInverseScale" -> DecimalIntegerInverseScaleFrom(c, v)
    [] c.name = "integerIntegerScale" -> IntegerIntegerScaleFrom(c, v)
    [] c.name = "integerOffset" -> IntegerOffsetFrom(c, v)
    [] c.name = "decimalOffset" -> DecimalOffsetFrom(c, v)
    [] c.name = "integerIntegerMap" -> IntegerIntegerMapFrom(c, v)
    [] c.name = "optionInteger" -> OptionIntegerFrom(c, v)
    [] c.name = "booleanInteger" -> BooleanIntegerFrom(c, v)
    [] c.name = "booleanDecimal" -> BooleanDecimalFrom(c, v)
    [] c.name = "decimalConfigTime" -> DecimalConfigTimeFrom(v)
    [] c.name = "integerTinyFloat" -> IntegerTinyFloatFrom(c, v)
    [] c.name = "invert" -> InvertBoth(p, v)
    [] c.name = "round" -> RoundBoth(c, v)
    [] c.name = "blindTest" -> BlindTestBoth(c, v)
    [] OTHER -> v      \* toggle, generic

toPacket(p, c, v) ==
  CASE c.name = "decimalIntegerScale" -> DecimalIntegerScaleTo(c, v)
    [] c.name = "decimalIntegerInverseScale" -> DecimalIntegerInverseScaleTo(c, v)
    [] c.name = "integerIntegerScale" -> IntegerIntegerScaleTo(c, v)
    [] c.name = "integerOffset" -> IntegerOffsetTo(c, v)
    [] c.name = "decimalOffset" -> DecimalOffsetTo(c, v)
    [] c.name = "integerIntegerMap" -> IntegerIntegerMapTo(c, v)
    [] c.name = "optionInteger" -> OptionIntegerTo(c, v)
    [] c.name = "booleanInteger" -> BooleanIntegerTo(c, v)
    [] c.name = "booleanDecimal" -> BooleanDecimalTo(c, v)
    [] c.name = "decimalConfigTime" -> DecimalConfigTimeTo(v)
    [] c.name = "integerTinyFloat" -> IntegerTinyFloatTo(c, v)
    [] c.name = "invert" -> InvertBoth(p, v)
    [] c.name = "round" -> RoundBoth(c, v)
    [] c.name = "blindTest" -> BlindTestBoth(c, v)
    [] OTHER -> v
=========================================================================================
