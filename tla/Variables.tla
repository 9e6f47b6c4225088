----------------------------------- MODULE Variables -----------------------------------
(***************************************************************************)
(* Values of the RPC interfaces (Variable), the text of numbers and the    *)
(* character sets of strings (Math, Ansi).  A string is the sequence of    *)
(* its bytes.  A number is its sign, its decimal digits and the power of   *)
(* ten they are multiplied with: doubles have no more digits than they can *)
(* hold, and their binary rounding is left out.  Of the fields of a        *)
(* Variable only that of its type is kept, and a structure has its members *)
(* in the order of their names.                                            *)
(***************************************************************************)
EXTENDS Integers, Sequences, SequencesExt

Digit(byte) == byte \in 48..57
Zeros(n) == [i \in 1..n |-> 0]

\* Digits without zeros in front, and without zeros behind.
Plain(digits) == LET at == {i \in DOMAIN digits : digits[i] # 0}
                 IN  IF at = {} THEN <<>> ELSE SubSeq(digits, CHOOSE i \in at : \A j \in at : i <= j, Len(digits))
Short(digits) == Reverse(Plain(Reverse(digits)))

Number(minus, digits, exponent) ==
  [minus |-> minus /\ Plain(digits) # <<>>, digits |-> Plain(digits), exponent |-> exponent]
Shortened(minus, digits, short, exponent) ==
  Number(minus, short, IF short = <<>> THEN 0 ELSE exponent + Len(digits) - Len(short))
Decimal(minus, digits, exponent) == Shortened(minus, Plain(digits), Short(Plain(digits)), exponent)

Void == [type |-> "tVoid"]
Boolean(b) == [type |-> "tBoolean", boolean |-> b]
Integer(minus, digits) == [type |-> "tInteger", number |-> Number(minus, digits, 0)]
Integer64(minus, digits) == [type |-> "tInteger64", number |-> Number(minus, digits, 0)]
Float(minus, digits, exponent) == [type |-> "tFloat", number |-> Decimal(minus, digits, exponent)]
String(s) == [type |-> "tString", text |-> s]
Base64(s) == [type |-> "tBase64", text |-> s]
Binary(s) == [type |-> "tBinary", bytes |-> s]
Array(items) == [type |-> "tArray", items |-> items]
Struct(members) == [type |-> "tStruct", members |-> members, errorStruct |-> FALSE]

Scalar(v) == v.type \notin {"tArray", "tStruct"}

\* Byte by byte.
Precedes(a, b) == IF IsStrictPrefix(a, b) THEN TRUE
                  ELSE \E i \in DOMAIN a \cap DOMAIN b : a[i] < b[i] /\ \A j \in 1..(i - 1) : a[j] = b[j]

\* std::map::insert(): a name that is there keeps its value.
Insert(members, name, value) ==
  LET before == SelectSeq(members, LAMBDA m : Precedes(m.name, name))
  IN  IF \E i \in DOMAIN members : members[i].name = name THEN members
      ELSE before \o <<[name |-> name, value |-> value]>> \o SubSeq(members, Len(before) + 1, Len(members))
Has(members, name) == \E i \in DOMAIN members : members[i].name = name
Member(members, name) == members[CHOOSE i \in DOMAIN members : members[i].name = name].value

\* Names are abbreviated; their order is that of the code.
faultCode == <<102, 67>>
faultString == <<102, 83>>
retry == <<114, 116>>

createError(code, message, again) ==
  [Struct(Insert(Insert(Insert(<<>>, faultCode, code), faultString, String(message)), retry, Boolean(again)))
     EXCEPT !.errorStruct = TRUE]
----------------------------------------------------------------------------
(* Numbers.                                                                *)

\* a <= b for digits without zeros in front.
AtMost(a, b) == \/ Len(a) < Len(b) \/ a = b
                \/ Len(a) = Len(b) /\ Precedes(a, b)
Fits32(n) == AtMost(n.digits, IF n.minus THEN <<2,1,4,7,4,8,3,6,4,8>> ELSE <<2,1,4,7,4,8,3,6,4,7>>)

\* One more in the last digit.
Increment(digits) ==
  LET smaller == {i \in DOMAIN digits : digits[i] # 9}
      at == IF smaller = {} THEN 0 ELSE CHOOSE i \in smaller : \A j \in smaller : j <= i
  IN  (IF at = 0 THEN <<1>> ELSE [SubSeq(digits, 1, at) EXCEPT ![at] = @ + 1]) \o Zeros(Len(digits) - at)

\* A number with nothing after the power of ten "place".
Kept(digits, count) ==
  IF count < 0 THEN <<>>
  ELSE IF digits[count + 1] >= 5 THEN Increment(SubSeq(digits, 1, count)) ELSE SubSeq(digits, 1, count)
RoundedAt(n, place) ==
  IF n.exponent >= place THEN n
  ELSE Decimal(n.minus, Kept(n.digits, Len(n.digits) + n.exponent - place), place)
Significant(n, count) == RoundedAt(n, Len(n.digits) + n.exponent - count)

Written(digits) == [i \in DOMAIN digits |-> 48 + digits[i]]
Sign(n) == IF n.minus THEN <<45>> ELSE <<>>

\* std::to_string() of an integer.
IntegerText(n) == Sign(n) \o (IF n.digits = <<>> THEN <<48>> ELSE Written(n.digits \o Zeros(n.exponent)))

\* With this many places after the point.
Filled(digits, places) == IF Len(digits) > places THEN digits ELSE Zeros(places + 1 - Len(digits)) \o digits
Pointed(digits, places) ==
  Written(SubSeq(digits, 1, Len(digits) - places))
  \o (IF places = 0 THEN <<>> ELSE <<46>> \o Written(SubSeq(digits, Len(digits) - places + 1, Len(digits))))
Fixed(n, places) == Sign(n) \o Pointed(Filled(n.digits \o Zeros(places + n.exponent), places), places)
FixedText(n, places) == Fixed(RoundedAt(n, -places), places)

\* How a stream writes a double: six digits, with a power of ten when that is below -4 or above 5.
Power(n) == Len(n.digits) + n.exponent - 1
TwoDigits(size) == <<48 + (size \div 10), 48 + (size % 10)>>
PowerText(power) == <<101>> \o (IF power < 0 THEN <<45>> \o TwoDigits(-power) ELSE <<43>> \o TwoDigits(power))
Scientific(n) ==
  Sign(n) \o <<48 + Head(n.digits)>> \o (IF Len(n.digits) = 1 THEN <<>> ELSE <<46>> \o Written(Tail(n.digits)))
  \o PowerText(Power(n))
Streamed(n) ==
  IF n.digits = <<>> THEN <<48>>
  ELSE IF Power(n) \in -4..5 THEN FixedText(n, IF n.exponent < 0 THEN -n.exponent ELSE 0) ELSE Scientific(n)
StreamText(n) == Streamed(Significant(n, 6))

\* Math::toString(): three equal characters at the end are taken for noise, and one place is rounded away.
Places(s) == IF \E i \in DOMAIN s : s[i] = 46 THEN Len(s) - CHOOSE i \in DOMAIN s : s[i] = 46 ELSE 0
NoiseAtEnd(s) == Places(s) > 3 /\ s[Len(s)] = s[Len(s) - 1] /\ s[Len(s)] = s[Len(s) - 2]
Cleaned(n, s) == IF NoiseAtEnd(s) THEN StreamText(RoundedAt(n, 1 - Places(s))) ELSE s
ToText(n) == Cleaned(n, StreamText(n))

\* The digits from here on.
RECURSIVE DigitsAt(_, _)
DigitsAt(s, at) == IF at > Len(s) \/ ~Digit(s[at]) THEN <<>> ELSE <<s[at] - 48>> \o DigitsAt(s, at + 1)

\* std::stoll() and std::stod() of the whole text of a number.
getNumber64(s) ==
  LET minus == s # <<>> /\ s[1] = 45
  IN  Number(minus, DigitsAt(s, IF minus THEN 2 ELSE 1), 0)
----------------------------------------------------------------------------
(* Character sets.  UTF-16 units, -1 for what is no character.             *)

Length(byte) == CASE byte < 128 -> 1
                  [] byte \in 194..223 -> 2
                  [] byte \in 224..239 -> 3
                  [] byte \in 240..244 -> 4
                  [] OTHER -> 0
Units(code) == IF code < 65536 THEN <<code>>
               ELSE <<55296 + ((code - 65536) \div 1024), 56320 + ((code - 65536) % 1024)>>

\* wstring_convert::from_bytes(), which throws at what is no character.
RECURSIVE from_bytes(_)
from_bytes(s) ==
  LET n == Length(s[1])
      code == FoldLeft(LAMBDA c, byte : c * 64 + (byte % 64), IF n = 1 THEN s[1] ELSE s[1] % 2^(7 - n), SubSeq(s, 2, n))
  IN  IF s = <<>> THEN <<>>
      ELSE IF n = 0 \/ n > Len(s) \/ \E i \in 2..n : s[i] \notin 128..191 THEN <<-1>>
      ELSE Units(code) \o from_bytes(SubSeq(s, n + 1, Len(s)))

Utf8(code) ==
  LET low(n) == 128 + (n % 64)
  IN  CASE code < 128 -> <<code>>
        [] code \in 128..2047 -> <<192 + (code \div 64), low(code)>>
        [] code \in 2048..65535 -> <<224 + (code \div 4096), low(code \div 64), low(code)>>
        [] OTHER -> <<240 + (code \div 262144), low(code \div 4096), low(code \div 64), low(code)>>

\* Unicode of the bytes from 128 to 159; 0 where there is none.
Upper == <<8364, 0, 8218, 402, 8222, 8230, 8224, 8225, 710, 8240, 352, 8249, 338, 0, 381, 0,
           0, 8216, 8217, 8220, 8221, 8226, 8211, 8212, 732, 8482, 353, 8250, 339, 0, 382, 376>>
Lookup(byte) == IF byte \in 128..159 THEN IF Upper[byte - 127] = 0 THEN <<>> ELSE Utf8(Upper[byte - 127])
                ELSE Utf8(byte)

UpTo(s, byte) == LET at == {i \in DOMAIN s : s[i] = byte}
                 IN  IF at = {} THEN s ELSE SubSeq(s, 1, (CHOOSE i \in at : \A j \in at : i <= j) - 1)

\* Ansi::toUtf8() of a string; its overload with a length does not stop at a zero byte.
toUtf8(s) == FlattenSeq([i \in DOMAIN s |-> Lookup(s[i])])
toUtf8String(s) == toUtf8(UpTo(s, 0))

\* The lookup back; two characters share a byte.
Back(char) ==
  LET bytes == {b \in 128..255 : b # 135 /\ Lookup(b) = char}
  IN  IF char = Utf8(8225) THEN 134 ELSE IF bytes = {} THEN 63 ELSE CHOOSE b \in bytes : TRUE

RECURSIVE toAnsiFrom(_, _)
toAnsiFrom(s, out) ==
  LET byte == s[1]
      n == CASE byte < 128 -> 1
             [] byte \in 192..223 -> 2
             [] byte \in 224..239 -> 3
             [] byte \in 240..247 -> 4
             [] OTHER -> 0
  IN  IF s = <<>> THEN out
      ELSE IF byte = 0 \/ n > Len(s) THEN out
      ELSE IF n = 0 THEN <<>>
      ELSE toAnsiFrom(SubSeq(s, n + 1, Len(s)), Append(out, IF n = 1 THEN byte ELSE Back(SubSeq(s, 1, n))))
toAnsi(s) == toAnsiFrom(s, <<>>)
=========================================================================================
