----------------------------------- MODULE JsonCodec -----------------------------------
(***************************************************************************)
(* Values as JSON (JsonEncoder, JsonDecoder).  A text is a sequence of     *)
(* bytes in which the words true, false and null and an escape \uXXXX are  *)
(* one element each.  The encoder has an overload that writes to a stream  *)
(* and one that writes to a vector; the decoder's overloads are alike.     *)
(***************************************************************************)
EXTENDS Variables

true == -1
false == -2
null == -3
Unit(u) == 65536 + u
IsUnit(e) == e >= 65536

\* Names and texts of requests and responses, abbreviated; their order is that of the code.
error == <<101>>
id == <<105>>
jsonrpc == <<106>>
method == <<109>>
params == <<112>>
result == <<114>>
code == <<99>>
message == <<109>>
Version == String(<<50, 46, 48>>)
----------------------------------------------------------------------------
(* The encoder.                                                            *)

\* What is no UTF-8 is converted character by character, and a byte that is none is taken for ANSI.
RECURSIVE ByteByByte(_)
ByteByByte(s) ==
  LET n == CASE s[1] < 128 -> 1
             [] s[1] \in 192..223 -> 2
             [] s[1] \in 224..239 -> 3
             [] s[1] \in 240..247 -> 4
             [] OTHER -> 0
      valid == n > 0 /\ n <= Len(s) /\ \A i \in 2..n : s[i] \in 128..191
      utf8 == IF valid THEN SubSeq(s, 1, n) ELSE toUtf8String(<<s[1]>>)
  IN  IF s = <<>> THEN <<>>
      ELSE from_bytes(utf8) \o ByteByByte(SubSeq(s, (IF valid THEN n ELSE 1) + 1, Len(s)))

Characters(s, units) == IF \E i \in DOMAIN units : units[i] = -1 THEN ByteByByte(s) ELSE units
Utf16(s) == Characters(s, from_bytes(s))

Escaped(c) ==
  CASE c \in {34, 92} -> <<92, c>>
    [] c = 8 -> <<92, 98>>
    [] c = 9 -> <<92, 116>>
    [] c = 10 -> <<92, 110>>
    [] c = 12 -> <<92, 102>>
    [] c = 13 -> <<92, 114>>
    [] c \in (0..31 \ {8, 9, 10, 12, 13}) \cup 128..65535 -> <<Unit(c)>>
    [] OTHER -> <<c>>

\* encodeString() of a name, and of a value to either kind of output.
AllEscaped(units) == FlattenSeq([i \in DOMAIN units |-> Escaped(units[i])])
encodeName(s) == AllEscaped(Utf16(s))
encodeStringStream(s) == <<34>> \o encodeName(s) \o <<34>>
encodeStringVector(s) == <<34>> \o encodeName(s) \o <<34>>
encodeString(s, stream) == IF stream THEN encodeStringStream(s) ELSE encodeStringVector(s)

encodeBoolean(b) == <<IF b THEN true ELSE false>>
encodeInteger(n) == IntegerText(n)
encodeFloat(n, stream) == IF stream THEN FixedText(n, 15) ELSE ToText(n)
encodeVoid == <<null>>

\* "0x" and two hexadecimal digits for each byte.
Hex(n) == IF n < 10 THEN 48 + n ELSE 55 + n
HexString(bytes) == FlattenSeq([i \in DOMAIN bytes |-> <<Hex(bytes[i] \div 16), Hex(bytes[i] % 16)>>])
encodeBinaryValue(bytes) == <<34, 48, 120>> \o HexString(bytes) \o <<34>>

Separated(texts) == FlattenSeq([i \in DOMAIN texts |-> (IF i = 1 THEN <<>> ELSE <<44>>) \o texts[i]])
encodeArray(texts) == <<91>> \o Separated(texts) \o <<93>>

\* The first name is written as it is.
Named(members, i, text) ==
  <<34>> \o (IF i = 1 THEN members[i].name ELSE encodeName(members[i].name)) \o <<34, 58>> \o text
encodeStruct(members, texts) ==
  <<123>> \o Separated([i \in DOMAIN members |-> Named(members, i, texts[i])]) \o <<125>>

RECURSIVE encodeValue(_, _)
encodeValue(v, stream) ==
  CASE v.type = "tArray" -> encodeArray([i \in DOMAIN v.items |-> encodeValue(v.items[i], stream)])
    [] v.type = "tStruct" -> encodeStruct(v.members, [i \in DOMAIN v.members |-> encodeValue(v.members[i].value, stream)])
    [] v.type = "tBoolean" -> encodeBoolean(v.boolean)
    [] v.type \in {"tInteger", "tInteger64"} -> encodeInteger(v.number)
    [] v.type = "tFloat" -> encodeFloat(v.number, stream)
    [] v.type \in {"tString", "tBase64"} -> encodeString(v.text, stream)
    [] v.type = "tBinary" -> encodeBinaryValue(v.bytes)
    [] v.type \in {"tVoid", "tVariant"} -> encodeVoid

encode(v, stream) == IF Scalar(v) THEN <<91>> \o encodeValue(v, stream) \o <<93>> ELSE encodeValue(v, stream)

Built(pairs) == Struct(FoldLeft(LAMBDA m, p : Insert(m, p[1], p[2]), <<>>, pairs))

\* The overload for a list of parameters, and that for one value.
encodeRequestList(name, items, number) ==
  encode(Built(<< <<jsonrpc, Version>>, <<method, String(name)>>, <<params, Array(items)>>, <<id, number>> >>), FALSE)
encodeRequest(name, v, number) ==
  encode(Built(<< <<jsonrpc, Version>>, <<method, String(name)>>,
                  <<params, IF Scalar(v) THEN Array(<<v>>) ELSE v>>, <<id, number>> >>), FALSE)

Outcome(v) ==
  IF v.type = "tStruct" /\ v.errorStruct
  THEN <<error, Built(<< <<code, Member(v.members, faultCode)>>, <<message, Member(v.members, faultString)>> >>)>>
  ELSE <<result, v>>
encodeResponse(v, number) == encode(Built(<< <<jsonrpc, Version>>, Outcome(v), <<id, number>> >>), FALSE)
encodeMQTTResponse(name, v, number) == encode(Built(<< <<method, String(name)>>, Outcome(v), <<id, number>> >>), FALSE)
----------------------------------------------------------------------------
(* The decoder.  Each part returns where it stopped, and "thrown" for an   *)
(* exception or "invalid" for what is no value.                            *)

At(t, p) == IF p <= Len(t) THEN t[p] ELSE 0
Valid(t, p) == p <= Len(t)
Got(v, p) == [outcome |-> "value", value |-> v, at |-> p]
Failed(outcome) == [outcome |-> outcome, value |-> Void, at |-> 0]

\* Blanks, and one comment.
RECURSIVE While(_, _, _)
While(t, p, bytes) == IF At(t, p) \in bytes THEN While(t, p + 1, bytes) ELSE p
skipWhitespace(t, p) ==
  LET q == While(t, p, {32, 10, 13, 9})
      lineEnds == {i \in q + 2..Len(t) : t[i] \in {10, 13}}
  IN  IF At(t, q) # 47 \/ At(t, q + 1) # 47 THEN q
      ELSE IF lineEnds = {} THEN Len(t) + 1 ELSE CHOOSE i \in lineEnds : \A j \in lineEnds : i <= j

\* An escape that begins at p and where it ends; a character of two units needs a second escape.
Surrogate(u) == u \in 55296..56319
\* Mutant: without the characters of one unit in front.
JoinedLow(high, low) == (high - 55296) * 1024 + (low - 56320)
Joined(high, low) == 65536 + (high - 55296) * 1024 + (low - 56320)
Unescaped(t, p) ==
  LET u == t[p] - 65536
      next == At(t, p + 1)
  IN  CASE ~IsUnit(t[p]) -> [text |-> <<CASE t[p + 1] = 98 -> 8 [] t[p + 1] = 102 -> 12 [] t[p + 1] = 110 -> 10
                                          [] t[p + 1] = 114 -> 13 [] t[p + 1] = 116 -> 9 [] OTHER -> t[p + 1]>>, at |-> p + 2]
        [] IsUnit(t[p]) /\ (u = 0 \/ u \in 56320..57343) -> [text |-> <<>>, at |-> p + 1]
        [] Surrogate(u) -> IF IsUnit(next) THEN [text |-> Utf8(Joined(u, next - 65536)), at |-> p + 2]
                                           ELSE [text |-> <<>>, at |-> 0]
        [] OTHER -> [text |-> Utf8(u), at |-> p + 1]

\* decodeString() of a value, from behind its quotation mark.
RECURSIVE StringFrom(_, _, _)
StringFrom(t, p, s) ==
  IF ~Valid(t, p) THEN Failed("thrown")
  ELSE IF t[p] = 34 THEN Got(String(s), p + 1)
  ELSE IF IsUnit(t[p]) \/ t[p] = 92
  THEN IF t[p] = 92 /\ ~Valid(t, p + 1) THEN Failed("thrown")
       ELSE LET e == Unescaped(t, p) IN IF e.at = 0 THEN Failed("thrown") ELSE StringFrom(t, e.at, s \o e.text)
  ELSE StringFrom(t, p + 1, Append(s, t[p]))
decodeString(t, p) == StringFrom(t, IF At(t, p) = 34 THEN p + 1 ELSE p, <<>>)

\* decodeString() of a whole text that is no value.
RECURSIVE PlainFrom(_, _, _)
PlainFrom(t, p, s) ==
  IF ~Valid(t, p) \/ (t[p] = 92 /\ ~Valid(t, p + 1)) THEN Got(String(s), p)
  ELSE IF IsUnit(t[p]) \/ t[p] = 92
  THEN LET e == Unescaped(t, p)
       IN  IF e.at > 0 THEN PlainFrom(t, e.at, s \o e.text)
           ELSE IF Valid(t, p + 1) THEN Failed("thrown") ELSE Got(String(s), p + 1)
  ELSE PlainFrom(t, p + 1, Append(s, t[p]))
decodePlain(t) == PlainFrom(t, 1, <<>>)

decodeBoolean(t, p) == Got(Boolean(t[p] = true), p + 1)
decodeNull(p) == Got(Void, p + 1)

\* The sign, the digits before the point, those behind it and the power of ten.
Parts(t, p) ==
  LET first == p + (IF At(t, p) \in {43, 45} THEN 1 ELSE 0)
      whole == IF At(t, first) = 48 THEN <<0>> ELSE DigitsAt(t, first)
      point == first + Len(whole)
      places == IF At(t, point) = 46 THEN DigitsAt(t, point + 1) ELSE <<>>
      e == IF At(t, point) = 46 THEN point + 1 + Len(places) ELSE point
      power == IF At(t, e + 1) \in {43, 45} THEN e + 2 ELSE e + 1
      hasPower == At(t, e) \in {69, 101}
  IN  [minus |-> At(t, p) = 45, whole |-> whole, decimal |-> At(t, point) = 46, places |-> places,
       power |-> IF hasPower THEN DigitsAt(t, power) ELSE <<>>, powerMinus |-> At(t, e + 1) = 45,
       incomplete |-> hasPower /\ ~Valid(t, power),
       at |-> IF hasPower THEN power + Len(DigitsAt(t, power)) ELSE e]

\* Integers that a 64 bit number might not hold become doubles; the power of ten counts for doubles only.
ManyDigits == <<9,2,2,3,3,7,2,0,3,6,8,5,4,7,7,5,8,0,0>>
Exponent(n) ==
  LET size == FoldLeft(LAMBDA sum, d : sum * 10 + d, 0, n.power)
  IN  (IF n.powerMinus THEN -size ELSE size) - Len(n.places)
Bounded(power) == IF power < -308 THEN -308 ELSE IF power > 308 THEN 308 ELSE power
NumberOf(n) ==
  IF n.whole = <<>> \/ n.incomplete THEN Failed("invalid")
  ELSE IF n.decimal \/ AtMost(ManyDigits, n.whole) THEN Got(Float(n.minus, n.whole \o n.places, Bounded(Exponent(n))), n.at)
  ELSE Got(IF Fits32(Number(n.minus, n.whole, 0)) THEN Integer(n.minus, n.whole) ELSE Integer64(n.minus, n.whole), n.at)
decodeNumber(t, p) == NumberOf(Parts(t, p))

\* Another element follows, or the end.
Separator(t, q, end) ==
  LET r == skipWhitespace(t, q + 1)
  IN  IF At(t, q) = 44 /\ Valid(t, r) THEN [more |-> TRUE, at |-> r, ends |-> FALSE]
      ELSE [more |-> FALSE, at |-> q + 1, ends |-> At(t, q) = end]

\* The start of an array or an object: behind the bracket and blanks.
Opened(t, p) == skipWhitespace(t, p + 1)

RECURSIVE decodeValue(_, _), Items(_, _, _), Members(_, _, _)
AfterItem(t, s, items) ==
  IF s.more THEN Items(t, s.at, items) ELSE IF s.ends THEN Got(Array(items), s.at) ELSE Failed("thrown")
Item(t, v, items) ==
  IF v.outcome # "value" THEN Failed("thrown")
  ELSE AfterItem(t, Separator(t, skipWhitespace(t, v.at), 93), Append(items, v.value))
Items(t, p, items) == Item(t, decodeValue(t, p), items)
decodeArray(t, p) ==
  LET q == Opened(t, p)
  IN  IF ~Valid(t, q) THEN Failed("thrown") ELSE IF t[q] = 93 THEN Got(Array(<<>>), q + 1) ELSE Items(t, q, <<>>)

AfterMember(t, s, members) ==
  IF s.more THEN Members(t, s.at, members) ELSE IF s.ends THEN Got(Struct(members), s.at) ELSE Failed("thrown")
MemberValue(t, name, v, members) ==
  IF v.outcome # "value" THEN Failed("thrown")
  ELSE AfterMember(t, Separator(t, skipWhitespace(t, v.at), 125), Insert(members, name, v.value))

\* A name without a colon stands for no value.
NamedMember(t, name, colon, members) ==
  IF name.outcome # "value" THEN Failed("thrown")
  ELSE IF At(t, colon) = 58
  THEN MemberValue(t, name.value.text, decodeValue(t, skipWhitespace(t, colon + 1)), members)
  ELSE AfterMember(t, Separator(t, colon, 125), Insert(members, name.value.text, Void))
FromName(t, name, members) == NamedMember(t, name, skipWhitespace(t, name.at), members)
Members(t, p, members) == IF t[p] = 34 THEN FromName(t, decodeString(t, p), members) ELSE Failed("thrown")
decodeObject(t, p) ==
  LET q == Opened(t, p)
  IN  IF ~Valid(t, q) THEN Failed("thrown") ELSE IF t[q] = 125 THEN Got(Struct(<<>>), q + 1) ELSE Members(t, q, <<>>)

decodeValue(t, p) ==
  CASE At(t, p) = null -> decodeNull(p)
    [] At(t, p) \in {true, false} -> decodeBoolean(t, p)
    [] At(t, p) = 34 -> decodeString(t, p)
    [] At(t, p) = 123 -> decodeObject(t, p)
    [] At(t, p) = 91 -> decodeArray(t, p)
    [] OTHER -> decodeNumber(t, p)

\* A text that is no value is a string; with the overload that counts the bytes it is an exception.
Decoded(t, v, counting) ==
  IF v.outcome = "invalid" THEN IF counting THEN Failed("thrown") ELSE decodePlain(t) ELSE v
decode(t, counting) ==
  IF Valid(t, skipWhitespace(t, 1)) THEN Decoded(t, decodeValue(t, skipWhitespace(t, 1)), counting) ELSE Got(Void, 1)
=========================================================================================
