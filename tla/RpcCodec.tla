----------------------------------- MODULE RpcCodec -----------------------------------
(***************************************************************************)
(* Values in the binary RPC protocol (RpcEncoder, RpcDecoder and the       *)
(* BinaryEncoder and BinaryDecoder below them).  A packet is a sequence of *)
(* bytes, in which those of a number that is a value stand for the number. *)
(* Each function has an overload for vectors of char and one for vectors   *)
(* of uint8_t; "chars" chooses where that makes a difference.              *)
(***************************************************************************)
EXTENDS Variables

TypeNumber == [tVoid |-> 0, tInteger |-> 1, tBoolean |-> 2, tString |-> 3, tFloat |-> 4, tBase64 |-> 17, tBinary |-> 208,
               tInteger64 |-> 209, tArray |-> 256, tStruct |-> 257]

\* Settings of the encoder and the decoder.
Options == [forceInteger64 : BOOLEAN, encodeVoid : BOOLEAN, setInteger32 : BOOLEAN, ansi : BOOLEAN, chars : BOOLEAN]

\* Names, abbreviated.
UNDEFINED == <<85, 78, 68>>
Authorization == <<65, 117>>
authorization == <<97, 117>>
----------------------------------------------------------------------------
(* BinaryEncoder.                                                          *)

Size4(n) == [i \in 1..4 |-> (n \div 256^(4 - i)) % 256]
encodeInteger(number) == [i \in 1..4 |-> number]
encodeInteger64(number) == [i \in 1..8 |-> number]
encodeString(s) == Size4(Len(s)) \o s
encodeBinary(s) == Size4(Len(s)) \o s
encodeBoolean(b) == <<IF b THEN 1 ELSE 0>>

\* A mantissa of 30 bits and an exponent; that it may be less exact in the ninth digit is left out.
encodeFloat(number) == [i \in 1..8 |-> number]
----------------------------------------------------------------------------
(* RpcEncoder.                                                             *)

encodeType(type) == Size4(TypeNumber[type])

encodeVoid(o) == IF o.encodeVoid THEN encodeType("tVoid") ELSE encodeType("tString") \o encodeString(<<>>)
encodeArray(values) == encodeType("tArray") \o Size4(Len(values)) \o FlattenSeq(values)
encodeStruct(members, values) ==
  LET name(i) == IF members[i].name = <<>> THEN UNDEFINED ELSE members[i].name
  IN  encodeType("tStruct") \o Size4(Len(members)) \o FlattenSeq([i \in DOMAIN members |-> encodeString(name(i)) \o values[i]])

RECURSIVE encodeVariable(_, _)
encodeVariable(v, o) ==
  CASE v.type = "tVoid" -> encodeVoid(o)
    [] v.type = "tInteger" -> IF o.forceInteger64 THEN encodeType("tInteger64") \o encodeInteger64(v.number)
                                                  ELSE encodeType("tInteger") \o encodeInteger(v.number)
    [] v.type = "tInteger64" -> encodeType("tInteger64") \o encodeInteger64(v.number)
    [] v.type = "tFloat" -> encodeType("tFloat") \o encodeFloat(v.number)
    [] v.type = "tBoolean" -> encodeType("tBoolean") \o encodeBoolean(v.boolean)
    [] v.type \in {"tString", "tBase64"} -> encodeType(v.type) \o encodeString(v.text)
    [] v.type = "tBinary" -> encodeType("tBinary") \o encodeBinary(v.bytes)
    [] v.type = "tStruct" -> encodeStruct(v.members, [i \in DOMAIN v.members |-> encodeVariable(v.members[i].value, o)])
    [] v.type = "tArray" -> encodeArray([i \in DOMAIN v.items |-> encodeVariable(v.items[i], o)])
    [] OTHER -> <<>>

\* The name of the caller, in front of which are the size of the header and the number of its fields.
encodeHeader(caller) ==
  LET fields == Size4(1) \o encodeString(Authorization) \o encodeString(caller)
  IN  IF caller = <<>> THEN <<>> ELSE Size4(Len(fields)) \o fields
WithHeader(byte) == IF byte < 64 THEN byte + 64 ELSE byte

\* An empty "header" is a header without a caller, which counts as one of four bytes.
Bin == <<66, 105, 110>>
encodeRequest(name, items, headers, o) ==
  LET header == IF headers = <<>> THEN <<>> ELSE encodeHeader(headers[1])
      headerSize == IF headers = <<>> THEN 0 ELSE IF header = <<>> THEN 4 ELSE Len(header)
      packet == Bin \o <<IF headers = <<>> THEN 0 ELSE 64>> \o header \o encodeString(name) \o Size4(Len(items))
                \o FlattenSeq([i \in DOMAIN items |-> encodeVariable(items[i], o)])
  IN  SubSeq(packet, 1, 4 + headerSize) \o Size4(Len(packet) - 4 - headerSize)
      \o SubSeq(packet, 5 + headerSize, Len(packet))
encodeResponse(v, o) ==
  LET data == encodeVariable(v, o)
  IN  Bin \o <<IF v.type = "tStruct" /\ v.errorStruct THEN 255 ELSE 1>> \o Size4(Len(data)) \o data
insertHeader(packet, caller) ==
  LET header == encodeHeader(caller)
  IN  IF header = <<>> THEN packet
      ELSE SubSeq(packet, 1, 3) \o <<WithHeader(packet[4])>> \o header \o SubSeq(packet, 5, Len(packet))
----------------------------------------------------------------------------
(* BinaryDecoder.  Each part returns the value and where it ends, or that  *)
(* an exception was thrown.                                                *)

Got(v, p) == [thrown |-> FALSE, value |-> v, at |-> p]
Thrown == [thrown |-> TRUE, value |-> Void, at |-> 0]
There(packet, p, size) == p + size <= Len(packet)

decodeSize(packet, p) ==
  IF There(packet, p, 4) THEN Got(FoldLeft(LAMBDA n, byte : n * 256 + byte, 0, SubSeq(packet, p + 1, p + 4)), p + 4)
  ELSE Thrown
decodeInteger(packet, p) == IF There(packet, p, 4) THEN Got(packet[p + 1], p + 4) ELSE Thrown
decodeInteger64(packet, p) == IF There(packet, p, 8) THEN Got(packet[p + 1], p + 8) ELSE Thrown
decodeBoolean(packet, p) == IF There(packet, p, 1) THEN Got(packet[p + 1] # 0, p + 1) ELSE Thrown
decodeString(packet, p, o) ==
  LET size == decodeSize(packet, p)
      bytes == SubSeq(packet, size.at + 1, size.at + size.value)
  IN  IF size.thrown THEN Thrown
      ELSE IF size.value = 0 THEN Got(<<>>, size.at)
      ELSE IF ~There(packet, size.at, size.value) THEN Thrown
      ELSE Got(IF o.ansi THEN toUtf8(bytes) ELSE bytes, size.at + size.value)
\* Mutant: converts as text.
BinaryAsText(packet, p) == decodeString(packet, p, [ansi |-> TRUE])
decodeBinary(packet, p) == decodeString(packet, p, [ansi |-> FALSE])

\* Rounded to nine digits, or nine places if the number is negative, for which log10() knows no digits.
decodeFloat(packet, p) ==
  LET number == packet[p + 1]
  IN  IF ~There(packet, p, 8) THEN Thrown
      ELSE Got(IF number.minus THEN RoundedAt(number, -9) ELSE Significant(number, 9), p + 8)
----------------------------------------------------------------------------
(* RpcDecoder.                                                             *)

decodeType(packet, p) == decodeSize(packet, p)

IsError(members) == Len(members) = 2 /\ Has(members, faultCode) /\ Has(members, faultString)

RECURSIVE decodeParameter(_, _, _), Items(_, _, _, _), Members(_, _, _, _)
Another(items, next) == IF next.thrown THEN Thrown ELSE Got(Append(items, next.value), next.at)
Items(packet, all, n, o) ==
  IF all.thrown \/ n = 0 THEN all
  ELSE Items(packet, Another(all.value, decodeParameter(packet, all.at, o)), n - 1, o)
decodeArray(packet, p, o) ==
  LET size == decodeSize(packet, p)
  IN  IF size.thrown THEN Thrown ELSE Items(packet, Got(<<>>, size.at), size.value, o)

Named(members, name, next) == IF next.thrown THEN Thrown ELSE Got(Insert(members, name, next.value), next.at)
AnotherMember(packet, members, name, o) ==
  IF name.thrown THEN Thrown ELSE Named(members, name.value, decodeParameter(packet, name.at, o))
Members(packet, all, n, o) ==
  IF all.thrown \/ n = 0 THEN all
  ELSE Members(packet, AnotherMember(packet, all.value, decodeString(packet, all.at, o), o), n - 1, o)
decodeStruct(packet, p, o) ==
  LET size == decodeSize(packet, p)
  IN  IF size.thrown THEN Thrown ELSE Members(packet, Got(<<>>, size.at), size.value, o)

OfType(type, r, o) ==
  CASE type \in {"tString", "tBase64"} -> [type |-> type, text |-> r.value]
    [] type \in {"tInteger", "tFloat"} -> [type |-> type, number |-> r.value]
    [] type = "tInteger64" -> [type |-> IF o.setInteger32 /\ Fits32(r.value) THEN "tInteger" ELSE type, number |-> r.value]
    [] type = "tBoolean" -> Boolean(r.value)
    [] type = "tBinary" -> Binary(r.value)
    [] type = "tArray" -> Array(r.value)
    [] type = "tStruct" -> [Struct(r.value) EXCEPT !.errorStruct = IsError(r.value)]

Content(packet, p, type, o) ==
  CASE type \in {"tString", "tBase64"} -> decodeString(packet, p, o)
    [] type = "tInteger" -> decodeInteger(packet, p)
    [] type = "tInteger64" -> decodeInteger64(packet, p)
    [] type = "tFloat" -> decodeFloat(packet, p)
    [] type = "tBoolean" -> decodeBoolean(packet, p)
    [] type = "tBinary" -> decodeBinary(packet, p)
    [] type = "tArray" -> decodeArray(packet, p, o)
    [] type = "tStruct" -> decodeStruct(packet, p, o)
Typed(type, r, o) == IF r.thrown THEN Thrown ELSE Got(OfType(type, r, o), r.at)
\* Other numbers stand for no value.
Numbered(packet, number, o) ==
  LET types == {t \in DOMAIN TypeNumber \ {"tVoid"} : TypeNumber[t] = number.value}
      type == CHOOSE t \in types : TRUE
  IN  IF number.thrown THEN Thrown
      ELSE IF types = {} THEN Got(Void, number.at)
      ELSE Typed(type, Content(packet, number.at, type, o), o)
decodeParameter(packet, p, o) == Numbered(packet, decodeType(packet, p), o)

Headed(packet) == packet[4] \in {64, 65}

\* The name of the caller, if there is one.
decodeHeader(packet) ==
  LET count == decodeSize(packet, 8)
      field == decodeString(packet, 12, [ansi |-> FALSE])
      lower == [i \in DOMAIN field.value |-> IF field.value[i] \in 65..90 THEN field.value[i] + 32 ELSE field.value[i]]
      value == decodeString(packet, field.at, [ansi |-> FALSE])
  IN  IF Headed(packet) /\ count.value = 1 /\ lower = authorization THEN value.value ELSE <<>>

\* The parameters behind the name of the method.
decodeRequest(packet, o) ==
  LET size == decodeSize(packet, 4)
      name == decodeString(packet, 8 + (IF Headed(packet) THEN size.value + 4 ELSE 0), o)
      count == decodeSize(packet, name.at)
  IN  IF name.thrown \/ count.thrown \/ count.value > 100 THEN Thrown
      ELSE Items(packet, Got(<<>>, count.at), count.value, o)

\* A char is never 255: that overload knows errors only by their members.
Coded(members) == Insert(Insert(members, faultCode, Integer(TRUE, <<1>>)), faultString, String(<<117>>))
Response(packet, r, o) ==
  IF r.thrown \/ o.chars \/ packet[4] # 255 \/ r.value.type # "tStruct" THEN r
  ELSE Got([r.value EXCEPT !.errorStruct = TRUE, !.members = Coded(r.value.members)], r.at)
decodeResponse(packet, o) == Response(packet, decodeParameter(packet, 8, o), o)
=======================================================================================
