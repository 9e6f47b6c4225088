----------------------------------- MODULE Encodings -----------------------------------
(***************************************************************************)
(* What a value is after one side has encoded it and the other decoded it. *)
(* The calls are those of clients and servers outside of the library, and  *)
(* so is what they take from a JSON message.  A way is a message of one of *)
(* the encodings and the options of both sides.                            *)
(***************************************************************************)
EXTENDS Variables

Json == INSTANCE JsonCodec
Xml == INSTANCE XmlrpcCodec
Rpc == INSTANCE RpcCodec

Ways(options) ==
  [codec : {"json"}, kind : {"stream", "vector", "list", "request", "response", "mqtt"}]
  \cup [codec : {"xml"}, kind : {"request", "response"}]
  \cup [codec : {"rpc"}, kind : {"request", "named", "response"}, o : options]
  \cup {[codec |-> "ansi"]}

Heard(v) == [thrown |-> FALSE, value |-> v]
NotHeard == [thrown |-> TRUE, value |-> Void]

\* The name of the method and the number of the request.
Method == <<115>>
RequestId == Integer(FALSE, <<1>>)

JsonText(kind, v) ==
  CASE kind = "list" -> Json!encodeRequestList(Method, <<v>>, RequestId)
    [] kind = "request" -> Json!encodeRequest(Method, v, RequestId)
    [] kind = "response" -> Json!encodeResponse(v, RequestId)
    [] kind = "mqtt" -> Json!encodeMQTTResponse(Method, v, RequestId)
    [] OTHER -> Json!encode(v, kind = "stream")
JsonTaken(kind, v) ==
  CASE kind \in {"list", "request"} -> Member(v.members, Json!params)
    [] kind \in {"response", "mqtt"} -> Member(v.members, IF Has(v.members, Json!error) THEN Json!error ELSE Json!result)
    [] OTHER -> v
JsonHeard(kind, r) == IF r.outcome = "thrown" THEN NotHeard ELSE Heard(JsonTaken(kind, r.value))
JsonRelay(kind, v) == JsonHeard(kind, Json!decode(JsonText(kind, v), kind = "response"))

XmlRelay(kind, v) ==
  Heard(IF kind = "request" THEN Array(Xml!decodeRequest(Xml!Parsed(Xml!encodeRequest(Method, <<v>>))))
        ELSE Xml!decodeResponse(Xml!Parsed(Xml!encodeResponse(v))))

RpcPacket(kind, v, o) ==
  CASE kind = "request" -> Rpc!encodeRequest(Method, <<v>>, <<>>, o)
    [] kind = "named" -> Rpc!encodeRequest(Method, <<v>>, <<Method>>, o)
    [] OTHER -> Rpc!encodeResponse(v, o)
RpcHeard(kind, r) ==
  IF r.thrown THEN NotHeard ELSE Heard(IF kind = "response" THEN r.value ELSE Array(r.value))
RpcRelay(kind, v, o) ==
  RpcHeard(kind, IF kind = "response" THEN Rpc!decodeResponse(RpcPacket(kind, v, o), o)
                                      ELSE Rpc!decodeRequest(RpcPacket(kind, v, o), o))

\* A text in the other character set and back.
AnsiRelay(v) == Heard(String(toAnsi(toUtf8String(v.text))))

Relay(way, v) ==
  CASE way.codec = "json" -> JsonRelay(way.kind, v)
    [] way.codec = "xml" -> XmlRelay(way.kind, v)
    [] way.codec = "rpc" -> RpcRelay(way.kind, v, way.o)
    [] OTHER -> AnsiRelay(v)

\* Only texts have a character set.
Fits(way, v) == way.codec = "ansi" => v.type = "tString"
----------------------------------------------------------------------------
(* Which values come through unchanged.                                    *)

Noisy(n) == LET d == n.digits
                k == Len(d)
            IN  n.exponent < -3 /\ k > 2 /\ d[k] = d[k - 1] /\ d[k] = d[k - 2]
SixDigits(n) == Len(n.digits) <= 6 /\ ~Noisy(n)

\* A double without a point in its text becomes an integer.
JsonFloat(n, stream) ==
  IF stream THEN n.exponent >= -15
  ELSE /\ SixDigits(n) /\ n.digits # <<>>
       /\ IF Power(n) \in -4..5 THEN n.exponent < 0 ELSE Len(n.digits) > 1

IsUtf8(s) == LET units == from_bytes(s) IN \A i \in DOMAIN units : units[i] > 0
Unchanged(codec, s, o) ==
  CASE codec = "json" -> IsUtf8(s)
    [] codec = "xml" -> (s = <<>> \/ ~Xml!Blank(s)) /\ \A i \in DOMAIN s : s[i] \notin DOMAIN Xml!Entity \cup {0}
    [] codec = "rpc" -> o.ansi => \A i \in DOMAIN s : s[i] < 128
    [] OTHER -> \A i \in DOMAIN s : s[i] # 0 /\ Lookup(s[i]) # <<>> /\ s[i] # 135

UnchangedName(codec, members, i, o) ==
  LET s == members[i].name
  IN  IF codec = "json" /\ i = 1 THEN \A k \in DOMAIN s : s[k] \notin {34, 92}
      ELSE Unchanged(codec, s, o) /\ (codec = "json" \/ s # <<>>)

RECURSIVE Exact(_, _, _, _)
Exact(codec, stream, o, v) ==
  CASE v.type = "tVoid" -> codec = "json" \/ (codec = "rpc" /\ o.encodeVoid)
    [] v.type = "tBoolean" -> TRUE
    [] v.type = "tInteger" -> codec # "rpc" \/ ~o.forceInteger64 \/ o.setInteger32
    [] v.type = "tInteger64" -> CASE codec = "json" -> ~Fits32(v.number) /\ ~AtMost(Json!ManyDigits, v.number.digits)
                                  [] codec = "rpc" -> ~(o.setInteger32 /\ Fits32(v.number))
                                  [] OTHER -> TRUE
    [] v.type = "tFloat" -> CASE codec = "json" -> JsonFloat(v.number, stream)
                              [] codec = "xml" -> SixDigits(v.number)
                              [] OTHER -> IF v.number.minus THEN v.number.exponent >= -9 ELSE Len(v.number.digits) <= 9
    [] v.type = "tString" -> Unchanged(codec, v.text, o)
    [] v.type = "tBase64" -> codec # "json" /\ Unchanged(codec, v.text, o)
    [] v.type = "tBinary" -> codec = "rpc"
    [] v.type = "tVariant" -> FALSE
    [] v.type = "tArray" -> \A i \in DOMAIN v.items : Exact(codec, stream, o, v.items[i])
    [] v.type = "tStruct" ->
         /\ ~v.errorStruct /\ (codec = "rpc" => ~Rpc!IsError(v.members))
         /\ \A i \in DOMAIN v.members :
              UnchangedName(codec, v.members, i, o) /\ Exact(codec, stream, o, v.members[i].value)

Comes(way, v) ==
  Exact(way.codec, way.codec = "json" /\ way.kind = "stream", IF way.codec = "rpc" THEN way.o ELSE [ansi |-> FALSE], v)

\* A fault is one for a receiver of XML-RPC, and of the binary protocol unless it has a vector of char.
FaultComes(way, v) ==
  /\ v.type = "tStruct" /\ v.errorStruct /\ Comes(way, [v EXCEPT !.errorStruct = FALSE])
  /\ way.codec \in {"xml", "rpc"} /\ way.kind = "response" /\ (way.codec = "rpc" => ~way.o.chars)

\* A single value is put into an array by requests and by plain JSON.
Wrapped(way, v) ==
  \/ way.codec # "ansi" /\ way.kind \in {"list", "named"}
  \/ way.codec \in {"xml", "rpc"} /\ way.kind = "request"
  \/ way.codec = "json" /\ way.kind \in {"stream", "vector", "request"} /\ Scalar(v)
Expected(way, v) == IF Wrapped(way, v) THEN Array(<<v>>) ELSE v

\* A JSON response tells an error by its code and message.
Told(way, v) ==
  IF way.codec = "json" /\ way.kind \in {"response", "mqtt"} /\ v.type = "tStruct" /\ v.errorStruct
  THEN Json!Outcome(v)[2] ELSE v

\* What an encoding changes again and again: its escapes, digits taken for noise, bytes taken for ANSI, and a
\* first name that is not escaped.
RECURSIVE Unsettled(_, _)
Unsettled(way, v) ==
  LET ansi == way.codec = "rpc" /\ way.o.ansi
      grows(s) == \E i \in DOMAIN s : (way.codec = "xml" /\ s[i] \in DOMAIN Xml!Entity) \/ (ansi /\ s[i] >= 128)
      escapes(s) == way.codec = "json" /\ \E i \in DOMAIN s : s[i] \in {34, 92}
  IN  CASE v.type = "tArray" -> \E i \in DOMAIN v.items : Unsettled(way, v.items[i])
        [] v.type = "tStruct" ->
             \E i \in DOMAIN v.members : LET m == v.members[i]
                                         IN  grows(m.name) \/ (i = 1 /\ escapes(m.name)) \/ Unsettled(way, m.value)
        [] v.type \in {"tString", "tBase64"} -> grows(v.text)
        [] v.type = "tFloat" -> /\ way.codec = "xml" \/ (way.codec = "json" /\ way.kind # "stream")
                                /\ Noisy(Significant(v.number, 6))
        [] OTHER -> FALSE

\* What nobody can read: a first name that ends too early, and a value of no type in the binary protocol.
RECURSIVE Unreadable(_, _)
Unreadable(way, v) ==
  CASE v.type = "tArray" -> \E i \in DOMAIN v.items : Unreadable(way, v.items[i])
    [] v.type = "tStruct" -> \E i \in DOMAIN v.members :
                               \/ way.codec = "json" /\ i = 1 /\ ~UnchangedName("json", v.members, 1, <<>>)
                               \/ Unreadable(way, v.members[i].value)
    [] OTHER -> way.codec = "rpc" /\ v.type = "tVariant"
=========================================================================================
