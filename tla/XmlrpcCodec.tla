---------------------------------- MODULE XmlrpcCodec ----------------------------------
(***************************************************************************)
(* Values as XML-RPC (XmlrpcEncoder, XmlrpcDecoder).  The encoder builds a *)
(* tree of nodes and prints it, and the decoder parses the text into a     *)
(* tree: what becomes of a tree on that way is Parsed.                     *)
(***************************************************************************)
EXTENDS Variables

Node(name, value, children) == [name |-> name, value |-> value, children |-> children]
Element(name, children) == Node(name, <<>>, children)

\* Printing (rapidxml_print.hpp) ends a string at a zero and replaces five characters.
Entity == [c \in {34, 38, 39, 60, 62} |->
             <<38>> \o (CASE c = 34 -> <<113, 117, 111, 116>> [] c = 38 -> <<97, 109, 112>>
                          [] c = 39 -> <<97, 112, 111, 115>> [] c = 60 -> <<108, 116>> [] OTHER -> <<103, 116>>) \o <<59>>]
Expanded(s) == FlattenSeq([i \in DOMAIN s |-> IF s[i] \in DOMAIN Entity THEN Entity[s[i]] ELSE <<s[i]>>])

\* Parsing with parse_no_entity_translation keeps entities, drops a text of blanks and puts any other
\* into a node of its own.
Blank(s) == \A i \in DOMAIN s : s[i] \in {9, 10, 13, 32}
RECURSIVE Parsed(_)
Parsed(node) ==
  LET text == Expanded(UpTo(node.value, 0))
      value == IF Blank(text) THEN <<>> ELSE text
  IN  Node(node.name, value, (IF value = <<>> THEN <<>> ELSE <<Node("", value, <<>>)>>)
                             \o [i \in DOMAIN node.children |-> Parsed(node.children[i])])
----------------------------------------------------------------------------
(* The encoder.                                                            *)

encodeArray(values) == Element("array", <<Element("data", values)>>)

\* Members without a name are left out.
encodeStruct(members, values) ==
  LET kept == SelectSeq([i \in DOMAIN members |-> i], LAMBDA i : members[i].name # <<>>)
  IN  Element("struct", [k \in DOMAIN kept |->
        Element("member", <<Node("name", members[kept[k]].name, <<>>), values[kept[k]]>>)])

RECURSIVE encodeVariable(_)
encodeVariable(v) ==
  CASE v.type = "tInteger" -> Element("value", <<Node("i4", IntegerText(v.number), <<>>)>>)
    [] v.type = "tInteger64" -> Element("value", <<Node("i8", IntegerText(v.number), <<>>)>>)
    [] v.type = "tFloat" -> Element("value", <<Node("double", ToText(v.number), <<>>)>>)
    [] v.type = "tBoolean" -> Element("value", <<Node("boolean", <<IF v.boolean THEN 49 ELSE 48>>, <<>>)>>)
    [] v.type = "tString" -> Node("value", v.text, <<>>)
    [] v.type = "tBase64" -> Element("value", <<Node("base64", v.text, <<>>)>>)
    [] v.type = "tStruct" ->
         Element("value", <<encodeStruct(v.members, [i \in DOMAIN v.members |-> encodeVariable(v.members[i].value)])>>)
    [] v.type = "tArray" -> Element("value", <<encodeArray([i \in DOMAIN v.items |-> encodeVariable(v.items[i])])>>)
    [] v.type \in {"tVoid", "tVariant", "tBinary"} -> Element("value", <<>>)

Params(items) == Element("params", [i \in DOMAIN items |-> Element("param", <<encodeVariable(items[i])>>)])
encodeRequest(methodName, items) == Element("methodCall", <<Node("methodName", methodName, <<>>), Params(items)>>)
encodeResponse(v) ==
  Element("methodResponse", <<IF v.type = "tStruct" /\ v.errorStruct THEN Element("fault", <<encodeVariable(v)>>)
                              ELSE Params(<<v>>)>>)
----------------------------------------------------------------------------
(* The decoder.                                                            *)

Children(node, name) == SelectSeq(node.children, LAMBDA n : n.name = name)
HasNode(node, name) == Children(node, name) # <<>>
first_node(node, name) == Children(node, name)[1]

ParseError == createError(Integer(TRUE, <<3,2,7,0,0>>), <<>>, FALSE)

Double(s) ==
  LET minus == s # <<>> /\ s[1] = 45
      first == IF minus THEN 2 ELSE 1
      whole == DigitsAt(s, first)
      point == first + Len(whole)
      places == IF point <= Len(s) /\ s[point] = 46 THEN DigitsAt(s, point + 1) ELSE <<>>
      e == IF places = <<>> THEN point ELSE point + 1 + Len(places)
      size == IF e <= Len(s) THEN FoldLeft(LAMBDA sum, d : sum * 10 + d, 0, DigitsAt(s, e + 2)) ELSE 0
  IN  Float(minus, whole \o places, (IF e <= Len(s) /\ s[e + 1] = 45 THEN -size ELSE size) - Len(places))

RECURSIVE decodeParameter(_)

\* Members without a name, or without a value behind it, are left out.
ValuesOf(member) ==
  LET named == {i \in DOMAIN member.children : member.children[i].name = "name"}
      first == CHOOSE i \in named : \A j \in named : i <= j
  IN  IF named = {} THEN <<>>
      ELSE SelectSeq(SubSeq(member.children, first + 1, Len(member.children)), LAMBDA n : n.name = "value")
decodeStruct(node) ==
  LET insert(members, m) ==
        IF ValuesOf(m) = <<>> \/ first_node(m, "name").value = <<>> THEN members
        ELSE Insert(members, first_node(m, "name").value, decodeParameter(ValuesOf(m)[1]))
  IN  Struct(FoldLeft(insert, <<>>, node.children))
decodeArray(node) ==
  LET values == IF HasNode(node, "data") THEN first_node(node, "data").children ELSE <<>>
  IN  Array([i \in DOMAIN values |-> decodeParameter(values[i])])

decodeParameter(node) ==
  LET sub == node.children[1]
  IN  IF node.children = <<>> THEN String(<<>>)
      ELSE CASE sub.name = "boolean" -> Boolean(sub.value \in {<<49>>, <<116, 114, 117, 101>>})
             [] sub.name \in {"i4", "int"} -> Integer(getNumber64(sub.value).minus, getNumber64(sub.value).digits)
             [] sub.name = "i8" -> Integer64(getNumber64(sub.value).minus, getNumber64(sub.value).digits)
             [] sub.name = "double" -> Double(sub.value)
             [] sub.name = "base64" -> Base64(sub.value)
             [] sub.name = "array" -> decodeArray(sub)
             [] sub.name = "struct" -> decodeStruct(sub)
             [] sub.name \in {"nil", "ex:nil"} -> Void
             [] OTHER -> String(sub.value)

\* The parameters, or one error; its method has no name then.
decodeRequest(node) ==
  IF node.name # "methodCall" \/ ~HasNode(node, "methodName") \/ ~HasNode(node, "params")
     \/ first_node(node, "methodName").value = <<>>
  THEN <<ParseError>>
  ELSE LET given == SelectSeq(first_node(node, "params").children, LAMBDA n : HasNode(n, "value"))
       IN  [i \in DOMAIN given |-> decodeParameter(first_node(given[i], "value"))]

\* A fault is an error and has a code and a message.
\* Mutant: it is no error.
Unmarked(v) == [v EXCEPT !.members = Insert(v.members, faultCode, Integer(TRUE, <<1>>))]
Faulty(v) ==
  LET coded == Insert(v.members, faultCode, Integer(TRUE, <<1>>))
  IN  [v EXCEPT !.errorStruct = TRUE, !.members = Insert(coded, faultString, String(<<117>>))]
decodeResponse(node) ==
  LET value(n) == IF HasNode(n, "value") THEN decodeParameter(first_node(n, "value")) ELSE Void
  IN  IF node.name # "methodResponse" \/ ~(HasNode(node, "params") \/ HasNode(node, "fault")) THEN ParseError
      ELSE IF ~HasNode(node, "params") THEN Faulty(value(first_node(node, "fault")))
      ELSE IF HasNode(first_node(node, "params"), "param") THEN value(first_node(first_node(node, "params"), "param"))
      ELSE Void
=========================================================================================
