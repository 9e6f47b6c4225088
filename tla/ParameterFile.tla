--------------------------------- MODULE ParameterFile ---------------------------------
(***************************************************************************)
(* How the parameter of a device description is read from its XML file     *)
(* (Parameter::parseXml() and the constructors of Logical.cpp,             *)
(* Physical.cpp and ParameterCast.cpp) and written to it again             *)
(* (HomegearDevice::saveParameter()).                                      *)
(*                                                                         *)
(* An XML element is a record with a field for each element or attribute   *)
(* it contains, elements that may be repeated are sequences.  Decimals are *)
(* numbers of thousandths.  Texts have no characters that XML replaces,    *)
(* and unknown elements, which are ignored, are left out.                  *)
(***************************************************************************)
EXTENDS ParameterCast, SequencesExt

\* What is written of an object: the members that differ from the usual values.
Unless(o, usual) == [m \in {m \in DOMAIN usual : o[m] # usual[m]} |-> o[m]]
Members(o, names) == [m \in names |-> o[m]]
Nothing == [m \in {} |-> 0]

\* Math::toString(x, 1).
Tenths(x) == Rounded(x, Unit \div 10) * (Unit \div 10)

\* The least and greatest number of a type.
Least == -2147483647 - 1
Most == 2147483647
----------------------------------------------------------------------------
(* Casts.  What they are before the file is read.                          *)

DecimalIntegerScale == [factor |-> 1, offset |-> 0]
DecimalIntegerInverseScale == [factor |-> 1]
IntegerIntegerScale == [operation |-> "none", factor |-> 10, offset |-> 0]
IntegerIntegerMap == [direction |-> "none", pairs |-> <<>>]
BooleanInteger == [trueValue |-> 0, falseValue |-> 0, invert |-> FALSE, threshold |-> 1]
BooleanDecimal == [trueValue |-> 0, falseValue |-> 0, invert |-> FALSE, threshold |-> Unit]
BooleanString == [trueValue |-> "", falseValue |-> "", invert |-> FALSE]
DecimalConfigTime == [factors |-> <<>>, valueSize |-> 0]
IntegerTinyFloat == [mantissaStart |-> 5, mantissaSize |-> 11, exponentStart |-> 0, exponentSize |-> 5]
BlindTest == [value |-> 0]
OptionInteger == [pairs |-> <<>>]
Toggle == [parameter |-> "", on |-> 200, off |-> 0]
StringReplace == [search |-> "", replace |-> ""]
Round == [decimalPlaces |-> 1, roundToPoint5 |-> FALSE]
Generic == [type |-> ""]

WithoutSettings == {"stringUnsignedInteger", "optionString", "stringJsonArrayDecimal", "rpcBinary", "cfm",
                    "ccrtdnParty", "hexStringByteArray", "timeStringSeconds", "invert"}

\* A factor of zero becomes one.
FactorParsed(c) == IF c.factor = 0 THEN [c EXCEPT !.factor = 1] ELSE c

\* The offset has one of two names.
OffsetParsed(n) ==
  [name |-> n.name, directionToPacket |-> "direction" \in DOMAIN n => n.direction # "fromPacket",
   addOffset |-> "addOffset" \in DOMAIN n,
   offset |-> IF "addOffset" \in DOMAIN n THEN n.addOffset
              ELSE IF "subtractFromOffset" \in DOMAIN n THEN n.subtractFromOffset ELSE 0]

\* Http::decodeURL.
Decoded(text) == CASE text = "+" -> " " [] text = "%2B" -> "+" [] OTHER -> text

RoundParsed(n) ==
  IF "decimalPlaces" \notin DOMAIN n THEN n @@ Round
  ELSE IF n.decimalPlaces = Unit \div 2 THEN [name |-> n.name, decimalPlaces |-> 1, roundToPoint5 |-> TRUE]
  ELSE [name |-> n.name, decimalPlaces |-> n.decimalPlaces \div Unit, roundToPoint5 |-> FALSE]

CastParsed(n) ==
  CASE n.name \in WithoutSettings -> n
    [] n.name \in {"integerOffset", "decimalOffset"} -> OffsetParsed(n)
    [] n.name = "decimalIntegerScale" -> FactorParsed(n @@ DecimalIntegerScale)
    [] n.name = "decimalIntegerInverseScale" -> FactorParsed(n @@ DecimalIntegerInverseScale)
    [] n.name = "integerIntegerScale" -> FactorParsed(n @@ IntegerIntegerScale)
    [] n.name = "integerIntegerMap" -> n @@ IntegerIntegerMap
    [] n.name = "booleanInteger" -> n @@ BooleanInteger
    [] n.name = "booleanDecimal" -> n @@ BooleanDecimal
    [] n.name = "booleanString" -> n @@ BooleanString
    [] n.name = "decimalConfigTime" -> n @@ DecimalConfigTime
    [] n.name = "integerTinyFloat" -> n @@ IntegerTinyFloat
    [] n.name = "blindTest" -> n @@ BlindTest
    [] n.name = "optionInteger" -> n @@ OptionInteger
    [] n.name = "toggle" -> n @@ Toggle
    [] n.name = "stringReplace" -> LET c == n @@ StringReplace
                                   IN  [c EXCEPT !.search = Decoded(@), !.replace = Decoded(@)]
    [] n.name = "round" -> RoundParsed(n)
    [] n.name = "generic" -> n @@ Generic

ScaleSaved(c) ==
  CASE c.name = "decimalIntegerScale" -> Unless(c, [factor |-> 0, offset |-> 0])
    [] c.name = "integerIntegerScale" -> Unless(c, [operation |-> "none", factor |-> 10, offset |-> 0])
    [] OTHER -> (IF c.directionToPacket THEN Nothing ELSE [direction |-> "fromPacket"])
                @@ (IF c.addOffset THEN [addOffset |-> c.offset] ELSE [subtractFromOffset |-> c.offset])

\* The map from the device, which has one entry for each physical value; the other one is not written.
FromDevice(c) ==
  LET physical == {c.pairs[i][1] : i \in DOMAIN c.pairs}
      ordered == SetToSortSeq(physical, LAMBDA a, b : a < b)
  IN  [i \in DOMAIN ordered |-> <<ordered[i], Lookup(c.pairs, 1, 2, ordered[i])>>]

MapOrBooleanSaved(c) ==
  CASE c.name = "integerIntegerMap" -> Unless(c, [direction |-> "none"]) @@ [pairs |-> FromDevice(c)]
    [] c.name = "booleanInteger" -> Unless(c, [trueValue |-> 0, falseValue |-> 0, invert |-> FALSE, threshold |-> 1])
    [] c.name = "booleanDecimal" -> Unless(c, [trueValue |-> 0, falseValue |-> 0, invert |-> FALSE, threshold |-> Unit])
    [] c.name = "booleanString" -> Unless(c, [trueValue |-> "", falseValue |-> "", invert |-> FALSE])

NumberCastSaved(c) ==
  CASE c.name = "decimalConfigTime" -> Members(c, {"factors"}) @@ Unless(c, [valueSize |-> 0])
    [] c.name = "integerTinyFloat" ->
         Unless(c, [mantissaStart |-> 5, mantissaSize |-> 11, exponentStart |-> 0, exponentSize |-> 5])
    [] c.name = "blindTest" -> Unless(c, [value |-> 0])

OtherCastSaved(c) ==
  CASE c.name = "optionInteger" -> [pairs |-> FromDevice(c)]
    [] c.name = "toggle" -> Members(c, {"parameter"}) @@ Unless(c, [on |-> 200, off |-> 0])
    [] c.name = "stringReplace" -> Unless(c, [search |-> "", replace |-> ""])
    [] c.name = "round" -> [decimalPlaces |-> c.decimalPlaces * Unit]
    [] c.name = "generic" -> Unless(c, [type |-> ""])
    [] c.name \in WithoutSettings -> Nothing

CastSaved(c) ==
  [name |-> c.name] @@
  (CASE c.name \in {"decimalIntegerScale", "integerIntegerScale", "integerOffset", "decimalOffset"} -> ScaleSaved(c)
     [] c.name \in {"integerIntegerMap", "booleanInteger", "booleanDecimal", "booleanString"} -> MapOrBooleanSaved(c)
     [] c.name \in {"decimalConfigTime", "integerTinyFloat", "blindTest"} -> NumberCastSaved(c)
     [] OTHER -> OtherCastSaved(c))

\* One cast has no branch.
CastsSaved(casts) == [i \in DOMAIN SelectSeq(casts, LAMBDA c : c.name # "decimalIntegerInverseScale") |->
  CastSaved(SelectSeq(casts, LAMBDA c : c.name # "decimalIntegerInverseScale")[i])]
----------------------------------------------------------------------------
(* Roles.  An id has two decimal digits each for the main group, the       *)
(* middle group and the role.                                              *)

MainGroup(id) == ((id \div 10000) % 100) * 10000
MiddleGroup(id) == ((id \div 100) % 10000) * 100

Role == [direction |-> "both", invert |-> FALSE, scale |-> FALSE, valueSet |-> FALSE,
         valueMin |-> 0, valueMax |-> 0, scaleMin |-> 0, scaleMax |-> 0]

\* The groups of the role get its direction; what is there already stays.
WithRole(roles, n) ==
  LET given == DOMAIN n
      valueSet == given \cap {"valueMin", "valueMax"} # {}
      role == Restrict(n, given \ {"id"})
              @@ [scale |-> valueSet \/ given \cap {"scaleMin", "scaleMax"} # {}, valueSet |-> valueSet] @@ Role
      group == [Role EXCEPT !.direction = role.direction]
      groups == {MainGroup(n.id)} \cup (IF MiddleGroup(n.id) = MainGroup(n.id) THEN {} ELSE {MiddleGroup(n.id)})
  IN  IF n.id = 0 THEN roles
      ELSE roles @@ [id \in groups \ {0, n.id} |-> group] @@ (n.id :> role)

\* The minimum of the logical value is set twice, its maximum never.
ScaleCompleted(role, logical) ==
  IF role.scale /\ ~role.valueSet /\ logical.type \in {"tFloat", "tInteger", "tInteger64"}
  THEN [role EXCEPT !.valueMin = logical.maximumValue] ELSE role

RolesParsed(nodes, logical) ==
  LET roles == FoldLeft(WithRole, Nothing, nodes)
  IN  [id \in DOMAIN roles |-> ScaleCompleted(roles[id], logical)]

RoleSaved(id, role) ==
  [id |-> id] @@ Unless(role, [direction |-> "both", invert |-> FALSE])
  @@ (IF role.scale THEN Members(role, {"scaleMin", "scaleMax"} \cup
                                       (IF role.valueSet THEN {"valueMin", "valueMax"} ELSE {}))
                    ELSE Nothing)

\* The roles are a hash table: their order in the file is not determined.
RolesSaved(roles, ascending) ==
  LET ids == SetToSortSeq(DOMAIN roles, LAMBDA a, b : (a < b) = ascending)
  IN  [i \in DOMAIN ids |-> RoleSaved(ids[i], roles[ids[i]])]
----------------------------------------------------------------------------
(* The logical type.  "given" has the names of the values that exist.      *)

OptionalValues == {"defaultValue", "setToValueOnPairing"}

NumberDefaults == [minimumValue |-> Least, maximumValue |-> Most, defaultValue |-> 0, setToValueOnPairing |-> 0,
                   specialValues |-> Nothing]
BooleanDefaults == [defaultValue |-> FALSE, setToValueOnPairing |-> FALSE]
StringDefaults == [defaultValue |-> "", setToValueOnPairing |-> ""]
EnumerationDefaults == [minimumValue |-> 0, maximumValue |-> 0, defaultValue |-> 0, setToValueOnPairing |-> 0]

\* Add a value; gaps before its index are filled with values without a name.
WithValue(s, n) ==
  LET offset == IF "index" \in DOMAIN n /\ n.index < s.offset THEN n.index ELSE s.offset
      index == IF "index" \in DOMAIN n THEN n.index ELSE s.index
      missing == IF "index" \in DOMAIN n /\ index + offset > Len(s.values) THEN index + offset - Len(s.values) ELSE 0
  IN  [values |-> s.values \o [i \in 1..missing |-> [id |-> "", index |-> -1]] \o <<[id |-> n.id, index |-> index]>>,
       offset |-> offset, index |-> index + 1]

EnumerationParsed(n) ==
  LET s == FoldLeft(WithValue, [values |-> <<>>, offset |-> 0, index |-> 0], n.values)
  IN  [n EXCEPT !.values = s.values]
      @@ [minimumValue |-> s.offset, maximumValue |-> s.index - 1] @@ EnumerationDefaults

LogicalParsed(n) ==
  (CASE n.type \in {"tInteger", "tInteger64", "tFloat"} -> n @@ NumberDefaults
     [] n.type \in {"tBoolean", "tAction"} -> n @@ BooleanDefaults
     [] n.type = "tString" -> n @@ StringDefaults
     [] n.type = "tEnum" -> EnumerationParsed(n)
     [] n.type \in {"tArray", "tStruct"} -> n)
  @@ [given |-> DOMAIN n \cap OptionalValues]

\* The minimum of a decimal is compared with the smallest positive number.
LogicalSaved(o) ==
  [type |-> o.type]
  @@ (IF o.type \in {"tInteger", "tInteger64"} THEN Unless(o, [minimumValue |-> Least, maximumValue |-> Most])
      ELSE IF o.type = "tFloat" THEN Members(o, {"minimumValue"}) @@ Unless(o, [maximumValue |-> Most]) ELSE Nothing)
  @@ (IF o.type = "tAction" THEN Nothing ELSE Members(o, o.given))
  @@ (IF o.type \in {"tInteger", "tInteger64", "tFloat"} THEN Unless(o, [specialValues |-> Nothing]) ELSE Nothing)
  @@ (IF o.type = "tEnum" THEN Members(o, {"values"}) ELSE Nothing)
----------------------------------------------------------------------------
(* The physical type.                                                      *)

PhysicalDefaults ==
  [groupId |-> "", operationType |-> "none", typeString |-> "", endianess |-> "big", list |-> -1, address |-> 0,
   index |-> 0, size |-> Unit, bitSize |-> -1, mask |-> -1, memoryIndex |-> 0,
   memoryIndexOperation |-> "none", memoryChannelStep |-> 0]

\* The bytes from the index on, at least one.
PhysicalParsed(n) ==
  LET o == n @@ PhysicalDefaults @@ [sizeDefined |-> "size" \in DOMAIN n]
      start == o.index \div Unit
      bytes == IF o.size < Unit THEN 1 ELSE o.size \div Unit
  IN  o @@ [startIndex |-> start, endIndex |-> start + bytes - 1]

\* A double with six digits, of whose exponent nothing is read again; up to ten millions.
SixDigits(n) ==
  LET digits == Rounded(n, 10)
  IN  IF n < 1000000 THEN n ELSE IF digits < 1000000 THEN digits \div 100000 ELSE 1

PhysicalSaved(o) ==
  LET changed == Unless(o, [groupId |-> "", index |-> 0, mask |-> -1, list |-> -1, operationType |-> "none",
                            endianess |-> "big", memoryIndex |-> 0, memoryIndexOperation |-> "none",
                            memoryChannelStep |-> 0, address |-> 0])
      node == [type |-> o.type] @@ changed
              @@ (IF o.sizeDefined THEN Members(o, {"size"}) ELSE Nothing)
              @@ (IF o.bitSize >= 0 THEN Members(o, {"bitSize"}) ELSE Nothing)
  IN  [m \in DOMAIN node |-> CASE m \in {"index", "size", "memoryIndex", "memoryChannelStep"} -> Tenths(node[m])
                               [] m = "address" -> SixDigits(node[m])
                               [] OTHER -> node[m]]
----------------------------------------------------------------------------
(* The packets of a parameter.                                             *)

ParameterPacketDefaults ==
  [id |-> "", type |-> "none", responseId |-> "", autoReset |-> <<>>, resetDelayParameterId |-> "", resetTo |-> 0,
   conditionOperator |-> "none", conditionValue |-> -1, delay |-> -1]

PacketsParsed(nodes, type) ==
  LET ofType == SelectSeq(nodes, LAMBDA n : "type" \in DOMAIN n /\ n.type = type)
  IN  [i \in DOMAIN ofType |-> ofType[i] @@ ParameterPacketDefaults]

DelayedAutoReset(nodes) == \E i \in DOMAIN nodes : {"resetDelayParameterId", "resetTo"} \cap DOMAIN nodes[i] # {}

saveParameterPacket(packet) ==
  Members(packet, {"id", "type"})
  @@ Unless(packet, [responseId |-> "", autoReset |-> <<>>, conditionOperator |-> "none", conditionValue |-> -1])
  @@ (IF packet.resetDelayParameterId = "" THEN Nothing ELSE Members(packet, {"resetDelayParameterId", "resetTo"}))
----------------------------------------------------------------------------
(* The whole parameter.                                                    *)

PropertyDefaults ==
  [readable |-> TRUE, writeable |-> TRUE, readOnInit |-> FALSE, transmitted |-> TRUE, addonWriteable |-> TRUE,
   password |-> FALSE, visible |-> TRUE, internal |-> FALSE, parameterGroupSelector |-> FALSE, service |-> FALSE,
   serviceInverted |-> FALSE, sticky |-> FALSE, transform |-> FALSE, isSigned |-> FALSE, control |-> "", unit |-> "",
   unit_code |-> -1, mandatory |-> FALSE, formFieldType |-> "", formPosition |-> -1, metadata |-> "",
   resetAfterRestart |-> FALSE, ccu2Visible |-> TRUE, linkedParameter |-> "", priority |-> -1]

\* Without its element a parameter is signed if its values can be negative.
ImplicitlySigned(logical) ==
  \/ logical.type = "tFloat" /\ logical.minimumValue < 0
  \/ logical.type \in {"tInteger", "tInteger64"} /\ logical.minimumValue < 0 /\ logical.minimumValue # Least

PropertiesParsed(n, logical) ==
  LET properties == n @@ PropertyDefaults
      isSigned == properties.isSigned \/ ("isSigned" \notin DOMAIN n /\ ImplicitlySigned(logical))
  IN  [properties EXCEPT !.isSigned = isSigned]

KnownCasts(nodes) == SelectSeq(nodes, LAMBDA n : n.name # "decimalStringScale")

parseXml(node) ==
  LET n == node @@ [id |-> "", properties |-> Nothing, casts |-> <<>>, roles |-> <<>>,
                    logical |-> [type |-> "tInteger"], physical |-> [type |-> "tInteger"], packets |-> <<>>]
      logical == LogicalParsed(n.logical)
  IN  [id |-> n.id, properties |-> PropertiesParsed(n.properties, logical),
       casts |-> [i \in DOMAIN KnownCasts(n.casts) |-> CastParsed(KnownCasts(n.casts)[i])],
       roles |-> RolesParsed(n.roles, logical), logical |-> logical, physical |-> PhysicalParsed(n.physical),
       getPackets |-> PacketsParsed(n.packets, "get"), setPackets |-> PacketsParsed(n.packets, "set"),
       eventPackets |-> PacketsParsed(n.packets, "event"), hasDelayedAutoResetParameters |-> DelayedAutoReset(n.packets)]

PropertiesSaved(properties) ==
  Unless(properties,
    [readable |-> TRUE, writeable |-> TRUE, readOnInit |-> FALSE, transmitted |-> TRUE, addonWriteable |-> TRUE,
     password |-> FALSE, visible |-> TRUE, internal |-> FALSE, parameterGroupSelector |-> FALSE, service |-> FALSE,
     serviceInverted |-> FALSE, sticky |-> FALSE, transform |-> FALSE, isSigned |-> FALSE, control |-> "", unit |-> "",
     unit_code |-> -1, formFieldType |-> "", formPosition |-> -1, metadata |-> "", ccu2Visible |-> TRUE, priority |-> -1])

saveParameter(parameter, ascending) ==
  LET packets == parameter.getPackets \o parameter.setPackets \o parameter.eventPackets
  IN  [id |-> parameter.id, properties |-> PropertiesSaved(parameter.properties),
       casts |-> CastsSaved(parameter.casts), roles |-> RolesSaved(parameter.roles, ascending),
       logical |-> LogicalSaved(parameter.logical), physical |-> PhysicalSaved(parameter.physical),
       packets |-> [i \in DOMAIN packets |-> saveParameterPacket(packets[i])]]
=========================================================================================
