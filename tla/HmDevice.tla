------------------------------------ MODULE HmDevice ------------------------------------
(***************************************************************************)
(* The device descriptions of HomeMatic (DeviceDescription/HomeMatic): the *)
(* device is read from an XML file of the old format, values are converted *)
(* from and to packets by its parameters, and devices are recognized by    *)
(* its types.  HmConverter makes a description of the new format of it;    *)
(* what is the same there is taken from it (New).                          *)
(*                                                                         *)
(* An XML element is a record whose fields have the names of the members   *)
(* they are read into, with elements that may be repeated as sequences;    *)
(* "#x" and "*" are given as the numbers they stand for.  The types of     *)
(* conversions, logical and physical parameters have the names of the      *)
(* file, flags are sets, and decimals numbers of thousandths.  Attributes  *)
(* are in their usual order (the type of a parameter before its constant   *)
(* value, the special parameter of a channel before its sets).             *)
(***************************************************************************)
EXTENDS Integers, Sequences, SequencesExt

New == INSTANCE Parameter
Unit == New!Unit
Nothing == New!Nothing

\* Whether a number meets a condition.
Holds(operator, number, value) ==
  CASE operator = "e" -> number = value
    [] operator = "g" -> number > value
    [] operator = "l" -> number < value
    [] operator = "ge" -> number >= value
    [] operator = "le" -> number <= value
    [] OTHER -> FALSE
----------------------------------------------------------------------------
(* Conversions.                                                            *)

ConversionDefaults ==
  [type |-> "none", factor |-> 0, factors |-> <<>>, valueSize |-> 0, div |-> 0, mul |-> 0, threshold |-> 1,
   valueFalse |-> 0, valueTrue |-> 0, stringValueFalse |-> "false", stringValueTrue |-> "true", offset |-> 0,
   mantissaStart |-> 5, mantissaSize |-> 11, exponentStart |-> 0, exponentSize |-> 5, stringValue |-> 0,
   on |-> 200, off |-> 0, invert |-> FALSE, valueMap |-> <<>>]

Ignored == {"action_key_counter", "action_key_same_counter", "rc19display"}

\* The flags are those of the conversion, though every entry of the map has them.
ParameterConversion(logical, n) ==
  LET c == n @@ ConversionDefaults
      steps == logical.max - logical.min
      sint4_sintx == [c EXCEPT !.type = "integer_integer_scale", !.offset = -logical.min * Unit, !.factor = 255 \div steps]
      map == [i \in DOMAIN c.valueMap |-> c.valueMap[i] @@ [deviceValue |-> 0, parameterValue |-> 0, fromDevice |-> TRUE, toDevice |-> TRUE]]
  IN  IF c.type \in Ignored THEN [c EXCEPT !.type = "none"]
      ELSE (IF c.type = "sint4_sintx" THEN sint4_sintx ELSE c)
           @@ [pairs |-> [i \in DOMAIN map |-> <<map[i].deviceValue, map[i].parameterValue>>],
               fromDevice |-> \A m \in Range(map) : m.fromDevice, toDevice |-> \A m \in Range(map) : m.toDevice]

\* Integer division in C++ cuts towards zero.
Quotient(a, b) == IF a < 0 THEN -((-a) \div b) ELSE a \div b

FloatIntegerScaleFrom(c, v) == [v EXCEPT !.floatValue = New!Rounded(v.integerValue * Unit, c.factor) - c.offset]
FloatIntegerScaleTo(c, v) == [v EXCEPT !.integerValue = New!Rounded((v.floatValue + c.offset) * c.factor, Unit)]

Multiplied(n, by) == IF by > 0 THEN n * by ELSE n
Divided(n, by) == IF by > 0 THEN Quotient(n, by) ELSE n
IntegerIntegerScaleFrom(c, v) == [v EXCEPT !.integerValue = Divided(Multiplied(@, c.div), c.mul)]
IntegerIntegerScaleTo(c, v) == [v EXCEPT !.integerValue = Divided(Multiplied(@, c.mul), c.div)]

IntegerIntegerMapFrom(c, v) == [v EXCEPT !.integerValue = IF c.fromDevice THEN New!Lookup(c.pairs, 1, 2, @) ELSE @]
IntegerIntegerMapTo(c, v) == [v EXCEPT !.integerValue = IF c.toDevice THEN New!Lookup(c.pairs, 2, 1, @) ELSE @]

\* If a number stands for both, then for TRUE.  "unit" is what one is worth.
BooleanFrom(c, v, x, unit) ==
  LET value == IF c.valueTrue = 0 /\ c.valueFalse = 0 THEN x >= c.threshold * unit
               ELSE x = c.valueTrue * unit \/ x >= c.threshold * unit \/ (x # c.valueFalse * unit /\ v.booleanValue)
  IN  [v EXCEPT !.booleanValue = value # c.invert]
BooleanTo(c, v) ==
  LET value == v.booleanValue # c.invert
  IN  IF c.valueTrue = 0 /\ c.valueFalse = 0 THEN IF value THEN 1 ELSE 0
      ELSE IF value THEN c.valueTrue ELSE c.valueFalse

\* Unlike the new ones they leave the other members of the value alone.  Own factors are left out.
FloatConfigTimeFrom(v) == [v EXCEPT !.floatValue = New!DecimalConfigTimeFrom(v).floatValue]
FloatConfigTimeTo(v) == [v EXCEPT !.integerValue = New!DecimalConfigTimeTo(v).integerValue]

fromPacket(c, v) ==
  CASE c.type = "float_integer_scale" -> FloatIntegerScaleFrom(c, v)
    [] c.type = "integer_integer_scale" -> IntegerIntegerScaleFrom(c, v)
    [] c.type \in {"integer_integer_map", "option_integer"} -> IntegerIntegerMapFrom(c, v)
    [] c.type = "boolean_integer" -> BooleanFrom(c, v, v.integerValue, 1)
    [] c.type = "boolean_decimal" -> BooleanFrom(c, v, v.floatValue, Unit)
    [] c.type = "float_configtime" -> FloatConfigTimeFrom(v)
    [] c.type = "integer_tinyfloat" -> New!IntegerTinyFloatFrom(c, v)
    [] c.type = "blind_test" -> [v EXCEPT !.integerValue = c.stringValue]
    [] OTHER -> v      \* toggle, float_uint8_string_scale; those of strings are left out

toPacket(c, v) ==
  CASE c.type = "float_integer_scale" -> FloatIntegerScaleTo(c, v)
    [] c.type = "integer_integer_scale" -> IntegerIntegerScaleTo(c, v)
    [] c.type \in {"integer_integer_map", "option_integer"} -> IntegerIntegerMapTo(c, v)
    [] c.type = "boolean_integer" -> [v EXCEPT !.integerValue = BooleanTo(c, v), !.booleanValue = @ # c.invert]
    [] c.type = "boolean_decimal" -> [v EXCEPT !.floatValue = BooleanTo(c, v) * Unit, !.booleanValue = @ # c.invert]
    [] c.type = "float_configtime" -> FloatConfigTimeTo(v)
    [] c.type = "integer_tinyfloat" -> New!IntegerTinyFloatTo(c, v)
    [] c.type = "blind_test" -> [v EXCEPT !.integerValue = c.stringValue]
    [] OTHER -> v
----------------------------------------------------------------------------
(* Logical and physical parameters.                                        *)

Option == [id |-> "", index |-> -1, isDefault |-> FALSE]

\* Gaps are filled with options without a name.
WithOption(s, n) ==
  LET index == IF n.index > -1 THEN n.index ELSE s.index
      missing == IF n.index > Len(s.options) THEN n.index - Len(s.options) ELSE 0
  IN  [options |-> s.options \o [i \in 1..missing |-> Option] \o <<[n EXCEPT !.index = index]>>, index |-> index + 1,
       default |-> IF n.isDefault THEN <<index>> ELSE s.default]

EnumOf(type, s) ==
  [type |-> type, options |-> s.options, min |-> 0, max |-> s.index - 1, enforceValue |-> 0,
   defaultValueExists |-> s.default # <<>>, defaultValue |-> IF s.default = <<>> THEN 0 ELSE s.default[1]]
LogicalParameterEnum(n) ==
  EnumOf(n.type, FoldLeft(WithOption, [options |-> <<>>, index |-> 0, default |-> <<>>], [i \in DOMAIN n.options |-> n.options[i] @@ Option]))

\* The least decimal is zero: it is meant to be the smallest positive one.
LogicalParameter(n) ==
  (CASE n.type = "option" -> LogicalParameterEnum(n)
     [] n.type = "integer" -> n @@ [min |-> New!Least, max |-> New!Most, defaultValue |-> 0, specialValues |-> Nothing, enforceValue |-> 0]
     [] n.type = "float" -> n @@ [min |-> 0, max |-> New!Most, defaultValue |-> 0, specialValues |-> Nothing, enforceValue |-> 0]
     [] n.type = "string" -> n @@ [defaultValue |-> "", enforceValue |-> ""]
     [] OTHER -> n @@ [defaultValue |-> FALSE, enforceValue |-> FALSE])
  @@ [unit |-> "", enforce |-> FALSE, defaultValueExists |-> "defaultValue" \in DOMAIN n]

PhysicalDefaults ==
  [type |-> "none", interface |-> "none", endian |-> "big", valueID |-> "", id |-> "", list |-> 9999, index |-> 0, size |-> Unit,
   mask |-> -1, setRequest |-> "", getRequest |-> "", getResponse |-> "", eventFrames |-> <<>>, setRequestsEx |-> <<>>,
   resetAfterSend |-> <<>>, address |-> [operation |-> "none", index |-> 0, step |-> 0]]

\* Only integers have domino events.
PhysicalParameterEvent(type, n) ==
  LET domino == type = "integer" /\ {"dominoEventValue", "dominoEventDelayID"} \subseteq DOMAIN n
  IN  [frame |-> n.frame, dominoEvent |-> domino, dominoEventValue |-> IF domino THEN n.dominoEventValue ELSE 0,
       dominoEventDelayID |-> IF domino THEN n.dominoEventDelayID ELSE ""]

\* There are eight bits in a byte: 15.9 is 16.1.
AddressIndex(n) == IF (n.address.index % Unit) \div 100 >= 8 THEN n.address.index + 200 ELSE n.address.index

\* The bytes it occupies are derived from its own index before that of its address replaces it.
PhysicalParameter(n) ==
  LET p == n @@ PhysicalDefaults
      start == p.index \div Unit
      bytes == IF p.size < Unit THEN 1 ELSE p.size \div Unit
  IN  [p EXCEPT !.index = IF "address" \in DOMAIN n THEN AddressIndex(n) ELSE @,
                !.address.index = IF "address" \in DOMAIN n THEN AddressIndex(n) ELSE @,
                !.eventFrames = [i \in DOMAIN @ |-> PhysicalParameterEvent(p.type, @[i])],
                !.setRequestsEx = [i \in DOMAIN @ |-> @[i] @@ [conditionOperator |-> "none", value |-> 0, frame |-> ""]]]
      @@ [sizeDefined |-> "size" \in DOMAIN n, startIndex |-> start, endIndex |-> start + bytes - 1]
----------------------------------------------------------------------------
(* Parameters.                                                             *)

ParameterDefaults ==
  [id |-> "", type |-> "none", index |-> 0, size |-> 0, index2 |-> 0, size2 |-> 0, index2Offset |-> -1, isSigned |-> FALSE,
   hidden |-> FALSE, booleanOperator |-> "e", operations |-> {"read", "write"}, uiFlags |-> {"visible"}, constValue |-> -1,
   constValueString |-> "", param |-> "", additionalParameter |-> "", control |-> "", omitIf |-> 0, mask |-> -1,
   field |-> "", subfield |-> "", conversion |-> <<>>, logical |-> [type |-> "integer"], physical |-> Nothing]

Negative(logical) ==
  \/ logical.type = "float" /\ logical.min < 0
  \/ logical.type = "integer" /\ logical.min < 0 /\ logical.min # New!Least

ParameterOf(p, logical, physical, omit) ==
  LET conversions == [i \in DOMAIN p.conversion |-> ParameterConversion(logical, p.conversion[i])]
  IN  [p EXCEPT !.logical = logical, !.physical = physical, !.isSigned = @ \/ Negative(logical), !.omitIf = IF omit THEN @ ELSE 0,
                !.conversion = SelectSeq(conversions, LAMBDA c : c.type # "none")]
      @@ [omitIfSet |-> omit, hasDominoEvents |-> \E e \in Range(physical.eventFrames) : e.dominoEvent]
HomeMaticParameter(n) ==
  LET p == n @@ ParameterDefaults
  IN  ParameterOf(p, LogicalParameter(p.logical), PhysicalParameter(p.physical), "omitIf" \in DOMAIN n /\ p.type = "integer")

checkCondition(p, value) == Holds(p.booleanOperator, value, p.constValue)

Bytes(p) == p.physical.size \div Unit
Bits(p) == (p.physical.size % Unit) \div 100
ByteSize(p) == Bytes(p) + (IF Bits(p) > 0 THEN 1 ELSE 0)
BitSize(p) == 8 * Bytes(p) + Bits(p)

reverseData(p, data) == [i \in 1..ByteSize(p) |-> IF i <= Len(data) THEN data[Len(data) + 1 - i] ELSE 0]
InOrder(p, data) == IF p.physical.endian = "little" THEN reverseData(p, data) ELSE data

Signed(p, data) ==
  LET n == New!FromBytes(data)
      negative == p.isSigned /\ Len(data) >= ByteSize(p) /\ New!Field(n, BitSize(p) - 1, 1) = 1
  IN  New!AsInteger(New!Integer(n), IF negative THEN n - 2^BitSize(p) ELSE n)

\* Strings are left out, and the signal strength, which is negated.
convertFromPacket(p, data, isEvent) ==
  LET value == InOrder(p, data)
  IN  CASE p.logical.type = "option" /\ p.conversion = <<>> -> New!Integer(New!FromBytes(value))
        [] p.logical.type = "boolean" /\ p.conversion = <<>> -> New!Boolean(New!FromBytes(value) # 0)
        [] p.logical.type = "action" -> New!Boolean(isEvent)
        [] OTHER -> FoldRight(fromPacket, p.conversion, Signed(p, value))

Within(p, x) == IF x > p.logical.max THEN p.logical.max ELSE IF x < p.logical.min THEN p.logical.min ELSE x
Special(p, x) == x = p.logical.defaultValue \/ x \in Range(p.logical.specialValues)

\* A value of another type is adopted; unless it is a special one it is brought into its range.
Adopted(p, v) ==
  CASE p.logical.type = "float" /\ v.floatValue = 0 -> [v EXCEPT !.floatValue = v.integerValue * Unit]
    [] p.logical.type = "integer" /\ v.integerValue = 0 -> [v EXCEPT !.integerValue = Quotient(v.floatValue, Unit)]
    [] p.logical.type = "boolean" -> [v EXCEPT !.booleanValue = @ \/ v.integerValue # 0 \/ v.floatValue # 0]
    [] OTHER -> v
Bounded(p, v) ==
  CASE p.logical.type = "option" /\ p.conversion = <<>> -> [v EXCEPT !.integerValue = Within(p, @)]
    [] p.logical.type = "float" /\ ~Special(p, v.floatValue) -> [v EXCEPT !.floatValue = Within(p, @)]
    [] p.logical.type = "integer" /\ ~Special(p, v.integerValue) -> [v EXCEPT !.integerValue = Within(p, @)]
    [] OTHER -> v

\* Of the four bytes of a negative number the last two are enough: no parameter has more.
Cropped(p, n) == IF p.physical.sizeDefined THEN n % 2^BitSize(p) ELSE IF n < 0 THEN n % 2^16 ELSE n

\* The two conversions cfm and ccrtdn_party of strings are left out.
convertToPacket(p, value) ==
  LET bounded == Bounded(p, Adopted(p, value))
      v == IF p.conversion = <<>> /\ p.logical.type \in {"boolean", "action"} THEN New!Boolean(bounded.booleanValue)
           ELSE FoldLeft(LAMBDA x, c : toPacket(c, x), bounded, p.conversion)
  IN  InOrder(p, New!ToBytes(Cropped(p, v.integerValue)))
----------------------------------------------------------------------------
(* The types of devices.                                                   *)

\* Parameters compare bytes of the pairing packet.
DeviceType(n) ==
  LET t == n @@ [name |-> "", id |-> "", parameters |-> <<>>, typeID |-> -1, firmware |-> -1, booleanOperator |-> "e"]
  IN  [t EXCEPT !.parameters = [i \in DOMAIN @ |-> HomeMaticParameter(@[i])]]

parameterMatches(p, typeNumber, firmware) ==
  CASE p.index = 10 * Unit -> p.constValue = typeNumber
    [] p.index \in {9 * Unit, 2 * Unit} -> checkCondition(p, firmware)
    [] p.index = 0 -> typeNumber \div 256 = p.constValue
    [] p.index = Unit -> typeNumber % 256 = p.constValue
    [] OTHER -> FALSE

checkFirmwareVersion(t, version) == Holds(t.booleanOperator, version, t.firmware)

matches(t, typeNumber, firmware) ==
  IF t.typeID # -1 THEN typeNumber = t.typeID /\ (t.firmware = -1 \/ checkFirmwareVersion(t, firmware))
  ELSE t.parameters # <<>> /\ \A p \in Range(t.parameters) : parameterMatches(p, typeNumber, firmware)

\* The first one.
getType(d, typeNumber, firmware) ==
  SelectSeq(d.supportedTypes, LAMBDA t : matches(t, typeNumber, firmware))
----------------------------------------------------------------------------
(* Sets of parameters.                                                     *)

SetDefaults ==
  [type |-> "none", id |-> "", addressStart |-> -1, addressStep |-> -1, count |-> -1, peerParam |-> "", channelParam |-> "",
   channelOffset |-> -1, peerAddressOffset |-> -1, peerChannelOffset |-> -1, subsetReference |-> "", parameters |-> <<>>,
   defaultValues |-> Nothing, lists |-> {}]

Position(set, id) ==
  LET found == {i \in DOMAIN set.parameters : set.parameters[i].id = id}
  IN  IF found = {} THEN 0 ELSE CHOOSE i \in found : \A j \in found : i <= j
getList(set, list) == SelectSeq(set.parameters, LAMBDA p : list >= 0 /\ p.physical.list = list)

\* Where an integer of this size lies, if it is at one of these addresses.
At(n, size, addresses) ==
  {a \in addresses : n.type = "integer" /\ n.size = size * Unit /\ n.address = [operation |-> "addition", index |-> a * Unit]}

\* The parameters with the address and the channel of a peer only say where these are.
WithPeerParam(s, n) ==
  LET inner == IF "physicals" \in DOMAIN n THEN n.physicals ELSE <<>>
      address == IF inner = <<>> THEN {} ELSE At(inner[1], 4, {0, 1})
      channel == IF Len(inner) < 2 THEN {} ELSE At(inner[2], 1, {4, 5})
  IN  [s EXCEPT !.peerAddressOffset = IF address = {} THEN @ ELSE Max(address),
                !.peerChannelOffset = IF channel = {} THEN @ ELSE Max(channel),
                !.peerParam = IF channel = {} THEN @ ELSE ""]
WithChannelParam(s, n) ==
  LET channel == IF "physical" \in DOMAIN n THEN At(n.physical, 1, {0, 5}) ELSE {}
  IN  IF channel = {} THEN s ELSE [s EXCEPT !.channelOffset = Max(channel), !.channelParam = ""]

WithOwn(s, p) == [s EXCEPT !.parameters = Append(@, p), !.lists = @ \cup ({p.physical.list} \ {9999})]
WithParameter(s, n) ==
  CASE "id" \in DOMAIN n /\ n.id = s.peerParam -> WithPeerParam(s, n)
    [] "id" \in DOMAIN n /\ n.id # s.peerParam /\ n.id = s.channelParam -> WithChannelParam(s, n)
    [] OTHER -> WithOwn(s, HomeMaticParameter(n))

\* Booleans and actions can only be enforced to be TRUE.
Enforced(set, e) ==
  LET i == Position(set, e.id)
  IN  IF i = 0 THEN set ELSE [set EXCEPT !.parameters[i].logical.enforce = TRUE, !.parameters[i].logical.enforceValue = e.value]

ParameterSet(n) ==
  LET own == FoldLeft(WithParameter, [n EXCEPT !.parameters = <<>>] @@ SetDefaults, n.parameters)
  IN  New!Members(FoldLeft(Enforced, own, IF "enforce" \in DOMAIN n THEN n.enforce ELSE <<>>), DOMAIN SetDefaults)
----------------------------------------------------------------------------
(* Channels.                                                               *)

ChannelDefaults ==
  [startIndex |-> 0, physicalIndexOffset |-> 0, type |-> "", uiFlags |-> {}, direction |-> {}, count |-> 1, hidden |-> FALSE,
   hasTeam |-> FALSE, aesDefault |-> FALSE, aesAlways |-> FALSE, paired |-> FALSE, function |-> "", pairFunction |-> <<>>,
   countFromSysinfo |-> -Unit, countFromSysinfoSize |-> Unit, countFromVariable |-> "", teamTag |-> "", parameterSets |-> <<>>,
   sourceNames |-> <<>>, targetNames |-> <<>>, enforceLinks |-> <<>>, specialParameter |-> <<>>, subconfigs |-> <<>>]

\* A set of parameters of each type, the first one; there is always one of the type "master".
FirstOfEach(sets) ==
  [type \in {sets[i].type : i \in DOMAIN sets} |-> sets[CHOOSE i \in DOMAIN sets : sets[i].type = type /\ \A j \in 1..i - 1 : sets[j].type # type]]
Sets(nodes) ==
  FirstOfEach([i \in DOMAIN nodes |-> ParameterSet(nodes[i])]) @@ [master |-> [SetDefaults EXCEPT !.type = "master"]]

\* The parameter of this id gets the physical properties and conversions of the special one.
WithSpecial(sets, special, valueID) ==
  LET i == Position(sets["master"], special.id)
  IN  IF i = 0 THEN sets
      ELSE [sets EXCEPT !["master"].parameters[i].physical = [special.physical EXCEPT !.valueID = valueID],
                        !["master"].parameters[i].conversion = IF special.conversion = <<>> THEN @ ELSE special.conversion]

\* The configurations share the object with the physical properties, which keeps the last name.
SpecialNames(special, sets) ==
  LET named == SelectSeq(sets, LAMBDA s : Position(s["master"], special.id) # 0)
  IN  [i \in DOMAIN named |-> named[i]["master"].parameters[Position(named[i]["master"], special.id)].physical.valueID]

\* A channel without its special parameter.  The functions of a pair are two letters.
PlainChannel(c) ==
  [c EXCEPT !.uiFlags = @ \cup {"visible"}, !.aesDefault = @ \/ c.aesAlways,
            !.pairFunction = IF Len(@) = 2 THEN @ ELSE <<"", "">>,
            !.countFromSysinfo = IF @ < 9 * Unit THEN -Unit ELSE @,
            !.countFromSysinfoSize = IF @ > Unit THEN Unit ELSE @, !.parameterSets = Sets(@)]

WithSpecials(c, special) ==
  LET names == SpecialNames(special, <<c.parameterSets>> \o [i \in DOMAIN c.subconfigs |-> c.subconfigs[i].parameterSets])
  IN  IF names = <<>> THEN c
      ELSE [c EXCEPT !.parameterSets = WithSpecial(@, special, Last(names)),
                     !.subconfigs = [i \in DOMAIN @ |-> [@[i] EXCEPT !.parameterSets = WithSpecial(@, special, Last(names))]]]

\* A configuration of a channel has none itself, and no special parameter.
DeviceChannel(n) ==
  LET c == PlainChannel(n @@ ChannelDefaults)
      specials == [i \in DOMAIN c.specialParameter |-> HomeMaticParameter(c.specialParameter[i])]
  IN  FoldLeft(WithSpecials, [c EXCEPT !.subconfigs = [i \in DOMAIN @ |-> PlainChannel(@[i] @@ ChannelDefaults)]], specials)

\* Channels keep the indexes that are free.
WithChannel(channels, c) == channels @@ [index \in c.startIndex..c.startIndex + c.count - 1 |-> c]

\* The default -1 counts as given, too: the last channel decides, unless it is in the middle of a byte.
CountFromSysinfo(channels) ==
  LET whole == SelectSeq(channels, LAMBDA c : c.countFromSysinfo % Unit = 0)
      size == Last(whole).countFromSysinfoSize
  IN  IF whole = <<>> THEN [index |-> -1, size |-> Unit]
      ELSE [index |-> Last(whole).countFromSysinfo \div Unit, size |-> IF size <= 0 THEN Unit ELSE size]
----------------------------------------------------------------------------
(* The device.                                                             *)

FrameDefaults ==
  [direction |-> "none", id |-> "", isEvent |-> FALSE, doubleSend |-> FALSE, type |-> 0, subtype |-> -1, subtypeIndex |-> -1,
   subtypeFieldSize |-> Unit, responseType |-> -1, responseSubtype |-> -1, channelField |-> -1, channelFieldSize |-> Unit,
   fixedChannel |-> -1, size |-> -1, splitAfter |-> -1, maxPackets |-> -1, function1 |-> "", function2 |-> "",
   metaString1 |-> "", metaString2 |-> "", parameters |-> <<>>]

\* The channel of the receiver is preferred to that of the sender.
DeviceFrame(n) ==
  LET f == n @@ FrameDefaults
  IN  [f EXCEPT !.channelField = IF "receiverChannelField" \in DOMAIN n THEN n.receiverChannelField ELSE @,
                !.parameters = [i \in DOMAIN @ |-> HomeMaticParameter(@[i])]]
      @@ [channelIndexOffset |-> 0, associatedValues |-> {}]

\* The last one of an id; "packet" elements come after "frame" elements.
Frames(nodes) ==
  LET named(id) == SelectSeq(nodes, LAMBDA n : n.id = id)
  IN  [id \in {n.id : n \in Range(nodes)} |-> DeviceFrame(Last(named(id)))]

\* A set that refers to a definition has its parameters before the own ones, and its properties.
WithSubset(definitions, set) ==
  IF set.subsetReference \in DOMAIN definitions \ {""}
  THEN LET definition == definitions[set.subsetReference]
       IN  [definition EXCEPT !.type = set.type, !.id = set.id, !.parameters = @ \o set.parameters]
  ELSE set
WithSubsets(definitions, c) ==
  [c EXCEPT !.parameterSets = [type \in DOMAIN @ |-> WithSubset(definitions, @[type])],
            !.subconfigs = [i \in DOMAIN @ |-> [@[i] EXCEPT
                              !.parameterSets = [type \in DOMAIN @ |-> WithSubset(definitions, @[type])]]]]

\* The parameters of the device are those of its channel 0.
WithFirstChannel(all, set) ==
  IF set.type # "master" \/ set.parameters = <<>> THEN all
  ELSE [i \in DOMAIN all |-> IF all[i].startIndex = all[0].startIndex THEN [all[i] EXCEPT !.parameterSets["master"] = set] ELSE all[i]]

ValuesOf(c) == IF "values" \in DOMAIN c.parameterSets THEN c.parameterSets["values"].parameters ELSE <<>>

\* The frames that ask for a value, set it or tell it.
FramesOf(p) ==
  ({p.physical.getRequest, p.physical.setRequest} \cup {e.frame : e \in Range(p.physical.eventFrames)}) \ {""}
EventFrames(c) == UNION {{e.frame : e \in Range(p.physical.eventFrames)} : p \in Range(ValuesOf(c))}

AssociatedFrame(channels, f) ==
  LET telling == {i \in DOMAIN channels : f.id \in EventFrames(channels[i])}
  IN  [f EXCEPT !.associatedValues = UNION {{<<channels[i].startIndex, p.id>> : p \in {q \in Range(ValuesOf(channels[i])) : f.id \in FramesOf(q)}} : i \in DOMAIN channels},
                !.channelIndexOffset = IF telling = {} THEN @ ELSE channels[Max(telling)].physicalIndexOffset]

\* The parts of frames which say what size a value has there and whether it has a sign.
Parts(frames, p) ==
  LET told == SelectSeq(p.physical.eventFrames, LAMBDA e : e.frame \in DOMAIN frames)
      all == FlattenSeq([i \in DOMAIN told |-> frames[told[i].frame].parameters])
  IN  SelectSeq(all, LAMBDA l : p.id \in {l.param, l.additionalParameter})
AssociatedValue(frames, p) ==
  LET parts == Parts(frames, p)
      sized == SelectSeq(parts, LAMBDA l : l.size > 0)
  IN  [p EXCEPT !.isSigned = @ \/ \E l \in Range(parts) : l.isSigned, !.physical.size = IF sized = <<>> THEN @ ELSE Last(sized).size]
AssociatedChannel(frames, c) ==
  IF "values" \notin DOMAIN c.parameterSets THEN c
  ELSE [c EXCEPT !.parameterSets["values"].parameters = [i \in DOMAIN @ |-> AssociatedValue(frames, @[i])]]

ValueRequests(frames, c) == {p.physical.getRequest : p \in Range(ValuesOf(c))} \cap (DOMAIN frames \ {""})

RxModes(modes) == IF modes = {} THEN {"always"} ELSE modes

ProgramDefaults == [path |-> "", arguments |-> <<>>, startType |-> "none", interval |-> 0]
DeviceDefaults ==
  [version |-> 0, rxModes |-> {"always"}, eepSize |-> 1024, uiFlags |-> {}, cyclicTimeout |-> 0, supportsAES |-> FALSE,
   needsTime |-> FALSE, supportedTypes |-> <<>>, parameterSet |-> [parameters |-> <<>>], definitions |-> <<>>, channels |-> <<>>,
   frames |-> <<>>, runProgram |-> Nothing]

DefinitionsOf(sets) == [id \in {s.id : s \in Range(sets)} |-> Last(SelectSeq(sets, LAMBDA s : s.id = id))]
ChannelsOf(parsed, definitions, set) ==
  WithFirstChannel(FoldLeft(WithChannel, Nothing, [i \in DOMAIN parsed |-> WithSubsets(definitions, parsed[i])]) @@ (0 :> DeviceChannel(Nothing)), set)

\* Channels and frames know each other.
Associated(channels, frames) ==
  [channels |-> [i \in DOMAIN channels |-> AssociatedChannel(frames, channels[i])],
   frames |-> [id \in DOMAIN frames |-> AssociatedFrame(channels, frames[id])],
   valueRequestFrames |-> [i \in DOMAIN channels |-> ValueRequests(frames, channels[i])]]

Properties(n) ==
  New!Members(n, {"version", "eepSize", "cyclicTimeout", "supportsAES", "needsTime"})
  @@ [rxModes |-> RxModes(n.rxModes), hasBattery |-> RxModes(n.rxModes) # {"always"}, uiFlags |-> n.uiFlags \cup {"visible"},
      supportedTypes |-> [i \in DOMAIN n.supportedTypes |-> DeviceType(n.supportedTypes[i])], runProgram |-> n.runProgram @@ ProgramDefaults]

ParsedXML(n, parsed) ==
  LET definitions == DefinitionsOf([i \in DOMAIN n.definitions |-> ParameterSet(n.definitions[i])])
  IN  Properties(n) @@ [countFromSysinfo |-> CountFromSysinfo(parsed)]
      @@ Associated(ChannelsOf(parsed, definitions, ParameterSet(n.parameterSet)), Frames(n.frames))
parseXML(node) ==
  LET n == node @@ DeviceDefaults
  IN  ParsedXML(n, [i \in DOMAIN n.channels |-> DeviceChannel(n.channels[i])])

\* On pairing a new key is set.  What was derived from the index stays.
Aes(p) ==
  [p EXCEPT !.id = "AES_ACTIVE", !.uiFlags = {"internal"},
            !.logical = [LogicalParameter([type |-> "boolean"]) EXCEPT !.defaultValueExists = TRUE],
            !.conversion = <<ParameterConversion([type |-> "boolean"], [type |-> "boolean_integer"])>>,
            !.physical.interface = "config", !.physical.type = "integer", !.physical.valueID = "AES_ACTIVE",
            !.physical.list = 1, !.physical.index = 8 * Unit]
WithAes(set) ==
  LET i == Position(set, "AES_ACTIVE")
  IN  [set EXCEPT !.parameters = IF i = 0 THEN Append(@, Aes(HomeMaticParameter(Nothing))) ELSE [@ EXCEPT ![i] = Aes(@)]]

AesAllowed(path, d) ==
  IF path[1] # "rf_" \/ ~d.supportsAES THEN d
  ELSE [d EXCEPT !.channels = [i \in DOMAIN @ |-> IF i = 0 THEN @[i] ELSE [@[i] EXCEPT !.parameterSets["master"] = WithAes(@)]]]

\* "path" is the sequence of the directories and the beginning of the name of the file.
Device(path, node) ==
  LET nodes == <<node>> \o (IF "team" \in DOMAIN node THEN node.team ELSE <<>>)
      withTeam(all) == Head(all) @@ [team |-> Tail(all)]
  IN  AesAllowed(path, withTeam([i \in DOMAIN nodes |-> parseXML(nodes[i])]))

\* The first channel with a counter gets the free channels after it; there has to be one.
setCountFromSysinfo(d, count) ==
  LET first == Min({i \in DOMAIN d.channels : d.channels[i].countFromSysinfo > -Unit})
      channels == d.channels @@ [i \in first + 1..first + count - 1 |-> d.channels[first]]
  IN  [d EXCEPT !.channels = channels, !.valueRequestFrames = @ @@ [i \in DOMAIN channels |-> ValueRequests(d.frames, channels[first])]]
=========================================================================================
