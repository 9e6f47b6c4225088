----------------------------------- MODULE HmConverter -----------------------------------
(***************************************************************************)
(* A description of HomeMatic (HmDevice) is completed and turned into one  *)
(* of the new format (DeviceFile): Devices::loadHomeMatic(), HmConverter.  *)
(* The corrections of single files in loadHomeMatic() are left out, as are *)
(* the tables that are derived from the functions and the packets.         *)
(***************************************************************************)
EXTENDS DeviceFile, Parameter

CONSTANTS HomeMaticFiles,  \* pairs of a path and an XML file
          TypeNumbers, FirmwareVersions

Hm == INSTANCE HmDevice

VARIABLE homematic   \* the old description and the new one, or none: a sequence of at most one

Flag(set, name) == name \in set
----------------------------------------------------------------------------
(* What loadHomeMatic() adds.                                              *)

Skipped == {"rf_cmm.xml", "hmw_central.xml", "hmw_generic.xml", "rf_central.xml"}

StoredAs(interface) == [type |-> "integer", interface |-> interface]
Switch == [type |-> "boolean", defaultValue |-> FALSE]
ROAMING == [id |-> "ROAMING", uiFlags |-> {"visible", "internal"}, logical |-> Switch, physical |-> StoredAs("store")]
POLLING == [id |-> "POLLING", uiFlags |-> {"internal"}, logical |-> Switch, physical |-> StoredAs("store")]
POLLING_INTERVAL(burst) ==
  [id |-> "POLLING_INTERVAL", uiFlags |-> {"internal"}, physical |-> StoredAs("store"),
   logical |-> [type |-> "integer", min |-> IF burst THEN 360 ELSE 10, max |-> 1440, defaultValue |-> IF burst THEN 360 ELSE 60, unit |-> "min"]]
CENTRAL_ADDRESS_SPOOFED ==
  [id |-> "CENTRAL_ADDRESS_SPOOFED", uiFlags |-> {"visible", "service", "sticky"}, operations |-> {"read", "write", "event"},
   control |-> "NONE", logical |-> [type |-> "option", options |-> <<[id |-> "UNSET", isDefault |-> TRUE], [id |-> "CENTRAL_ADDRESS_SPOOFED"]>>],
   physical |-> StoredAs("internal") @@ [valueID |-> "CENTRAL_ADDRESS_SPOOFED"]]

WithNew(set, node) ==
  IF Hm!Position(set, node.id) # 0 THEN set ELSE [set EXCEPT !.parameters = Append(@, Hm!HomeMaticParameter(node))]

\* The second option is not counted: the greatest value stays 0.
WithSpoofed(set) ==
  LET added == WithNew(set, CENTRAL_ADDRESS_SPOOFED)
  IN  IF added = set THEN set ELSE [added EXCEPT !.parameters[Len(added.parameters)].logical.max = 0]

WithPolling(set, modes) ==
  IF modes \cap {"always", "burst"} = {} THEN set ELSE WithNew(WithNew(set, POLLING), POLLING_INTERVAL(Flag(modes, "burst")))

\* Keys are pressed by the device only.
WithKeys(sets) ==
  IF "values" \notin DOMAIN sets THEN sets
  ELSE [sets EXCEPT !["values"].parameters = [i \in DOMAIN @ |->
         IF @[i].id \in {"PRESS_SHORT", "PRESS_LONG"} THEN [@[i] EXCEPT !.operations = {"read", "event"}] ELSE @[i]]]

WithFirst(sets, modes) ==
  [type \in DOMAIN sets |-> CASE type = "master" -> WithPolling(WithNew(sets[type], ROAMING), modes)
                              [] type = "values" -> WithSpoofed(sets[type])
                              [] OTHER -> sets[type]]

Completed(name, d) ==
  IF name # "rf_" THEN d
  ELSE [d EXCEPT !.channels = [i \in DOMAIN @ |->
         [@[i] EXCEPT !.parameterSets = WithKeys(IF i = 0 THEN WithFirst(@, d.rxModes) ELSE @)]]]
----------------------------------------------------------------------------
(* Types of devices.                                                       *)

Unsigned(n) == IF n < 0 THEN Most ELSE n

\* Mutant: the version that is no longer supported is.
WithOneMore(s, operator, version) ==
  [s EXCEPT !.minFirmwareVersion = CASE operator \in {"e", "ge"} -> version [] operator = "g" -> version + 1 [] OTHER -> @,
            !.maxFirmwareVersion = IF operator \in {"e", "le", "l"} THEN version ELSE @]

WithFirmware(s, operator, version) ==
  [s EXCEPT !.minFirmwareVersion = CASE operator \in {"e", "ge"} -> version [] operator = "g" -> version + 1 [] OTHER -> @,
            !.maxFirmwareVersion = CASE operator \in {"e", "le"} -> version [] operator = "l" -> Unsigned(version - 1) [] OTHER -> @]

\* What one byte of the pairing packet says; index 22 is not supported.
WithByte(firmware, s, p) ==
  LET typeID == IF s.typeID = -1 THEN 0 ELSE s.typeID
  IN  CASE p.index = 10 * Unit -> [s EXCEPT !.typeID = p.constValue]
        [] p.index \in {9 * Unit, 2 * Unit} /\ firmware = -1 -> WithFirmware(s, p.booleanOperator, p.constValue)
        [] p.index = 0 -> [s EXCEPT !.typeID = typeID + 256 * p.constValue]
        [] p.index = Unit -> [s EXCEPT !.typeID = typeID + p.constValue]
        [] p.index = 22 * Unit -> [s EXCEPT !.ignore = TRUE]
        [] OTHER -> s

TypeConverted(t) ==
  LET none == [typeID |-> t.typeID, minFirmwareVersion |-> 0, maxFirmwareVersion |-> 0, ignore |-> FALSE]
      s == IF t.typeID # -1 THEN none ELSE FoldLeft(LAMBDA a, p : WithByte(t.firmware, a, p), none, t.parameters)
  IN  IF t.firmware = -1 THEN s ELSE WithFirmware(s, t.booleanOperator, t.firmware)

SupportedDevicesConverted(types) ==
  LET all == [i \in DOMAIN types |-> [id |-> types[i].id, description |-> types[i].name] @@ TypeConverted(types[i])]
      known == SelectSeq(all, LAMBDA t : ~t.ignore)
  IN  [i \in DOMAIN known |-> SupportedDeviceParsed(Members(known[i], {"id", "description", "minFirmwareVersion", "maxFirmwareVersion"})
                                                    @@ [typeNumber |-> known[i].typeID])]

\* SupportedDevice::checkFirmwareVersion(): all match if it is not known, and without a maximum all from the minimum on.
checkFirmwareVersion(s, version) ==
  version < 0 \/ (version >= s.minFirmwareVersion /\ (s.maxFirmwareVersion = 0 \/ version <= s.maxFirmwareVersion))
getType(d, typeNumber, version) ==
  SelectSeq(d.supportedDevices, LAMBDA s : s.typeNumber = typeNumber /\ checkFirmwareVersion(s, version))
----------------------------------------------------------------------------
(* Parameters.                                                             *)

\* Each of the factors there are becomes a cast.
ScalesConverted(c) ==
  LET scale(operation, factor) == [name |-> "integerIntegerScale", operation |-> operation, factor |-> factor, offset |-> Hm!Quotient(c.offset, Unit)]
  IN  (IF c.mul > 0 THEN <<scale("multiplication", c.mul)>> ELSE <<>>) \o (IF c.div > 0 THEN <<scale("division", c.div)>> ELSE <<>>)
      \o (IF c.factor # 0 THEN <<scale("multiplication", c.factor)>> ELSE <<>>)

MapConverted(c) ==
  [name |-> "integerIntegerMap", pairs |-> c.pairs,
   direction |-> CASE c.fromDevice /\ c.toDevice -> "both" [] c.fromDevice -> "fromDevice" [] c.toDevice -> "toDevice" [] OTHER -> "none"]

BooleanConverted(c) ==
  LET settings == [invert |-> c.invert, threshold |-> c.threshold, trueValue |-> c.valueTrue, falseValue |-> c.valueFalse]
  IN  CASE c.type = "boolean_integer" -> settings @@ [name |-> "booleanInteger"]
        [] c.type = "boolean_decimal" -> [m \in DOMAIN settings |-> IF m = "invert" THEN c.invert ELSE settings[m] * Unit] @@ [name |-> "booleanDecimal"]
        [] OTHER -> [name |-> "booleanString", invert |-> c.invert, trueValue |-> c.stringValueTrue, falseValue |-> c.stringValueFalse]

Renamed == [string_unsigned_integer |-> "stringUnsignedInteger", option_string |-> "optionString", rpc_binary |-> "rpcBinary", cfm |-> "cfm",
            string_json_array_float |-> "stringJsonArrayDecimal", ccrtdn_party |-> "ccrtdnParty", hexstring_bytearray |-> "hexStringByteArray"]

\* A number of decimals becomes one of a text.
OtherConverted(c) ==
  CASE c.type = "float_configtime" -> [name |-> "decimalConfigTime", valueSize |-> c.valueSize, factors |-> c.factors]
    [] c.type = "integer_tinyfloat" -> [name |-> "integerTinyFloat"] @@ Members(c, DOMAIN IntegerTinyFloat)
    [] c.type = "blind_test" -> [name |-> "blindTest", value |-> c.stringValue]
    [] c.type = "option_integer" -> [name |-> "optionInteger", pairs |-> c.pairs]
    [] c.type = "toggle" -> [name |-> "toggle", parameter |-> c.stringValue, on |-> c.on, off |-> c.off]
    [] OTHER -> [name |-> Renamed[c.type]]

CastsConverted(c) ==
  CASE c.type = "float_integer_scale" -> <<[name |-> "decimalIntegerScale", factor |-> c.factor, offset |-> c.offset]>>
    [] c.type = "integer_integer_scale" -> ScalesConverted(c)
    [] c.type = "float_uint8_string_scale" -> IF c.factor = 0 THEN <<>> ELSE <<[name |-> "decimalStringScale", factor |-> c.factor]>>
    [] c.type = "integer_integer_map" -> <<MapConverted(c)>>
    [] c.type \in {"boolean_integer", "boolean_decimal", "boolean_string"} -> <<BooleanConverted(c)>>
    [] OTHER -> <<OtherConverted(c)>>

LogicalConverted(o) ==
  LET values == [defaultValue |-> o.defaultValue, setToValueOnPairing |-> o.enforceValue,
                 given |-> (IF o.defaultValueExists THEN {"defaultValue"} ELSE {}) \cup (IF o.enforce THEN {"setToValueOnPairing"} ELSE {})]
      limits == [minimumValue |-> o.min, maximumValue |-> o.max]
  IN  CASE o.type = "boolean" -> [type |-> "tBoolean"] @@ values
        [] o.type = "action" -> LogicalParsed([type |-> "tAction"])
        [] o.type = "string" -> [type |-> "tString"] @@ values
        [] o.type = "option" -> [type |-> "tEnum", values |-> [i \in DOMAIN o.options |-> Members(o.options[i], {"id", "index"})]] @@ limits @@ values
        [] OTHER -> [type |-> IF o.type = "float" THEN "tFloat" ELSE "tInteger", specialValues |-> o.specialValues] @@ limits @@ values

\* The first and last byte it occupies are not derived from its index.
PhysicalConverted(o) ==
  LET types == [boolean |-> "tBoolean", string |-> "tString"]
  IN  [type |-> IF o.type \in DOMAIN types THEN types[o.type] ELSE "tInteger", endianess |-> o.endian,
       groupId |-> IF o.valueID = "" THEN o.id ELSE o.valueID, list |-> IF o.list = 9999 THEN -1 ELSE o.list,
       memoryIndex |-> o.address.index, memoryIndexOperation |-> o.address.operation, memoryChannelStep |-> o.address.step,
       operationType |-> IF o.interface = "eeprom" THEN "memory" ELSE o.interface, startIndex |-> 0, endIndex |-> 0]
      @@ Members(o, {"index", "mask", "size", "sizeDefined"}) @@ PhysicalDefaults

PacketsConverted(type, nodes) == [i \in DOMAIN nodes |-> [type |-> type] @@ nodes[i] @@ ParameterPacketDefaults]
SetPacketsConverted(o) ==
  LET plain == IF o.setRequest = "" THEN <<>> ELSE <<[id |-> o.setRequest]>>
      others == [i \in DOMAIN o.setRequestsEx |->
                   [id |-> o.setRequestsEx[i].frame, conditionOperator |-> o.setRequestsEx[i].conditionOperator, conditionValue |-> o.setRequestsEx[i].value]]
  IN  PacketsConverted("set", [i \in DOMAIN (plain \o others) |-> (plain \o others)[i] @@ [autoReset |-> o.resetAfterSend]])
GetPacketsConverted(o) ==
  PacketsConverted("get", IF o.getRequest = "" THEN <<>> ELSE <<[id |-> o.getRequest, responseId |-> o.getResponse, autoReset |-> o.resetAfterSend]>>)
EventPacketsConverted(o) ==
  PacketsConverted("event", [i \in DOMAIN o.eventFrames |->
    [id |-> o.eventFrames[i].frame, resetDelayParameterId |-> o.eventFrames[i].dominoEventDelayID, resetTo |-> o.eventFrames[i].dominoEventValue]])

convertParameter(p) ==
  LET flags == p.uiFlags
      properties == [control |-> p.control, internal |-> Flag(flags, "internal"), isSigned |-> p.isSigned, parameterGroupSelector |-> Flag(flags, "transform"),
                     readable |-> p.operations \cap {"read", "event"} # {}, service |-> Flag(flags, "service"), sticky |-> Flag(flags, "sticky"),
                     unit |-> p.logical.unit, visible |-> ~Flag(flags, "invisible") /\ ~p.hidden, writeable |-> Flag(p.operations, "write")]
  IN  [id |-> p.id, properties |-> properties @@ PropertyDefaults, roles |-> Nothing, hasDelayedAutoResetParameters |-> p.hasDominoEvents,
       casts |-> FlattenSeq([i \in DOMAIN p.conversion |-> CastsConverted(p.conversion[i])]), logical |-> LogicalConverted(p.logical),
       physical |-> PhysicalConverted(p.physical), getPackets |-> GetPacketsConverted(p.physical),
       setPackets |-> SetPacketsConverted(p.physical), eventPackets |-> EventPacketsConverted(p.physical)]
----------------------------------------------------------------------------
(* Functions and packets.                                                  *)

SetOf == [configParameters |-> "master", variables |-> "values", linkParameters |-> "link"]

WithId(nodes) == SelectSeq(nodes, LAMBDA n : n.id # "")
NamedParameters(set) ==
  LET named == WithId(set.parameters)
  IN  [i \in DOMAIN named |-> convertParameter(named[i])]

GroupConverted(kind, set, scenarios) ==
  [memoryAddressStart |-> set.addressStart, memoryAddressStep |-> set.addressStep, ordered |-> NamedParameters(set), added |-> Nothing,
   scenarios |-> scenarios @@ set.defaultValues]
  @@ (IF kind = "linkParameters" THEN [peerChannelMemoryOffset |-> set.peerChannelOffset, channelMemoryOffset |-> set.channelOffset,
                                       peerAddressMemoryOffset |-> set.peerAddressOffset, maxLinkCount |-> set.count] ELSE Nothing)

\* An id is that of the set with the channel, and with the channel again for each selector.
GroupId(kind, set, channel) ==
  LET name == CASE set.id = "" /\ kind = "configParameters" -> "config" [] set.id = "" /\ kind = "linkParameters" -> "link-config" [] OTHER -> set.id
      selectors == SelectSeq(set.parameters, LAMBDA p : kind = "configParameters" /\ p.id # "" /\ Flag(p.uiFlags, "transform"))
  IN  <<name, channel>> \o [i \in DOMAIN selectors |-> channel]

\* The parameter that selects a group is marked afterwards; it has to be there.
Selected(group, special) ==
  [group EXCEPT !.ordered = [i \in DOMAIN @ |-> IF special # <<>> /\ @[i].id = special[1].id /\ @[i].id # ""
                               THEN [@[i] EXCEPT !.properties.parameterGroupSelector = TRUE] ELSE @[i]]]

PlainFunction(c, channel) ==
  LET kinds == {kind \in Kinds : SetOf[kind] \in DOMAIN c.parameterSets}
      enforced == IF c.enforceLinks = <<>> THEN Nothing ELSE [default |-> [id \in {e.id : e \in Range(c.enforceLinks)} |-> Last(SelectSeq(c.enforceLinks, LAMBDA e : e.id = id)).value]]
      group(kind) == IF kind \notin kinds THEN NewGroup(kind)
                     ELSE GroupConverted(kind, c.parameterSets[SetOf[kind]], IF kind = "linkParameters" THEN enforced ELSE Nothing)
      id(kind) == IF kind \in kinds THEN GroupId(kind, c.parameterSets[SetOf[kind]], channel.startIndex) ELSE <<>>
  IN  [channel |-> channel.startIndex, channelCount |-> channel.count, type |-> channel.type,
       countFromVariable |-> c.countFromVariable, defaultLinkScenarioElementId |-> c.function,
       defaultGroupedLinkScenarioElementId1 |-> c.pairFunction[1], defaultGroupedLinkScenarioElementId2 |-> c.pairFunction[2],
       direction |-> IF c.direction = {} THEN "none" ELSE CHOOSE d \in c.direction : TRUE,
       dynamicChannelCountIndex |-> Hm!Quotient(c.countFromSysinfo, Unit), dynamicChannelCountSize |-> c.countFromSysinfoSize,
       encryptionEnabledByDefault |-> c.aesDefault, forceEncryption |-> c.aesAlways, groupId |-> c.teamTag, grouped |-> c.paired, hasGroup |-> c.hasTeam,
       internal |-> Flag(c.uiFlags, "internal"), visible |-> Flag(c.uiFlags, "visible") /\ ~c.hidden, deletable |-> FALSE,
       linkSenderFunctionTypes |-> Range(c.sourceNames), linkReceiverFunctionTypes |-> Range(c.targetNames),
       physicalChannelIndexOffset |-> c.physicalIndexOffset, alternativeFunctions |-> <<>>, groups |-> [kind \in Kinds |-> id(kind)],
       own |-> [kind \in Kinds |-> Selected(group(kind), IF kind = "configParameters" THEN c.specialParameter ELSE <<>>)]]

\* The configurations of a channel get its place and type.
convertChannel(c) ==
  [PlainFunction(c, c) EXCEPT !.alternativeFunctions = [i \in DOMAIN c.subconfigs |-> PlainFunction(c.subconfigs[i], c)]]

Payload(p) == Members(p, {"isSigned", "omitIf", "omitIfSet", "index", "size", "index2", "size2", "index2Offset", "constValueString"})
              @@ [constValueInteger |-> p.constValue, parameterId |-> IF p.additionalParameter = "" THEN p.param ELSE p.additionalParameter]
BinaryPayload(p) == Payload(p) @@ BinaryPayloadParsed(Nothing)
JsonPayload(p) ==
  LET constant == CASE p.constValue = -1 -> Nothing
                    [] p.type = "boolean" -> [constValueBoolean |-> p.constValue # 0]
                    [] OTHER -> [constValueInteger |-> p.constValue]
      text == IF p.constValueString = "" THEN Nothing ELSE [constValueString |-> p.constValueString]
  IN  JsonPayloadParsed(constant @@ text @@ [key |-> p.field, subkey |-> p.subfield, parameterId |-> Payload(p).parameterId])

convertPacket(f) ==
  LET binary == SelectSeq(f.parameters, LAMBDA p : p.field = "")
      json == SelectSeq(f.parameters, LAMBDA p : p.field # "")
  IN  [channel |-> f.fixedChannel, channelIndex |-> f.channelField, channelSize |-> f.channelFieldSize, length |-> f.size, subtypeSize |-> f.subtypeFieldSize,
       direction |-> CASE f.direction = "fromDevice" -> "toCentral" [] f.direction = "toDevice" -> "fromCentral" [] OTHER -> "none",
       binaryPayloads |-> [i \in DOMAIN binary |-> BinaryPayload(binary[i])], jsonPayloads |-> [i \in DOMAIN json |-> JsonPayload(json[i])]]
      @@ Members(f, {"doubleSend", "function1", "function2", "maxPackets", "metaString1", "metaString2", "responseSubtype", "responseType",
                     "splitAfter", "subtype", "subtypeIndex", "type"}) @@ PacketDefaults
----------------------------------------------------------------------------
(* The device.                                                             *)

VariablesOf(f) == f.own["variables"].ordered
Ids(nodes) == {n.id : n \in Range(nodes)}

\* The packets of an event say how large a value is and whether it has a sign.
WithPayloads(packets, p) ==
  LET told == SelectSeq(p.eventPackets, LAMBDA e : e.id \in DOMAIN packets)
      payloads == SelectSeq(FlattenSeq([i \in DOMAIN told |-> packets[told[i].id].binaryPayloads]), LAMBDA b : b.parameterId = p.id)
      sized == SelectSeq(payloads, LAMBDA b : b.size > 0)
  IN  [p EXCEPT !.properties.isSigned = @ \/ \E b \in Range(payloads) : b.isSigned,
                !.physical.sizeDefined = @ \/ sized # <<>>, !.physical.size = IF sized = <<>> THEN @ ELSE Last(sized).size]

\* The last function that tells of a packet gives it its offset.
WithOffset(functions, id, packet) ==
  LET telling == {c \in DOMAIN functions : \E p \in Range(VariablesOf(functions[c])) : id \in Ids(p.eventPackets)}
  IN  IF telling = {} THEN packet ELSE [packet EXCEPT !.channelIndexOffset = functions[Max(telling)].physicalChannelIndexOffset]

AssociatedVariables(functions, id) ==
  UNION {{<<functions[c].channel, p.id>> : p \in {v \in Range(VariablesOf(functions[c])) : id \in PacketIds(v)}} : c \in DOMAIN functions}

FunctionsOf(functions, packets) ==
  [functions |-> [i \in DOMAIN functions |-> [functions[i] EXCEPT !.own["variables"].ordered = [j \in DOMAIN @ |-> WithPayloads(packets, @[j])]]],
   packets |-> [id \in DOMAIN packets |-> WithOffset(functions, id, packets[id])],
   associatedVariables |-> [id \in DOMAIN packets |-> AssociatedVariables(functions, id)],
   valueRequestPackets |-> [i \in DOMAIN functions |-> UNION {Ids(p.getPackets) : p \in Range(VariablesOf(functions[i]))} \cap DOMAIN packets]]

Receiving == [always |-> "always", burst |-> "wakeOnRadio", config |-> "config", wakeup |-> "wakeUp", wakeup2 |-> "wakeUp2", lazy_config |-> "lazyConfig"]
convert(d) ==
  [version |-> d.version, metadata |-> "", supportedDevices |-> SupportedDevicesConverted(d.supportedTypes),
   runProgram |-> d.runProgram @@ RunProgramDefaults, dynamicChannels |-> d.countFromSysinfo, dynamicChannelCount |-> -1,
   properties |-> [hasBattery |-> d.hasBattery, timeout |-> d.cyclicTimeout, memorySize |-> d.eepSize, receiveModes |-> {Receiving[m] : m \in d.rxModes},
                   visible |-> Flag(d.uiFlags, "visible"), internal |-> Flag(d.uiFlags, "internal"), deletable |-> ~Flag(d.uiFlags, "dontdelete"),
                   encryption |-> d.supportsAES, needsTime |-> d.needsTime] @@ DeviceDefaults,
   groups |-> [kind \in Kinds |-> Nothing]]
  @@ FunctionsOf([i \in DOMAIN d.channels |-> convertChannel(d.channels[i])], [id \in DOMAIN d.frames |-> convertPacket(d.frames[id])])

\* The device of a team is received in the same way as the device itself.
WithTeam(all) ==
  LET modes == all[1].properties.receiveModes
  IN  all[1] @@ [group |-> [i \in 1..Len(all) - 1 |-> [all[i + 1] EXCEPT !.properties.receiveModes = IF @ = {"always"} THEN modes ELSE @]]]
convertAll(d) ==
  LET devices == <<d>> \o d.team
  IN  WithTeam([i \in DOMAIN devices |-> convert(devices[i])])
----------------------------------------------------------------------------
LoadHomeMatic ==
  /\ homematic = <<>>
  /\ \E f \in HomeMaticFiles :
       /\ Last(f[1]) \notin Skipped
       /\ \E d \in {Completed(Last(f[1]), Hm!Device(f[1], f[2]))} : homematic' = <<[old |-> d, new |-> convertAll(d)]>>

\* What both kinds of descriptions do with the number of channels that a device tells.
SetCountFromSysinfo(count) ==
  /\ homematic # <<>> /\ homematic[1].new.dynamicChannels.index > -1 /\ homematic[1].new.dynamicChannelCount = -1
  /\ \E c \in {WithDynamicChannels(homematic[1].new, count)} :
       homematic' = <<[old |-> Hm!setCountFromSysinfo(homematic[1].old, count),
                       new |-> [c EXCEPT !.valueRequestPackets = @ @@ [i \in DOMAIN c.functions |-> @[c.functions[i].channel]]]]>>
----------------------------------------------------------------------------
(* Properties.                                                             *)

\* The bounds that a type gives for the firmware, as pairs of operator and version.
Bounds(t) ==
  IF t.typeID # -1 THEN {<<t.booleanOperator, t.firmware>>} \ {<<t.booleanOperator, -1>>}
  ELSE {<<p.booleanOperator, p.constValue>> : p \in {q \in Range(t.parameters) : q.index \in {9 * Unit, 2 * Unit}}}

(***************************************************************************)
(* What is not converted alike: a maximum of 0, which stands for none; of  *)
(* the types without a number those that give a firmware as well, only one *)
(* of the two bytes of the number or the whole number too, and those with  *)
(* bytes the converter does not know.                                      *)
(***************************************************************************)
TypeDiffers(t) ==
  LET at(i) == \E p \in Range(t.parameters) : p.index = i * Unit
  IN  \/ \E b \in Bounds(t) : (b[1] \in {"e", "le"} /\ b[2] <= 0) \/ (b[1] = "l" /\ b[2] <= 1)
      \/ /\ t.typeID = -1
         /\ t.firmware # -1 \/ at(0) # at(1) \/ (at(0) /\ at(10)) \/ \E p \in Range(t.parameters) : p.index \notin {i * Unit : i \in {0, 1, 2, 9, 10, 22}}

First(types) == IF types = <<>> THEN "" ELSE Head(types).id
SameTypes(old, new) ==
  (\A t \in Range(old.supportedTypes) : ~TypeDiffers(t)) =>
    \A n \in TypeNumbers, version \in FirmwareVersions : First(getType(new, n, version)) = First(Hm!getType(old, n, version))

\* Offsets and factors of integers, which the old format knows but does not use; the other direction
\* of options; numbers that stand for both booleans; and exponents that no integer has.
ConversionDiffers(c) ==
  \/ c.type = "integer_integer_scale" /\ (c.factor # 0 \/ c.offset # 0)
  \/ c.type = "option_integer" /\ ~(c.fromDevice /\ c.toDevice)
  \/ c.type = "boolean_integer" /\ c.valueFalse # c.valueTrue /\ c.valueFalse >= c.threshold
  \/ c.type = "integer_tinyfloat" /\ c.exponentSize > 3

Comparable(p) ==
  /\ p.logical.type \in {"option", "integer", "float", "boolean"} /\ p.physical.size \in 100..2 * Unit
  /\ \A c \in Range(p.conversion) : c.type \notin DOMAIN Renamed \cup {"boolean_string", "float_uint8_string_scale"} /\ ~ConversionDiffers(c)

\* The old format cuts off where the new one rounds.
Alike(p, a, b) ==
  a = b \/ /\ \E c \in Range(p.conversion) : c.type = "integer_integer_scale"
           /\ a - b \in {-1, 1} \cup {2^Hm!BitSize(p) - 1}

ValueOf(p, v) ==
  CASE p.logical.type = "float" -> v.floatValue [] p.logical.type = "boolean" -> v.booleanValue [] OTHER -> v.integerValue

\* Only the new format brings a value that it reads into its range.  Special integers are looked up
\* by the decimal, which neither the sign nor a conversion changes.
InRangeOf(p, v) ==
  LET x == ValueOf(p, v)
  IN  CASE p.logical.type = "boolean" \/ (p.logical.type = "option" /\ p.conversion = <<>>) -> x
        [] p.logical.type = "float" /\ Hm!Special(p, x) -> x
        [] p.logical.type = "integer" /\ (x = p.logical.defaultValue \/ \E s \in Range(p.logical.specialValues) : v.floatValue = s * Unit) -> x
        [] OTHER -> Hm!Within(p, x)

SameReading(p, q) ==
  LET bytes(n) == [i \in 1..ByteSize(q) |-> (n \div 256^(ByteSize(q) - i)) % 256]
  IN  \A n \in {0, 1, 2, 3, 7, 31, 127, 128, 200, 254, 255, 256, 1000, 32768, 65535} : n < 2^BitSize(q) =>
        Alike(p, LogicalValue(q, convertFromPacket(q, bytes(n))), InRangeOf(p, Hm!convertFromPacket(p, bytes(n), FALSE)))

\* Numbers at the bounds and beyond; options are not beyond them.
Written(p) ==
  CASE p.logical.type = "boolean" -> BOOLEAN
    [] p.logical.type = "option" -> 0..p.logical.max
    [] OTHER -> {x \in {p.logical.min, p.logical.max, p.logical.defaultValue, 0, 1, 7, 100, 500, 21500} \cup Range(p.logical.specialValues) :
                   x \in -1000000..1000000}
SameWriting(p, q) ==
  \A x \in Written(p) :
    Alike(p, FromBytes(Hm!convertToPacket(p, ToVariable(q, x))) % 2^BitSize(q), FromBytes(convertToPacket(q, ToVariable(q, x))))

IdsInOrder(nodes) == [i \in DOMAIN WithId(nodes) |-> WithId(nodes)[i].id]
SameParameters(set, group) ==
  LET named == WithId(set.parameters)
      new == group.ordered
  IN  /\ IdsInOrder(new) = IdsInOrder(named)
      /\ \A list \in set.lists : IdsInOrder(SelectSeq(new, LAMBDA p : p.physical.list = list)) = IdsInOrder(Hm!getList(set, list))
      /\ \A i \in DOMAIN new : Comparable(named[i]) =>
           \E q \in {Conversion(new[i])} : SameReading(named[i], q) /\ SameWriting(named[i], q)

SameChannel(c, f) ==
  /\ \A kind \in Kinds : IF SetOf[kind] \in DOMAIN c.parameterSets THEN SameParameters(c.parameterSets[SetOf[kind]], f.own[kind])
                                                               ELSE f.own[kind].ordered = <<>>
  /\ Len(f.alternativeFunctions) = Len(c.subconfigs)
\* The frames of conditional requests belong to a value in the new format only.
Conditional(channels, id) ==
  UNION {{<<channels[i].startIndex, p.id>> : p \in {q \in Range(Hm!ValuesOf(channels[i])) : \E r \in Range(q.physical.setRequestsEx) : r.frame = id}} : i \in DOMAIN channels}
SamePackets(old, new) ==
  /\ \A id \in DOMAIN old.frames :
       /\ new.packets[id].channelIndexOffset = old.frames[id].channelIndexOffset
       /\ new.associatedVariables[id] = old.frames[id].associatedValues \cup Conditional(old.channels, id)
  /\ new.valueRequestPackets = old.valueRequestFrames

(***************************************************************************)
(* A HomeMatic description is the same device after the conversion         *)
(* (HmConverter::convert()): it recognizes the same devices and firmware,  *)
(* has the same channels and parameters, each of which is read from and    *)
(* written to packets as before, asks for the same values in the same      *)
(* packets, also for the channels that a device adds.  Only what is named  *)
(* above differs.                                                          *)
(***************************************************************************)
ConvertedIsSame ==
  \A h \in Range(homematic) :
    /\ SameTypes(h.old, h.new) /\ SamePackets(h.old, h.new)
    /\ DOMAIN h.new.functions = DOMAIN h.old.channels /\ h.new.dynamicChannels = h.old.countFromSysinfo
    /\ \A i \in DOMAIN h.old.channels :
         LET c == h.old.channels[i]
             f == h.new.functions[i]
         IN  /\ SameChannel(c, f)
             /\ \A j \in DOMAIN c.subconfigs : SameChannel(c.subconfigs[j], f.alternativeFunctions[j])
==========================================================================================
