------------------------------------- MODULE MCCodec -------------------------------------
(* Ten parameters of all types side by side in a packet of ten bytes, loaded from a file; *)
(* and files of device descriptions, and of devices in the older HomeMatic format: a      *)
(* small one, of which one element after the other is set to something unusual, and one   *)
(* of all.                                                                                *)
EXTENDS Codec

Variants(r, options) ==
  {r, [m \in DOMAIN options |-> CHOOSE v \in options[m] : TRUE] @@ r}
  \cup UNION {{(m :> v) @@ r : v \in options[m]} : m \in DOMAIN options}

MCProperties == Variants(Nothing, [
  readable |-> {FALSE}, writeable |-> {FALSE}, readOnInit |-> {TRUE}, transmitted |-> {FALSE},
  addonWriteable |-> {FALSE}, password |-> {TRUE}, visible |-> {FALSE}, internal |-> {TRUE},
  parameterGroupSelector |-> {TRUE}, service |-> {TRUE}, serviceInverted |-> {TRUE}, sticky |-> {TRUE},
  transform |-> {TRUE}, isSigned |-> {TRUE, FALSE}, control |-> {"x"}, unit |-> {"x"}, unit_code |-> {3},
  mandatory |-> {TRUE}, formFieldType |-> {"x"}, formPosition |-> {0}, metadata |-> {"x"},
  resetAfterRestart |-> {TRUE}, ccu2Visible |-> {FALSE}, linkedParameter |-> {"x"}, priority |-> {2}])

Named(name, options) == Variants([name |-> name], options)
MCCasts ==
  {[name |-> n] : n \in WithoutSettings}
  \cup Named("decimalIntegerScale", [factor |-> {0, 10}, offset |-> {500}])
  \cup Named("decimalIntegerInverseScale", [factor |-> {5}])
  \cup Named("integerIntegerScale", [operation |-> {"division", "multiplication"}, factor |-> {0, 1, 10}, offset |-> {1}])
  \cup Named("integerOffset", [direction |-> {"fromPacket", "toPacket"}, addOffset |-> {0, 3}])
  \cup Named("decimalOffset", [direction |-> {"fromPacket"}, subtractFromOffset |-> {500}])
  \cup Named("integerIntegerMap", [direction |-> {"fromDevice", "toDevice", "both"},
                                   pairs |-> {<< <<2, 5>>, <<1, 5>>, <<2, 6>> >>}])
  \cup Named("booleanInteger", [trueValue |-> {200}, falseValue |-> {1}, invert |-> {TRUE}, threshold |-> {0, 2}])
  \cup Named("booleanDecimal", [trueValue |-> {1500}, falseValue |-> {500}, invert |-> {TRUE}, threshold |-> {0}])
  \cup Named("booleanString", [trueValue |-> {"x"}, falseValue |-> {"y"}, invert |-> {TRUE}])
  \cup Named("decimalConfigTime", [factors |-> {<<500, 1000>>}, valueSize |-> {500}])
  \cup Named("integerTinyFloat", [mantissaStart |-> {0}, mantissaSize |-> {3}, exponentStart |-> {3}, exponentSize |-> {0}])
  \cup Named("blindTest", [value |-> {7}]) \cup Named("optionInteger", [pairs |-> {<< <<2, 5>>, <<1, 5>> >>}])
  \cup Named("toggle", [parameter |-> {"x"}, on |-> {1}, off |-> {200}])
  \cup Named("stringReplace", [search |-> {"+", "%2B"}, replace |-> {"x"}])
  \cup Named("round", [decimalPlaces |-> {500, 0, 2000}]) \cup Named("generic", [type |-> {"x"}])

MCRoles ==
  LET of(id) == [id |-> id]
      options == [direction |-> {"input", "output"}, invert |-> {TRUE}, scaleMin |-> {10}, scaleMax |-> {100},
                  valueMin |-> {5}, valueMax |-> {50}]
  IN  {<<n>> : n \in Variants(of(100203), options)} \cup {<<of(0)>>, <<of(100200)>>, <<of(100000)>>}
      \cup {<<[of(100200) EXCEPT !.id = 100200] @@ [invert |-> TRUE], of(100203) @@ [direction |-> "input"]>>,
            <<of(100203) @@ [direction |-> "input"], of(100200) @@ [invert |-> TRUE]>>,
            <<of(100203), of(100304) @@ [direction |-> "output"]>>}

Typed(type, options) == Variants([type |-> type], options)
MCLogical ==
  Typed("tInteger", [minimumValue |-> {-5, Least}, maximumValue |-> {9}, defaultValue |-> {0, 4},
                     setToValueOnPairing |-> {3}, specialValues |-> {[NOT_USED |-> 255]}])
  \cup Typed("tInteger64", [minimumValue |-> {-5}, defaultValue |-> {4}])
  \cup Typed("tFloat", [minimumValue |-> {-500, 0}, maximumValue |-> {9500}, defaultValue |-> {500},
                        setToValueOnPairing |-> {0}, specialValues |-> {[NOT_USED |-> 100500]}])
  \cup Typed("tBoolean", [defaultValue |-> {FALSE, TRUE}, setToValueOnPairing |-> {TRUE}])
  \cup Typed("tAction", [defaultValue |-> {TRUE}, setToValueOnPairing |-> {TRUE}])
  \cup Typed("tString", [defaultValue |-> {"", "x"}, setToValueOnPairing |-> {"x"}])
  \cup {[type |-> "tArray"], [type |-> "tStruct"]}
  \cup Variants([type |-> "tEnum", values |-> <<[id |-> "a"], [id |-> "b"]>>],
         [values |-> {<<[id |-> "a"], [id |-> "b", index |-> 3]>>, <<[id |-> "a", index |-> -1], [id |-> "b"]>>},
          defaultValue |-> {1}, setToValueOnPairing |-> {1}])

MCPhysical == Typed("tInteger", [
  groupId |-> {"x"}, operationType |-> {"config", "command"}, typeString |-> {"x"}, endianess |-> {"little"},
  list |-> {1}, address |-> {12, 999999, 1000000, 9999999}, index |-> {9000, 9300, 2040}, size |-> {300, 1000, 2000},
  bitSize |-> {0, 3}, mask |-> {7}, memoryIndex |-> {1500}, memoryIndexOperation |-> {"addition"},
  memoryChannelStep |-> {1000}]) \cup Typed("tString", [size |-> {4000}])

MCParameterPackets == Variants([id |-> "p", type |-> "set"], [
  type |-> {"get", "event", "none"}, responseId |-> {"x"}, autoReset |-> {<<"x", "y">>}, resetDelayParameterId |-> {"x"},
  resetTo |-> {5}, conditionOperator |-> {"ge"}, conditionValue |-> {0}, delay |-> {100}])

MCParameters ==
  LET of(field, values) == {[id |-> "x"] @@ (field :> v) : v \in values}
  IN  of("properties", MCProperties) \cup of("casts", {<<c>> : c \in MCCasts}) \cup of("roles", MCRoles)
      \cup of("logical", MCLogical) \cup of("physical", MCPhysical) \cup of("packets", {<<p>> : p \in MCParameterPackets})
      \cup of("id", {"", "AES_ACTIVE"})
      \cup {[id |-> "x", logical |-> [type |-> "tFloat", minimumValue |-> -500], properties |-> [isSigned |-> FALSE]],
            [id |-> "x", roles |-> << [id |-> 100203, scaleMin |-> 1] >>, logical |-> [type |-> "tInteger", maximumValue |-> 9]],
            [id |-> "x", casts |-> << [name |-> "invert"], [name |-> "decimalIntegerInverseScale"], [name |-> "generic"],
                                      [name |-> "decimalStringScale"] >>]}

MCPackets == Variants(Nothing, [
  direction |-> {"fromCentral", "toCentral"}, length |-> {9}, type |-> {1}, subtype |-> {2}, subtypeIndex |-> {9},
  subtypeSize |-> {2000}, function1 |-> {"x"}, function2 |-> {"x"}, metaString1 |-> {"x"}, metaString2 |-> {"x"},
  responseType |-> {3}, responseSubtype |-> {4}, responseTypeId |-> {"x"}, channel |-> {0}, channelIndex |-> {9},
  channelSize |-> {600}, channelIndexOffset |-> {1}, doubleSend |-> {TRUE}, repeat |-> {FALSE}, splitAfter |-> {8},
  maxPackets |-> {2},
  responses |-> {<<r>> : r \in Variants(Nothing, [responseId |-> {"x"}, conditionOperator |-> {"e"},
                                          conditionParameterId |-> {"x"}, conditionChannel |-> {1}, conditionValue |-> {0}])},
  binaryPayloads |-> {<<b>> : b \in Variants(Nothing, [
    index |-> {9500}, size |-> {250}, index2 |-> {3000}, size2 |-> {500}, bitIndex |-> {1}, bitSize |-> {2},
    index2Offset |-> {0}, constValueInteger |-> {0}, constValueDecimal |-> {1500}, constValueString |-> {"x"},
    isSigned |-> {TRUE}, omitIf |-> {0, 5}, parameterId |-> {"x"}, parameterChannel |-> {1}, metaInteger1 |-> {1},
    metaInteger2 |-> {1}, metaInteger3 |-> {1}, metaInteger4 |-> {1}])},
  jsonPayloads |-> {<<j>> : j \in Variants(Nothing, [
    key |-> {"x"}, subkey |-> {"x"}, subsubkey |-> {"x"}, keyPath |-> {<<"x">>}, parameterId |-> {"x"},
    constValueBoolean |-> {TRUE, FALSE}, constValueInteger |-> {-1}, constValueDecimal |-> {0}, constValueString |-> {""}])},
  httpPayloads |-> {<<h>> : h \in Variants(Nothing, [
    key |-> {"x"}, parameterId |-> {"x"}, constValueBoolean |-> {FALSE}, constValueInteger |-> {5},
    constValueDecimal |-> {-1000}, constValueString |-> {"x"}])}])

MCFunctions == Variants([channel |-> 1, type |-> "x", groups |-> [variables |-> "v", configParameters |-> "c"]], [
  channel |-> {0, 4}, channelCount |-> {3}, encryptionEnabledByDefault |-> {TRUE}, visible |-> {FALSE},
  internal |-> {TRUE}, deletable |-> {TRUE}, dynamicChannelCountIndex |-> {9}, dynamicChannelCountSize |-> {600, 0},
  countFromVariable |-> {"x"}, physicalChannelIndexOffset |-> {-1}, grouped |-> {TRUE}, direction |-> {"sender", "receiver"},
  forceEncryption |-> {TRUE}, defaultLinkScenarioElementId |-> {"x"}, defaultGroupedLinkScenarioElementId1 |-> {"x"},
  defaultGroupedLinkScenarioElementId2 |-> {"x"}, hasGroup |-> {TRUE}, groupId |-> {"x"},
  linkSenderFunctionTypes |-> {{"x", "y"}}, linkReceiverFunctionTypes |-> {{"x"}},
  groups |-> {[variables |-> "v", linkParameters |-> "l"], [configParameters |-> "missing"], Nothing},
  alternativeFunctions |-> {<<[type |-> "y", groups |-> [variables |-> "other"]]>>}])

MCGroups ==
  LET attributes == [memoryAddressStart |-> {0}, memoryAddressStep |-> {1},
                     scenarios |-> {[on |-> [x |-> "5"]]}, parameters |-> {<<[id |-> "x"], [id |-> "y"]>>}]
      offsets == [peerChannelMemoryOffset |-> {1}, channelMemoryOffset |-> {2}, peerAddressMemoryOffset |-> {3}, maxLinkCount |-> {4}]
  IN  {[variables |-> [v |-> g, unused |-> g]] : g \in Variants(Nothing, attributes)}
      \cup {[linkParameters |-> [l |-> g]] : g \in Variants(Nothing, attributes @@ offsets)}

\* The small file.
SmallFile == [
  functions |-> <<[channel |-> 1, type |-> "x", groups |-> [variables |-> "v", configParameters |-> "c", linkParameters |-> "l"]]>>,
  properties |-> Nothing, packets |-> [p |-> Nothing],
  parameterGroups |-> [variables |-> [v |-> [parameters |-> <<[id |-> "y", packets |-> <<[id |-> "p", type |-> "get"]>>]>>]]]]

With(field, values) == {(field :> v) @@ SmallFile : v \in values}
WithParameters(kind, id, ps) == ("parameterGroups" :> (kind :> (id :> [parameters |-> ps]))) @@ SmallFile
WithParameter(kind, id, p) == WithParameters(kind, id, <<p>>)

MCFiles ==
  {WithParameter("variables", "v", p) : p \in MCParameters}
  \cup With("packets", {[p |-> p] : p \in MCPackets}) \cup With("functions", {<<f>> : f \in MCFunctions})
  \cup With("parameterGroups", MCGroups)
  \cup With("functions", {<<[channel |-> 1, channelCount |-> 0]>>})
  \cup With("functions", {<<[channel |-> 0, dynamicChannelCountIndex |-> 9, physicalChannelIndexOffset |-> 2,
                             dynamicChannelCountSize |-> 640, groups |-> [variables |-> "v"]], [channel |-> 2]>>})
  \cup With("supportedDevices", {<<d>> : d \in Variants([id |-> "x"], [
       description |-> {"x"}, productId |-> {"x"}, hardwareVersion |-> {"x"}, manufacturer |-> {"x"}, longDescription |-> {"x"},
       serialPrefix |-> {"x"}, typeNumber |-> {17, -1}, minFirmwareVersion |-> {16}, maxFirmwareVersion |-> {32}])})
  \cup With("runProgram", Variants([path |-> "x"], [path |-> {""}, arguments |-> {<<"x", "y">>}, interval |-> {60},
       startType |-> {"once", "interval", "permanent"}, script |-> {"x"}, script2 |-> {"x"}]))
  \cup With("properties", Variants(Nothing, [encryption |-> {TRUE}, timeout |-> {5}, memorySize |-> {9}, memorySize2 |-> {9},
       visible |-> {FALSE}, deletable |-> {FALSE}, internal |-> {TRUE}, needsTime |-> {TRUE}, hasBattery |-> {TRUE},
       addressSize |-> {3}, pairingMethod |-> {"x"}, interface |-> {"x"},
       receiveModes |-> {<<"always">>, <<"config", "wakeUp">>, <<"config", "none">>, <<"none", "lazyConfig">>}]))
  \cup With("version", {3}) \cup With("metadata", {"x"}) \cup With("group", {<<[metadata |-> "y"]>>})
  \cup {Restrict(SmallFile, {"functions"}),
        [metadata |-> "x", group |-> <<[metadata |-> "y"] @@ SmallFile>>] @@ SmallFile}
  \cup {("properties" :> [encryption |-> TRUE]) @@ WithParameter("configParameters", "c", p) :
          p \in {[id |-> "AES_ACTIVE"], [id |-> "x"],
                 [id |-> "AES_ACTIVE", physical |-> [type |-> "tBoolean", index |-> 3000], properties |-> [mandatory |-> TRUE]]}}
------------------------------------------------------------------------------------------
(* HomeMatic files.                                                                       *)

HmSize(n) == [type |-> "integer", size |-> n, index |-> 9000]
HmRange(type, least, most) == [type |-> type, min |-> least, max |-> most, defaultValue |-> least]
Percent == HmRange("float", 0, 100000)
Level == [specialValues |-> [NOT_USED |-> 255]] @@ HmRange("integer", 0, 200)
Signal == [type |-> "boolean", defaultValue |-> TRUE]
Mode == [type |-> "option", options |-> <<[id |-> "A"], [id |-> "B", isDefault |-> TRUE], [id |-> "C"]>>]
Key == [type |-> "action"]

Converting(logical, conversions) ==
  {[id |-> "x", logical |-> logical, conversion |-> c, physical |-> HmSize(size)] : c \in conversions, size \in {600, 1000, 2000}}
One(conversions) == {<<c>> : c \in conversions}
Entry(of, to) == [deviceValue |-> of, parameterValue |-> to]
Maps == {<<Entry(1, 200), Entry(2, 100), Entry(3, 200)>>, <<Entry(7, 1), [toDevice |-> FALSE] @@ Entry(9, 2)>>,
         <<[fromDevice |-> FALSE] @@ Entry(7, 1), Entry(9, 2)>>, <<[fromDevice |-> FALSE, toDevice |-> FALSE] @@ Entry(0, 1)>>}

HmConversions ==
  Converting(Percent, One(Variants([type |-> "float_integer_scale", factor |-> 10], [factor |-> {200, 2}, offset |-> {500}]) \cup {[type |-> "float_configtime"]}))
  \cup Converting(Level, One(Variants([type |-> "integer_integer_scale"], [mul |-> {10, 3}, div |-> {3, 4}, factor |-> {2}, offset |-> {1000}])
                            \cup {[type |-> "integer_integer_map", valueMap |-> m] : m \in Maps} \cup {[type |-> t] : t \in {"sint4_sintx", "toggle", "rc19display"}}
                            \cup Variants([type |-> "integer_tinyfloat"], [mantissaStart |-> {3}, mantissaSize |-> {5}, exponentSize |-> {3}])
                            \cup {[type |-> "blind_test", stringValue |-> 7]})
                  \cup {<<[type |-> "integer_integer_scale", mul |-> 2], [type |-> "integer_integer_map", valueMap |-> <<Entry(1, 200)>>]>>})
  \cup Converting(Signal, One(Variants([type |-> "boolean_integer"], [valueTrue |-> {200}, valueFalse |-> {1}, invert |-> {TRUE}, threshold |-> {2, 0}]))
                  \cup {<<c, [type |-> "float_integer_scale", factor |-> 10]>> :
                          c \in Variants([type |-> "boolean_decimal"], [valueTrue |-> {20}, invert |-> {TRUE}, threshold |-> {2}])})
  \cup Converting(Mode, One({[type |-> "option_integer", valueMap |-> m] : m \in Maps}))

HmLogical == {
  Percent, Level, Signal, Mode, Key, [type |-> "string"], [type |-> "integer"], [type |-> "float", min |-> -500], HmRange("integer", -100, 100),
  HmRange("integer", 3, 9), [specialValues |-> [NOT_USED |-> 111600]] @@ HmRange("float", 500, 108000),
  [type |-> "option", options |-> <<[id |-> "A"], [id |-> "B", index |-> 3]>>]}

HmPhysical == Variants([type |-> "integer"], [
  size |-> {300, 1000, 1200, 2000}, endian |-> {"little"}, index |-> {9300}, list |-> {1, 5}, mask |-> {7}, interface |-> {"command", "eeprom"}, valueID |-> {"y"},
  id |-> {"y"}, address |-> {[operation |-> "addition", index |-> 15900, step |-> 1000]}, setRequest |-> {"SET", "NONE"}, getRequest |-> {"GET"},
  resetAfterSend |-> {<<"y">>}, setRequestsEx |-> {<<[conditionOperator |-> "e", value |-> 1, frame |-> "SET"], [frame |-> "GET"]>>},
  eventFrames |-> {<<[frame |-> "EVENT"]>>, <<[frame |-> "NONE"], [frame |-> "EVENT", dominoEventValue |-> 0, dominoEventDelayID |-> "y"]>>}])

HmParameters ==
  HmConversions \cup {[id |-> "x", logical |-> l, physical |-> p] : l \in HmLogical, p \in {HmSize(1000), [endian |-> "little"] @@ HmSize(2000)}}
  \cup {[id |-> "x", logical |-> Level, physical |-> p] : p \in HmPhysical}
  \cup {[logical |-> Level, physical |-> HmSize(1000)] @@ n : n \in Variants([id |-> "x"], [
         id |-> {"", "ROAMING", "POLLING", "PRESS_SHORT", "AES_ACTIVE"}, hidden |-> {TRUE}, control |-> {"x"}, operations |-> {{"event"}, {"write"}},
         uiFlags |-> {{"invisible"}, {"transform"}, {"service", "sticky"}}, isSigned |-> {TRUE}])}

HmSet(type, ps) == [type |-> type, id |-> type, parameters |-> ps]
Event == [id |-> "EVENT", direction |-> "fromDevice", type |-> 1, isEvent |-> TRUE, parameters |-> <<[index |-> 9000, size |-> 1000, isSigned |-> TRUE, param |-> "LEVEL"]>>]
Request(id) == [id |-> id, direction |-> "toDevice", type |-> 2]
LEVEL == [id |-> "LEVEL", logical |-> Level, physical |-> [type |-> "integer", eventFrames |-> <<[frame |-> "EVENT"]>>, getRequest |-> "GET"]]
HmChannel == [startIndex |-> 1, type |-> "X", physicalIndexOffset |-> -1, parameterSets |-> <<HmSet("master", <<>>), HmSet("values", <<LEVEL>>)>>]
SmallHm == [supportedTypes |-> <<[id |-> "A", typeID |-> 17]>>, channels |-> <<HmChannel>>, frames |-> <<Event, Request("SET"), Request("GET")>>]

HmWith(field, values) == {(field :> v) @@ SmallHm : v \in values}
HmChannels(options) == HmWith("channels", {<<c>> : c \in Variants(HmChannel, options)})
HmSets(sets) == HmWith("channels", {<<[parameterSets |-> s] @@ HmChannel>> : s \in sets})

Byte(index, value) == [index |-> index * Unit, constValue |-> value]
Types == {[typeID |-> 17] @@ t : t \in Variants([id |-> "A"], [firmware |-> {0, 1, 18}])} \cup
  {[id |-> "A", typeID |-> 17, firmware |-> 18, booleanOperator |-> o] : o \in {"e", "g", "l", "ge", "le"}} \cup
  {[id |-> "A", parameters |-> ps] : ps \in {
     <<Byte(10, 17)>>, <<Byte(0, 1), Byte(1, 2)>>, <<Byte(0, 1)>>, <<Byte(1, 17)>>, <<Byte(10, 17), Byte(22, 3)>>, <<Byte(10, 17), Byte(23, 3)>>,
     <<Byte(10, 17), [booleanOperator |-> "ge"] @@ Byte(9, 16), [booleanOperator |-> "l"] @@ Byte(2, 18)>>, <<[booleanOperator |-> "le"] @@ Byte(9, 0), Byte(10, 17)>>}}
  \cup {[id |-> "A", firmware |-> 18, parameters |-> <<Byte(10, 17)>>]}

PeerAddress(offset) == [id |-> "peer", physicals |-> <<[type |-> "integer", size |-> 4000, address |-> [operation |-> "addition", index |-> offset]],
                                                       [type |-> "integer", size |-> 1000, address |-> [operation |-> "addition", index |-> offset + 4000]]>>]
Links(n) == [type |-> "link", id |-> "", peerParam |-> "peer", parameters |-> <<PeerAddress(0), LEVEL>>, defaultValues |-> [on |-> [LEVEL |-> 200]]] @@ n

\* Two channels, the second of which gets more channels, with a team.
Dynamic == [channels |-> <<HmChannel, [startIndex |-> 3, count |-> 2, countFromSysinfo |-> 9000, physicalIndexOffset |-> -2] @@ HmChannel>>] @@ SmallHm
\* The special parameter is in two configurations of the channel and in the channel itself.
Special1 == [id |-> "SELECT", logical |-> Level, physical |-> [type |-> "integer", valueID |-> "s", size |-> 1000]]
Select == [id |-> "SELECT", logical |-> Level, physical |-> [type |-> "integer", valueID |-> "v"], uiFlags |-> {"transform"}]
Alternatives == [HmChannel EXCEPT !.parameterSets = <<HmSet("master", <<Select>>)>>] @@
  [specialParameter |-> <<Special1>>, subconfigs |-> <<[parameterSets |-> <<HmSet("master", <<Select, LEVEL>>), HmSet("values", <<LEVEL>>)>>]>>]

HmFiles ==
  HmSets({<<HmSet("values", <<p, LEVEL>>)>> : p \in HmParameters} \cup {<<HmSet("master", <<p>>), HmSet("values", <<>>)>> : p \in HmParameters \ HmConversions}
         \cup {<<HmSet("values", <<>>), Links(n)>> : n \in {Nothing, [count |-> 5], [enforce |-> <<[id |-> "LEVEL", value |-> 5]>>]}}
         \cup {<<HmSet("values", <<LEVEL>>), [subsetReference |-> "d"] @@ HmSet("master", <<>>)>>})
  \cup HmChannels([startIndex |-> {0, 4}, count |-> {3}, hidden |-> {TRUE}, uiFlags |-> {{"internal"}}, direction |-> {{"sender"}}, paired |-> {TRUE},
         pairFunction |-> {<<"A", "B">>}, aesDefault |-> {TRUE}, aesAlways |-> {TRUE}, countFromSysinfo |-> {9000, 9500, 1000}, countFromSysinfoSize |-> {600, 0},
         enforceLinks |-> {<<[id |-> "LEVEL", value |-> 5]>>}, targetNames |-> {<<"X">>}])
  \cup HmWith("channels", {<<Alternatives>>, <<HmChannel, [count |-> 2] @@ HmChannel>>})
  \cup HmWith("supportedTypes", {<<t, [id |-> "B", typeID |-> 17]>> : t \in Types})
  \cup HmWith("frames", {<<f>> : f \in Variants(Event, [channelField |-> {9}, receiverChannelField |-> {10}, fixedChannel |-> {1}, direction |-> {"none"}, subtype |-> {5},
         parameters |-> {<<[index |-> 9000, size |-> 2000, additionalParameter |-> "LEVEL"]>>, <<[index |-> 9000, field |-> "x", constValue |-> 1]>>}])})
  \cup HmWith("rxModes", {{"burst"}, {"config", "wakeup"}, {}}) \cup HmWith("supportsAES", {TRUE})
  \cup HmWith("parameterSet", {HmSet("master", <<LEVEL>>)}) \cup HmWith("definitions", {<<[id |-> "d"] @@ HmSet("master", <<LEVEL>>)>>})
  \cup HmWith("runProgram", {[path |-> "x", startType |-> "once"]})
  \cup {Dynamic, [team |-> <<SmallHm>>] @@ Dynamic, [channels |-> <<[startIndex |-> 1, count |-> 1, countFromSysinfo |-> 9000] @@ HmChannel, HmChannel>>] @@ SmallHm}

MCHomeMaticFiles ==
  {<<path, f>> : path \in {<<"rf_">>, <<"/etc/", "rf_">>}, f \in {SmallHm, [supportsAES |-> TRUE] @@ SmallHm, [rxModes |-> {"burst"}] @@ SmallHm, [rxModes |-> {"config"}] @@ SmallHm}}
  \cup {<<<<"hmw_">>, f>> : f \in HmFiles} \cup {<<<<"rf_">>, f>> : f \in HmSets({<<HmSet("values", <<p>>)>> : p \in {q \in HmParameters : "conversion" \notin DOMAIN q /\ q.id # "x"}})}
  \cup {<<<<"rf_cmm.xml">>, SmallHm>>}
----------------------------------------------------------------------------
(* The packet.                                                             *)

Size(bytes, bits) == [type |-> "tInteger", size |-> bytes * Unit + bits * 100]
Inverted == <<[id |-> 100203, invert |-> TRUE]>>
InRange(type, least, most) == [type |-> type, minimumValue |-> least, maximumValue |-> most]

MCNodes == <<
  [id |-> "state", logical |-> [type |-> "tBoolean"], physical |-> Size(0, 1)],
  [id |-> "mode", physical |-> Size(0, 3), roles |-> Inverted,
   logical |-> [type |-> "tEnum", values |-> [i \in 1..7 |-> [id |-> "x"]]]],
  [id |-> "temperature", logical |-> InRange("tFloat", -20000, 50000), physical |-> Size(1, 2),
   casts |-> <<[name |-> "round", decimalPlaces |-> 500], [name |-> "decimalIntegerScale", factor |-> 10]>>],
  [id |-> "blind", logical |-> InRange("tFloat", 0, 1000), physical |-> Size(1, 0), roles |-> Inverted,
   casts |-> <<[name |-> "decimalIntegerScale", factor |-> 200]>>],
  [id |-> "time", logical |-> InRange("tFloat", 0, 108000000), physical |-> Size(1, 0), casts |-> <<[name |-> "decimalConfigTime"]>>],
  [id |-> "duration", logical |-> InRange("tInteger", 0, 8160), physical |-> Size(1, 0),
   casts |-> <<[name |-> "integerTinyFloat", mantissaStart |-> 3, mantissaSize |-> 5, exponentStart |-> 0, exponentSize |-> 3]>>],
  [id |-> "level", logical |-> [specialValues |-> [NOT_USED |-> 201]] @@ InRange("tInteger", 0, 200), physical |-> Size(1, 0),
   roles |-> <<[id |-> 100203, valueMin |-> 0, valueMax |-> 200, scaleMin |-> 0, scaleMax |-> 100]>>,
   casts |-> <<[name |-> "integerIntegerMap", direction |-> "both", pairs |-> << <<254, 200>> >>]>>],
  [id |-> "delta", logical |-> [defaultValue |-> 1] @@ InRange("tInteger", -300, 300),
   physical |-> [endianess |-> "little"] @@ Size(2, 0),
   casts |-> <<[name |-> "integerOffset", addOffset |-> 5],
               [name |-> "integerIntegerScale", operation |-> "multiplication", factor |-> 10]>>],
  [id |-> "light", logical |-> [type |-> "tBoolean"], physical |-> Size(1, 0), roles |-> Inverted,
   casts |-> <<[name |-> "booleanInteger", trueValue |-> 200]>>],
  [id |-> "interval", logical |-> [defaultValue |-> 1000] @@ InRange("tFloat", 1000, 60000), physical |-> Size(0, 6),
   casts |-> <<[name |-> "decimalOffset", subtractFromOffset |-> 61000], [name |-> "decimalIntegerInverseScale", factor |-> 60]>>]>>

MCDescription ==
  [name \in {MCNodes[i].id : i \in DOMAIN MCNodes} |->
     Conversion(parseXml(MCNodes[CHOOSE i \in DOMAIN MCNodes : MCNodes[i].id = name]))]

\* The file of the packet's device and the others.
MCAllFiles == {WithParameters("variables", "v", MCNodes)} \cup MCFiles

MCIndex == [state |-> 0, mode |-> 1, temperature |-> 4, blind |-> 14, time |-> 22, duration |-> 30,
            level |-> 38, delta |-> 46, light |-> 62, interval |-> 70]

MCContents == {Zeros(10), <<255, 0, 170, 85, 1, 128, 254, 127, 66, 255>>}

\* Whole and in fragments.
MCPayloads == MCContents \cup UNION {{SubSeq(p, 1, 5), SubSeq(p, 6, 10), SubSeq(p, 6, 7), SubSeq(p, 8, 10)} : p \in MCContents}
MCRpcHeaders == {<<>>, <<0, 0, 0, 0>>}
MCKeys == {<<7, 200, 0, 91>>}

MCValues == [
  state |-> {TRUE, FALSE},
  mode |-> {0, 2, 6, 7},
  temperature |-> {-20000, -500, 21300, 50500},
  blind |-> {0, 250, 1000, 1300},
  time |-> {3100, 3140, 1800000, 108000000},
  duration |-> {30, 31, 4000, 8160},
  level |-> {0, 50, 100, 201},
  delta |-> {-300, -1, 1, 300},
  light |-> {TRUE, FALSE},
  interval |-> {1000, 31000, 60000}]
----------------------------------------------------------------------------
(* Values of the RPC interfaces, each with something that is easily lost.  *)

E == INSTANCE Variables
Text(s) == E!String(s)
Name(s, v) == <<s, v>>
Of(pairs) == E!Struct(FoldLeft(LAMBDA m, p : E!Insert(m, p[1], p[2]), <<>>, pairs))

MCTexts == {
  <<>>, <<97>>, <<32, 9>>, <<97, 32>>, <<34, 92, 47>>, <<60, 38, 62>>, <<39>>, <<97, 0, 98>>, <<8, 9, 10, 12, 13, 27, 127>>,
  <<195, 164>>, <<226, 130, 172>>, <<240, 159, 146, 161>>, <<195>>, <<228, 97>>, <<128, 129>>, <<135, 228>>, <<123, 34>>, <<47, 47>>}
MCNumbers == {
  E!Integer(FALSE, <<>>), E!Integer(TRUE, <<1>>), E!Integer(FALSE, <<2,1,4,7,4,8,3,6,4,7>>), E!Integer(TRUE, <<2,1,4,7,4,8,3,6,4,8>>),
  E!Integer64(FALSE, <<7>>), E!Integer64(FALSE, <<2,1,4,7,4,8,3,6,4,8>>), E!Integer64(TRUE, <<5,0,0,0,0,0,0,0,0,0>>),
  E!Integer64(FALSE, <<9,2,2,3,3,7,2,0,3,6,8,5,4,7,7,4,7,8,4>>),
  E!Float(FALSE, <<>>, 0), E!Float(FALSE, <<2,5>>, -1), E!Float(TRUE, <<2>>, 0), E!Float(FALSE, <<1>>, -5), E!Float(FALSE, <<1>>, 6),
  E!Float(FALSE, <<1,2>>, 6), E!Float(FALSE, <<1,2,3,4,5,6,7,8>>, -1), E!Float(FALSE, <<1,1,1,1,1,1>>, -6), E!Float(TRUE, <<1>>, -10),
  E!Float(FALSE, <<3,3,3,3,3,3,3,3>>, -8)}
MCSamples ==
  {Text(s) : s \in MCTexts} \cup {E!Base64(s) : s \in {<<97>>, <<60>>, <<195, 164>>}} \cup MCNumbers
  \cup {E!Void, [type |-> "tVariant"], E!Boolean(TRUE), E!Boolean(FALSE), E!Binary(<<>>), E!Binary(<<0, 255, 10>>)}
  \cup {E!Array(<<>>), E!Array(<<E!Void>>), E!Array(<<E!Array(<<>>), E!Integer(FALSE, <<1>>), Text(<<34>>)>>),
        E!Struct(<<>>), Of(<<Name(<<>>, Text(<<97>>))>>), Of(<<Name(<<97>>, E!Array(<<E!Boolean(TRUE)>>)), Name(<<34, 98>>, E!Void)>>),
        Of(<<Name(<<34>>, E!Void)>>), Of(<<Name(<<92, 92, 97>>, Text(<<>>)), Name(<<98, 92>>, Text(<<92>>))>>),
        Of(<<Name(<<97>>, Of(<<Name(<<195, 164>>, E!Integer(FALSE, <<3>>))>>)), Name(<<60>>, E!Boolean(FALSE))>>),
        Of(<<Name(E!faultCode, E!Integer(FALSE, <<1>>)), Name(E!faultString, Text(<<97>>))>>),
        E!createError(E!Integer(TRUE, <<3,2>>), <<97, 34>>, TRUE), E!createError(E!Integer(TRUE, <<1>>), <<195, 164>>, FALSE)}

\* The usual settings, and each changed; all changed.
Usual == [forceInteger64 |-> FALSE, encodeVoid |-> FALSE, setInteger32 |-> TRUE, ansi |-> FALSE, chars |-> FALSE]
MCRpcOptions == {Usual, [f \in DOMAIN Usual |-> ~Usual[f]]} \cup {[Usual EXCEPT ![f] = ~Usual[f]] : f \in DOMAIN Usual}
==========================================================================================
