----------------------------------- MODULE DeviceFile -----------------------------------
(***************************************************************************)
(* A device description (HomegearDevice): it is loaded from its XML file   *)
(* and saved to it again.  The conventions are those of ParameterFile;     *)
(* packets, groups of parameters, scenarios and their entries are          *)
(* functions of their ids.  Tables that are derived from them, the         *)
(* attributes of links and the contents of the metadata are left out; the  *)
(* alternatives of a function have none themselves, and neither has the    *)
(* device that describes a group of devices another one.                   *)
(***************************************************************************)
EXTENDS ParameterFile

CONSTANTS Files,     \* the files there may be
          MaxSaves,  \* how often the description is saved
          MaxChannels  \* how many channels a function is given

VARIABLES
  file,      \* the XML file
  device,    \* the description in use, or none: a sequence of at most one
  original,  \* the description that was saved last
  saves
fileVars == <<file, device, original, saves>>
----------------------------------------------------------------------------
(* Packets.                                                                *)

PacketDefaults ==
  [direction |-> "none", length |-> -1, type |-> -1, subtype |-> -1, subtypeIndex |-> -1, subtypeSize |-> -Unit,
   function1 |-> "", function2 |-> "", metaString1 |-> "", metaString2 |-> "", responseType |-> -1,
   responseSubtype |-> -1, responseTypeId |-> "", responses |-> <<>>, channel |-> -1, channelIndex |-> -1,
   channelSize |-> Unit, channelIndexOffset |-> 0, doubleSend |-> FALSE, repeat |-> TRUE, splitAfter |-> -1,
   maxPackets |-> -1, binaryPayloads |-> <<>>, jsonPayloads |-> <<>>, httpPayloads |-> <<>>]

ResponseDefaults ==
  [responseId |-> "", conditionOperator |-> "none", conditionParameterId |-> "", conditionChannel |-> -1,
   conditionValue |-> -1]

BinaryPayloadDefaults ==
  [index |-> 0, size |-> Unit, index2 |-> 0, size2 |-> 0, bitIndex |-> 0, bitSize |-> 0, index2Offset |-> -1,
   constValueInteger |-> -1, constValueDecimal |-> -Unit, constValueString |-> "", isSigned |-> FALSE,
   omitIf |-> 0, parameterId |-> "", parameterChannel |-> -1, metaInteger1 |-> -1, metaInteger2 |-> -1,
   metaInteger3 |-> -1, metaInteger4 |-> -1]
BinaryPayloadParsed(n) == n @@ BinaryPayloadDefaults @@ [omitIfSet |-> "omitIf" \in DOMAIN n]

ConstValues == {"constValueBoolean", "constValueInteger", "constValueDecimal", "constValueString"}

\* "given" has the names of the constant values that are set.
HttpPayloadParsed(n) ==
  n @@ [key |-> "", parameterId |-> "", constValueBoolean |-> FALSE, constValueInteger |-> -1,
        constValueDecimal |-> -Unit, constValueString |-> "", given |-> DOMAIN n \cap ConstValues]
JsonPayloadParsed(n) ==
  n @@ [key |-> "", subkey |-> "", subsubkey |-> "", keyPath |-> <<>>, parameterId |-> "", constValueBoolean |-> FALSE,
        constValueInteger |-> -1, constValueDecimal |-> -Unit, constValueString |-> "",
        given |-> DOMAIN n \cap ConstValues]

PacketParsed(n) ==
  LET p == n @@ PacketDefaults
  IN  [p EXCEPT !.responses = [i \in DOMAIN @ |-> @[i] @@ ResponseDefaults],
                !.binaryPayloads = [i \in DOMAIN @ |-> BinaryPayloadParsed(@[i])],
                !.jsonPayloads = [i \in DOMAIN @ |-> JsonPayloadParsed(@[i])],
                !.httpPayloads = [i \in DOMAIN @ |-> HttpPayloadParsed(@[i])]]

ResponseSaved(r) ==
  Unless(r, [responseId |-> "", conditionOperator |-> "none", conditionParameterId |-> "", conditionChannel |-> -1,
             conditionValue |-> -1])

BinaryPayloadSaved(p) ==
  LET node == Unless(p, [index |-> 0, size |-> Unit, index2 |-> 0, size2 |-> 0, index2Offset |-> -1, bitIndex |-> 0,
                         bitSize |-> 0, parameterChannel |-> -1, metaInteger1 |-> -1, metaInteger2 |-> -1,
                         metaInteger3 |-> -1, metaInteger4 |-> -1, parameterId |-> "", constValueInteger |-> -1,
                         constValueDecimal |-> -Unit, constValueString |-> "", isSigned |-> FALSE])
              @@ (IF p.omitIfSet THEN Members(p, {"omitIf"}) ELSE Nothing)
  IN  [m \in DOMAIN node |-> IF m \in {"index", "size", "index2", "size2"} THEN Tenths(node[m]) ELSE node[m]]

JsonPayloadSaved(p) ==
  Members(p, {"key"} \cup p.given) @@ Unless(p, [subkey |-> "", subsubkey |-> "", parameterId |-> ""])
HttpPayloadSaved(p) == Members(p, {"key"} \cup p.given) @@ Unless(p, [parameterId |-> ""])

PacketSaved(p) ==
  LET whole == [p EXCEPT !.responses = [i \in DOMAIN @ |-> ResponseSaved(@[i])],
                         !.binaryPayloads = [i \in DOMAIN @ |-> BinaryPayloadSaved(@[i])],
                         !.jsonPayloads = [i \in DOMAIN @ |-> JsonPayloadSaved(@[i])],
                         !.httpPayloads = [i \in DOMAIN @ |-> HttpPayloadSaved(@[i])]]
      sizeOfSubtype == p.subtypeIndex # -1 /\ p.subtypeSize \notin {Unit, -Unit}
      sizeOfChannel == p.channelIndex # -1 /\ p.channelSize # Unit
  IN  [direction |-> IF p.direction = "fromCentral" THEN "fromCentral" ELSE "toCentral"]
      @@ Unless(whole, [length |-> -1, type |-> -1, subtype |-> -1, subtypeIndex |-> -1, function1 |-> "",
                        function2 |-> "", metaString1 |-> "", metaString2 |-> "", responseType |-> -1,
                        responseSubtype |-> -1, responseTypeId |-> "", responses |-> <<>>, channel |-> -1,
                        channelIndex |-> -1, doubleSend |-> FALSE, splitAfter |-> -1, maxPackets |-> -1,
                        binaryPayloads |-> <<>>, jsonPayloads |-> <<>>, httpPayloads |-> <<>>])
      @@ (IF sizeOfSubtype THEN [subtypeSize |-> Tenths(p.subtypeSize)] ELSE Nothing)
      @@ (IF sizeOfChannel THEN [channelSize |-> Tenths(p.channelSize)] ELSE Nothing)
----------------------------------------------------------------------------
(* Functions and groups of parameters.                                     *)

Kinds == {"configParameters", "variables", "linkParameters"}

GroupAttributes(kind) ==
  [memoryAddressStart |-> -1, memoryAddressStep |-> -1] @@
  (IF kind = "linkParameters" THEN [peerChannelMemoryOffset |-> -1, channelMemoryOffset |-> -1,
                                    peerAddressMemoryOffset |-> -1, maxLinkCount |-> -1] ELSE Nothing)

\* A parameter is in the order of the file or was added to the table of parameters only.
NewGroup(kind) == [ordered |-> <<>>, added |-> Nothing, scenarios |-> Nothing] @@ GroupAttributes(kind)

WithoutEmpty(table) == Restrict(table, DOMAIN table \ {""})

GroupParsed(kind, n) ==
  LET g == n @@ [parameters |-> <<>>, scenarios |-> Nothing] @@ GroupAttributes(kind)
      parameters == [i \in DOMAIN g.parameters |-> parseXml(g.parameters[i])]
  IN  Members(g, DOMAIN GroupAttributes(kind))
      @@ [ordered |-> SelectSeq(parameters, LAMBDA p : p.id # ""), added |-> Nothing,
          scenarios |-> [id \in DOMAIN WithoutEmpty(g.scenarios) |-> WithoutEmpty(g.scenarios[id])]]

GroupSaved(kind, g, ascending) ==
  [parameters |-> [i \in DOMAIN g.ordered |-> saveParameter(g.ordered[i], ascending)], scenarios |-> g.scenarios]
  @@ Unless(g, GroupAttributes(kind))

FunctionDefaults ==
  [channelCount |-> 1, encryptionEnabledByDefault |-> FALSE, visible |-> TRUE, internal |-> FALSE, deletable |-> FALSE,
   dynamicChannelCountIndex |-> -1, dynamicChannelCountSize |-> Unit, countFromVariable |-> "",
   physicalChannelIndexOffset |-> 0, grouped |-> FALSE, direction |-> "none", forceEncryption |-> FALSE,
   defaultLinkScenarioElementId |-> "", defaultGroupedLinkScenarioElementId1 |-> "",
   defaultGroupedLinkScenarioElementId2 |-> "", hasGroup |-> FALSE, groupId |-> "",
   linkSenderFunctionTypes |-> {}, linkReceiverFunctionTypes |-> {}]

\* "groups" has the ids of its groups, "own" those it has if there is no such id.
FunctionParsed(n) ==
  LET f == n @@ FunctionDefaults @@ [channel |-> 0, type |-> "", groups |-> Nothing, alternativeFunctions |-> <<>>]
  IN  [f EXCEPT !.groups = @ @@ [kind \in Kinds |-> ""]] @@ [own |-> [kind \in Kinds |-> NewGroup(kind)]]
WithAlternatives(f) ==
  [f EXCEPT !.alternativeFunctions = [i \in DOMAIN @ |-> FunctionParsed(@[i])]]

FunctionSaved(f) ==
  LET usual == IF f.dynamicChannelCountIndex = -1 THEN Restrict(FunctionDefaults, DOMAIN FunctionDefaults \ {"dynamicChannelCountSize"})
               ELSE FunctionDefaults
  IN  Members(f, {"channel", "type"})
      @@ Unless([f EXCEPT !.dynamicChannelCountSize = Tenths(@)], usual)
      @@ [groups |-> [kind \in {k \in Kinds : f.groups[k] # ""} |-> f.groups[kind]]]
WholeFunctionSaved(f) ==
  FunctionSaved(f) @@ [alternativeFunctions |-> [i \in DOMAIN f.alternativeFunctions |-> FunctionSaved(f.alternativeFunctions[i])]]
----------------------------------------------------------------------------
(* The parts of the device.                                                *)

SupportedDeviceDefaults ==
  [productId |-> "", hardwareVersion |-> "", manufacturer |-> "", longDescription |-> "", serialPrefix |-> "",
   typeNumber |-> 0, minFirmwareVersion |-> 0, maxFirmwareVersion |-> 0]
SupportedDeviceParsed(n) == n @@ [id |-> "", description |-> ""] @@ SupportedDeviceDefaults

\* The type -1 of all bits is taken for none.
SupportedDeviceSaved(o) ==
  Members(o, {"id", "description"}) @@ Unless(o, [SupportedDeviceDefaults EXCEPT !.typeNumber = -1])

RunProgramDefaults ==
  [path |-> "", arguments |-> <<>>, startType |-> "none", interval |-> 0, script |-> "", script2 |-> ""]
RunProgramSaved(o) ==
  IF o.path = "" THEN Nothing
  ELSE [runProgram |-> Members(o, {"path"}) @@ Unless(o, [arguments |-> <<>>, interval |-> 0])
                       @@ [startType |-> IF o.startType \in {"once", "interval"} THEN o.startType ELSE "permanent"]]

DeviceDefaults ==
  [encryption |-> FALSE, timeout |-> 0, memorySize |-> 0, memorySize2 |-> 0, visible |-> TRUE, deletable |-> TRUE,
   internal |-> FALSE, needsTime |-> FALSE, hasBattery |-> FALSE, addressSize |-> 0, pairingMethod |-> "",
   interface |-> ""]

\* Bits; "none" clears those that were set before.
ReceiveModes == <<"always", "wakeOnRadio", "config", "wakeUp", "wakeUp2", "lazyConfig">>
ReceiveModesParsed(modes) ==
  IF modes = <<>> THEN {"always"} ELSE FoldLeft(LAMBDA set, m : IF m = "none" THEN {} ELSE set \cup {m}, {}, modes)

DevicePropertiesParsed(n) ==
  IF "properties" \notin DOMAIN n THEN DeviceDefaults @@ [receiveModes |-> {}]
  ELSE [n.properties @@ DeviceDefaults @@ [receiveModes |-> <<>>] EXCEPT !.receiveModes = ReceiveModesParsed(@)]
DevicePropertiesSaved(o) ==
  Unless(o, DeviceDefaults)
  @@ (IF o.receiveModes = {"always"} THEN Nothing
      ELSE [receiveModes |-> SelectSeq(ReceiveModes, LAMBDA m : m \in o.receiveModes)])
----------------------------------------------------------------------------
(* The whole device.                                                       *)

Ascending(numbers) == SetToSortSeq(numbers, LAMBDA a, b : a < b)

\* A function has the channels from its own one on that are free.
WithFunction(functions, f) ==
  functions @@ [channel \in f.channel..f.channel + f.channelCount - 1 |-> f]

\* The function with the dynamic number of channels; a size that is not positive becomes one.
DynamicChannels(functions) ==
  LET dynamic == SelectSeq(functions, LAMBDA f : f.dynamicChannelCountIndex > -1)
      size == Last(dynamic).dynamicChannelCountSize
  IN  IF dynamic = <<>> THEN [index |-> -1, size |-> Unit]
      ELSE [index |-> Last(dynamic).dynamicChannelCountIndex, size |-> IF size <= 0 THEN Unit ELSE size]

\* The functions and their alternatives in the order in which they are given their groups.
ProcessingOrder(functions) ==
  FlattenSeq([i \in DOMAIN Ascending(DOMAIN functions) |->
    LET f == functions[Ascending(DOMAIN functions)[i]] IN <<f>> \o f.alternativeFunctions])

PacketIds(parameter) ==
  LET all == parameter.getPackets \o parameter.setPackets \o parameter.eventPackets
  IN  {all[i].id : i \in DOMAIN all}

\* A function sets the offset of the packets its variables are in.
postProcessFunction(packets, f, variables) ==
  LET id == f.groups["variables"]
      ids == IF id = "" \/ id \notin DOMAIN variables \/ f.physicalChannelIndexOffset = 0 THEN {}
             ELSE UNION {PacketIds(variables[id].ordered[i]) : i \in DOMAIN variables[id].ordered}
  IN  [p \in DOMAIN packets |-> IF p \in ids THEN [packets[p] EXCEPT !.channelIndexOffset = f.physicalChannelIndexOffset]
                                             ELSE packets[p]]

parseXML(node) ==
  LET n == node @@ [version |-> 0, supportedDevices |-> <<>>, runProgram |-> Nothing, functions |-> <<>>,
                    packets |-> Nothing, parameterGroups |-> Nothing, metadata |-> ""]
      parsed == [i \in DOMAIN n.functions |-> WithAlternatives(FunctionParsed(n.functions[i]))]
      functions == FoldLeft(WithFunction, Nothing, parsed)
      tables == n.parameterGroups @@ [kind \in Kinds |-> Nothing]
      groups == [kind \in Kinds |-> [id \in DOMAIN tables[kind] |-> GroupParsed(kind, tables[kind][id])]]
      packets == [id \in DOMAIN n.packets |-> PacketParsed(n.packets[id])]
  IN  [version |-> n.version, metadata |-> n.metadata,
       supportedDevices |-> [i \in DOMAIN n.supportedDevices |-> SupportedDeviceParsed(n.supportedDevices[i])],
       runProgram |-> n.runProgram @@ RunProgramDefaults, properties |-> DevicePropertiesParsed(n),
       functions |-> functions, dynamicChannels |-> DynamicChannels(parsed), dynamicChannelCount |-> -1, groups |-> groups,
       packets |-> FoldLeft(LAMBDA ps, f : postProcessFunction(ps, f, groups["variables"]), packets, ProcessingOrder(functions))]

\* Change the groups of these channels: those with an id, or the functions' own ones.
Changed(d, kind, channels, F(_)) ==
  LET ids == ({d.functions[c].groups[kind] : c \in channels} \cap DOMAIN d.groups[kind]) \ {""}
      owners == {d.functions[c].channel : c \in {x \in channels : d.functions[x].groups[kind] \notin ids}}
  IN  [d EXCEPT !.groups[kind] = [id \in DOMAIN @ |-> IF id \in ids THEN F(@[id]) ELSE @[id]],
                !.functions = [c \in DOMAIN @ |-> IF @[c].channel \in owners
                                 THEN [@[c] EXCEPT !.own[kind] = F(@)] ELSE @[c]]]

WithLastPacket(group) ==
  [group EXCEPT !.added = ("LAST_PACKET_RECEIVED" :>
     [parseXml([id |-> "LAST_PACKET_RECEIVED"]) EXCEPT
        !.properties.writeable = FALSE, !.properties.visible = FALSE, !.physical.operationType = "internal",
        !.physical.groupId = "LAST_PACKET_RECEIVED"]) @@ @]

\* The index changes, what was derived from it stays.
AesActive(parameter) ==
  [parameter EXCEPT !.properties.internal = TRUE, !.casts = <<CastParsed([name |-> "booleanInteger"])>>,
     !.logical = [LogicalParsed([type |-> "tBoolean"]) EXCEPT !.given = {"defaultValue"}],
     !.physical.operationType = "config", !.physical.type = "tInteger", !.physical.groupId = "AES_ACTIVE",
     !.physical.list = 1, !.physical.index = 8 * Unit]
WithAes(group) ==
  LET found == {i \in DOMAIN group.ordered : group.ordered[i].id = "AES_ACTIVE"}
  IN  IF found = {} THEN [group EXCEPT !.added = ("AES_ACTIVE" :> AesActive(parseXml([id |-> "AES_ACTIVE"]))) @@ @]
      ELSE [group EXCEPT !.ordered = [i \in DOMAIN @ |-> IF i \in found THEN AesActive(@[i]) ELSE @[i]]]

\* The first channel is there in any case; with encryption all others get a key on pairing.
postLoad(d) ==
  LET e == Changed([d EXCEPT !.functions = @ @@ (0 :> FunctionParsed(Nothing))], "variables", {0}, WithLastPacket)
  IN  IF d.properties.encryption THEN Changed(e, "configParameters", DOMAIN e.functions \ {0}, WithAes) ELSE e

load(node) ==
  postLoad(parseXML(node) @@ [group |-> IF "group" \in DOMAIN node THEN <<parseXML(node.group[1])>> ELSE <<>>])

\* Mutant: the channel itself is counted among those to skip.
SkipsOneMore(functions) ==
  LET step(s, c) == IF s.skip > 0 THEN [s EXCEPT !.skip = @ - 1]
                    ELSE [skip |-> functions[c].channelCount, saved |-> Append(s.saved, functions[c])]
  IN  FoldLeft(step, [skip |-> 0, saved |-> <<>>], Ascending(DOMAIN functions)).saved

\* A function is written for the first of its channels.
SavedFunctions(functions) ==
  LET step(s, c) == IF s.skip > 0 THEN [s EXCEPT !.skip = @ - 1]
                    ELSE [skip |-> functions[c].channelCount - 1, saved |-> Append(s.saved, functions[c])]
  IN  FoldLeft(step, [skip |-> 0, saved |-> <<>>], Ascending(DOMAIN functions)).saved

\* The groups that a function or an alternative names.
GroupsSaved(d, saved, kind, ascending) ==
  LET named == UNION {{f.groups[kind]} \cup {a.groups[kind] : a \in Range(f.alternativeFunctions)} : f \in Range(saved)}
  IN  [id \in named \ {""} |->
         GroupSaved(kind, IF id \in DOMAIN d.groups[kind] THEN d.groups[kind][id] ELSE NewGroup(kind), ascending)]

\* The metadata are those of the device that save() is called for.
saveDevice(d, metadata, ascending) ==
  LET saved == SavedFunctions(d.functions)
  IN  [version |-> d.version,
       supportedDevices |-> [i \in DOMAIN d.supportedDevices |-> SupportedDeviceSaved(d.supportedDevices[i])],
       properties |-> DevicePropertiesSaved(d.properties),
       functions |-> [i \in DOMAIN saved |-> WholeFunctionSaved(saved[i])],
       packets |-> [id \in DOMAIN d.packets |-> PacketSaved(d.packets[id])],
       parameterGroups |-> [kind \in Kinds |-> GroupsSaved(d, saved, kind, ascending)]]
      @@ RunProgramSaved(d.runProgram)
      @@ (IF metadata = "" THEN Nothing ELSE [metadata |-> metadata])

save(d, ascending) ==
  saveDevice(d, d.metadata, ascending)
  @@ (IF d.group = <<>> THEN Nothing ELSE [group |-> <<saveDevice(d.group[1], d.metadata, ascending)>>])
----------------------------------------------------------------------------
FileInit == file \in Files /\ device = <<>> /\ original = <<>> /\ saves = 0

Load ==
  /\ device = <<>>
  /\ device' = <<load(file)>>
  /\ UNCHANGED <<file, original, saves>>

\* Afterwards the description is dropped, as if the program had ended.
Save ==
  /\ device # <<>> /\ saves < MaxSaves
  /\ \E ascending \in BOOLEAN : file' = save(device[1], ascending)
  /\ original' = device /\ device' = <<>> /\ saves' = saves + 1

\* Free channels after that of the first function with a dynamic number get its description.
WithDynamicChannels(d, count) ==
  LET dynamic == {c \in DOMAIN d.functions : d.functions[c].dynamicChannelCountIndex > -1}
      first == CHOOSE c \in dynamic : \A other \in dynamic : c <= other
  IN  [d EXCEPT !.dynamicChannelCount = count, !.functions = @ @@ [c \in first + 1..first + count - 1 |-> d.functions[first]]]

\* On a description that was just copied.
setDynamicChannelCount(count) ==
  /\ device # <<>> /\ device[1].dynamicChannels.index > -1 /\ device[1].dynamicChannelCount = -1
  /\ device' = <<WithDynamicChannels(device[1], count)>>
  /\ original' = <<>>
  /\ UNCHANGED <<file, saves>>

FileNext == Load \/ Save \/ \E count \in 1..MaxChannels : setDynamicChannelCount(count)
----------------------------------------------------------------------------
(* Properties.  What is the same after saving and loading, and what is     *)
(* lost although a file may say it.                                        *)

\* One cast is not written, one setting either; a map gets sorted, with one entry for a physical value.
KeptCast(c) ==
  CASE c.name \in {"integerIntegerMap", "optionInteger"} -> [c EXCEPT !.pairs = FromDevice(c)]
    [] c.name = "round" -> [c EXCEPT !.roundToPoint5 = FALSE]
    [] c.name = "stringReplace" -> [c EXCEPT !.search = Decoded(@), !.replace = Decoded(@)]
    [] OTHER -> c
KeptCasts(casts) ==
  LET written == SelectSeq(casts, LAMBDA c : c.name # "decimalIntegerInverseScale")
  IN  [i \in DOMAIN written |-> KeptCast(written[i])]

\* The values of an action are not written; a gap in an enumeration is taken for a value -1.
KeptLogical(o) ==
  CASE o.type = "tAction" -> [o EXCEPT !.given = {}, !.defaultValue = FALSE, !.setToValueOnPairing = FALSE]
    [] o.type = "tEnum" -> IF \E i \in DOMAIN o.values : o.values[i].index = -1 THEN [o EXCEPT !.minimumValue = -1] ELSE o
    [] OTHER -> o

\* Tenths remain, and six digits of the address; what follows from the index is derived again.
KeptPhysical(o) ==
  LET start == Tenths(o.index) \div Unit
      bytes == Tenths(o.size) \div Unit
  IN  [o EXCEPT !.typeString = "", !.address = SixDigits(@), !.index = Tenths(@), !.size = Tenths(@),
                !.memoryIndex = Tenths(@), !.memoryChannelStep = Tenths(@), !.startIndex = start,
                !.endIndex = start + (IF bytes > 0 THEN bytes ELSE 1) - 1]

KeptPackets(packets) ==
  [i \in DOMAIN packets |-> [packets[i] EXCEPT !.delay = -1,
                               !.resetTo = IF packets[i].resetDelayParameterId = "" THEN 0 ELSE @]]

\* A group that is named itself may get what its role brings instead.
RolesKept(new, old) ==
  /\ DOMAIN new = DOMAIN old
  /\ \A id \in DOMAIN old :
       \/ new[id] = old[id]
       \/ \E r \in DOMAIN old \ {id} : id \in {MainGroup(r), MiddleGroup(r)} /\ new[id] = [Role EXCEPT !.direction = old[r].direction]

SameParameter(new, old) ==
  /\ new = [old EXCEPT
       !.properties.mandatory = FALSE, !.properties.resetAfterRestart = FALSE, !.properties.linkedParameter = "",
       !.properties.isSigned = @ \/ ImplicitlySigned(old.logical),
       !.casts = KeptCasts(@), !.roles = new.roles, !.logical = KeptLogical(@), !.physical = KeptPhysical(@),
       !.getPackets = KeptPackets(@), !.setPackets = KeptPackets(@), !.eventPackets = KeptPackets(@),
       !.hasDelayedAutoResetParameters = \E p \in Range(old.getPackets \o old.setPackets \o old.eventPackets) :
                                           p.resetDelayParameterId # ""]
  /\ RolesKept(new.roles, old.roles)

\* The group a function uses.
GroupOf(d, f, kind) ==
  IF f.groups[kind] \in DOMAIN d.groups[kind] \ {""} THEN d.groups[kind][f.groups[kind]] ELSE f.own[kind]

SameGroup(new, old) ==
  /\ [new EXCEPT !.ordered = <<>>] = [old EXCEPT !.ordered = <<>>]
  /\ Len(new.ordered) = Len(old.ordered)
  /\ \A i \in DOMAIN old.ordered : SameParameter(new.ordered[i], old.ordered[i])

SameFunction(d, f, e, old) ==
  /\ [f EXCEPT !.own = <<>>, !.alternativeFunctions = <<>>] =
       [old EXCEPT !.own = <<>>, !.alternativeFunctions = <<>>,
          !.dynamicChannelCountSize = IF old.dynamicChannelCountIndex = -1 THEN Unit ELSE Tenths(@)]
  /\ \A kind \in Kinds : SameGroup(GroupOf(d, f, kind), GroupOf(e, old, kind))

KeptPacket(d, id) ==
  LET p == d.packets[id]
      fromFunction == \E f \in Range(ProcessingOrder(d.functions)) :
                        f.physicalChannelIndexOffset # 0
                        /\ id \in UNION {PacketIds(q) : q \in Range(GroupOf(d, f, "variables").ordered)}
  IN  [p EXCEPT !.direction = IF @ = "none" THEN "toCentral" ELSE @, !.repeat = TRUE,
                !.channelIndexOffset = IF fromFunction THEN @ ELSE 0,
                !.subtypeSize = IF p.subtypeIndex = -1 \/ @ = Unit THEN -Unit ELSE Tenths(@),
                !.channelSize = IF p.channelIndex = -1 THEN Unit ELSE Tenths(@),
                !.binaryPayloads = [i \in DOMAIN @ |-> [@[i] EXCEPT !.index = Tenths(@), !.size = Tenths(@),
                                                                    !.index2 = Tenths(@), !.size2 = Tenths(@)]],
                !.jsonPayloads = [i \in DOMAIN @ |-> [@[i] EXCEPT !.keyPath = <<>>]]]

\* Channels that were given to a dynamic function are counted anew.
OwnChannels(functions) == {c \in DOMAIN functions : c < functions[c].channel + functions[c].channelCount}

SameDevice(d, old, metadata) ==
  /\ d.version = old.version /\ d.metadata = metadata
  /\ d.supportedDevices = [i \in DOMAIN old.supportedDevices |->
       [old.supportedDevices[i] EXCEPT !.typeNumber = IF @ = -1 THEN 0 ELSE @]]
  /\ d.runProgram = IF old.runProgram.path = "" THEN RunProgramDefaults
                    ELSE [old.runProgram EXCEPT !.script = "", !.script2 = "",
                                                !.startType = IF @ = "none" THEN "permanent" ELSE @]
  /\ d.properties = [old.properties EXCEPT !.receiveModes = IF @ = {} THEN {"always"} ELSE @]
  /\ d.dynamicChannels = [old.dynamicChannels EXCEPT !.size = IF Tenths(@) = 0 THEN Unit ELSE Tenths(@)]
  /\ d.packets = [id \in DOMAIN old.packets |-> KeptPacket(old, id)]
  /\ DOMAIN d.functions = OwnChannels(old.functions)
  /\ \A c \in DOMAIN d.functions :
       LET f == d.functions[c]
           g == old.functions[c]
       IN  /\ SameFunction(d, f, old, g) /\ Len(f.alternativeFunctions) = Len(g.alternativeFunctions)
           /\ \A i \in DOMAIN g.alternativeFunctions :
                SameFunction(d, f.alternativeFunctions[i], old, g.alternativeFunctions[i])

(***************************************************************************)
(* A description that was saved and loaded again (save(), load()) has the  *)
(* channels, functions, packets and parameters it had, apart from what is  *)
(* named above and in KeptCast to KeptPacket: all that save() leaves out   *)
(* or writes in another form than the constructors read.                   *)
(***************************************************************************)
SavedIsLoaded ==
  device # <<>> /\ original # <<>> =>
    /\ SameDevice(device[1], original[1], original[1].metadata)
    /\ Len(device[1].group) = Len(original[1].group)
    /\ \A i \in DOMAIN original[1].group : SameDevice(device[1].group[i], original[1].group[i], original[1].metadata)
=========================================================================================
