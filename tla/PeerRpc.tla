-------------------------------- MODULE PeerRpc --------------------------------
(***************************************************************************)
(* What a peer answers to clients that read (Systems/Peer): its channels,  *)
(* its variables and configuration with their descriptions, and the lists  *)
(* of what is placed in a room, a building part, a category or a role.     *)
(* Reading changes nothing: the module has no variables of its own.        *)
(*                                                                         *)
(* An answer is a function from the names of its members to their values;  *)
(* a member that is left out is not in its domain.  Names, units, texts    *)
(* and what else is a constant of the device are left out of the answers.  *)
(***************************************************************************)
EXTENDS Acls, PeerPlacement, Central

CONSTANTS
  ThePeer,       \* the peer that is placed and asked
  Device,        \* of its description: the flags of the device
  Functions,     \* of each channel its function in the description
  Parameters,    \* of each variable its parameter
  ConfigOf,      \* of each <<channel, name>> in use the configuration parameter
  CountOf,       \* how many channels a configuration parameter says there are
  LinkTypes      \* what the channels of each peer can be in a link: "sender", "receiver"

ASSUME PeerRpcAssumption ==
  /\ \A k \in DOMAIN ConfigOf : k = <<k[1], k[2]>>
  /\ -1 \notin DOMAIN Functions

Error(code) == [error |-> code]
Failed(answer) == "error" \in DOMAIN answer
If(condition, members) == IF condition THEN members ELSE <<>>

\* The members of two answers.
f ++ g == [x \in DOMAIN f \cup DOMAIN g |-> IF x \in DOMAIN f THEN f[x] ELSE g[x]]

IdOf(p) == own["id"][p]
PlaceOf(p) == IF p = ThePeer THEN mem ELSE [mem EXCEPT !.rooms = <<>>, !.parts = <<>>, !.cats = <<>>]
View == ViewOf(IdOf(ThePeer), mem)

\* The peer has itself looked up by its id, which may lead nowhere while it is renamed.
MayRead(checkAcls, v) ==
  LET id == IdOf(ThePeer)
      found == getPeer("id", id)
  IN  checkAcls => peerExists("id", id) /\ variableAccess("Read", ViewOf(IdOf(found), PlaceOf(found)), v[1], v[2])

\* A channel beyond the number of channels that is configured is not there.
IsThere(channel) ==
  LET f == Functions[channel]
  IN  f.countFromVariable \in DOMAIN CountOf => channel < f.channel + CountOf[f.countFromVariable]
Existing == {c \in DOMAIN Functions : IsThere(c)}

VarsOf(channel) == {v \in Vars : v[1] = channel}
ConfigsOf(channel) == {k \in DOMAIN ConfigOf : k[1] = channel}
KeysOf(keys) == {k[2] : k \in keys}
Has(x, flag) == flag \in x.flags

\* Parameters of the description must also be in the group in use; role variables are in none.
Offered(p, group) == Has(p, "visible") /\ (p.isRole \/ p.id \in group)
Supported(client, p) == p.type \in {"ARRAY", "STRUCT"} => client.newFormat
ForCcu2(client, p) == client.ccu2 => Has(p, "ccu2Visible")

\* The value, or only its type where a password must not be shown.
Shown(client, p) == IF Has(p, "password") /\ ~client.scriptEngine THEN "hidden" ELSE "value"

RoleLevel(id) == CASE id % 10000 = 0 -> 0 [] id % 10000 # 0 /\ id % 100 = 0 -> 1 [] OTHER -> 2
RoleInfo(id, role) == [direction |-> role.dir, level |-> RoleLevel(id)] ++ If(role.invert, [invert |-> TRUE])
RoleList(v) == [r \in DOMAIN mem.vars[v].roles |-> RoleInfo(r, mem.vars[v].roles[r])]
RoomAndCategories(room, cats) == If(room # 0, [ROOM |-> room]) ++ If(cats # {}, [CATEGORIES |-> cats])
PlacementOf(v) ==
  LET place == mem.vars[v]
  IN  RoomAndCategories(place.room, place.cats) ++ If(place.part # 0, [BUILDING_PART |-> place.part])
      ++ If(DOMAIN place.roles # {}, [ROLES |-> RoleList(v)])
Bounds(p) == If(p.type \in {"INTEGER", "INTEGER64", "ENUM", "FLOAT"}, [MIN |-> p.minimum, MAX |-> p.maximum])
             ++ If(p.type # "ENUM" /\ p.specialValues # {}, [SPECIAL |-> p.specialValues])
--------------------------------------------------------------------------------
(* The configuration and the variables of all channels.                    *)

\* Actions have no type here.
ConfigElement(client, p) ==
  If(Has(p, "readable"), [VALUE |-> Shown(client, p)]) ++ If(p.type # "ACTION", [TYPE |-> p.type]) ++ Bounds(p)

getAllConfig(client) ==
  LET offered(c) == {k \in ConfigsOf(c) : Offered(ConfigOf[k], Functions[c].config) /\ Supported(client, ConfigOf[k])}
  IN  [c \in Existing |-> [name \in KeysOf(offered(c)) |-> ConfigElement(client, ConfigOf[<<c, name>>])]]

ValueElement(client, v) ==
  LET p == Parameters[v]
      access == Has(p, "readable") \/ Has(p, "transmitted")
  IN  If(access, [VALUE |-> Shown(client, p)]) ++ Bounds(p) ++ PlacementOf(v)
      ++ [TYPE |-> p.type, READABLE |-> Has(p, "readable"), WRITEABLE |-> Has(p, "writeable"),
          TRANSMITTED |-> Has(p, "transmitted")]

getAllValues(client, returnWriteOnly, checkAcls) ==
  LET told(c) == {v \in VarsOf(c) :
                    LET p == Parameters[v]
                    IN  /\ MayRead(checkAcls, v)
                        /\ Offered(p, Functions[c].variables)
                        /\ Has(p, "readable") \/ Has(p, "transmitted") \/ returnWriteOnly
                        /\ ForCcu2(client, p) /\ Supported(client, p)}
  IN  [c \in Existing |-> [PARAMSET |-> [name \in KeysOf(told(c)) |-> ValueElement(client, <<c, name>>)]]
                          ++ RoomAndCategories(getRoom(c), getCategories(c))]
      ++ [c \in {-1} |-> RoomAndCategories(getRoom(-1), getCategories(-1))]

\* A parameter that is not visible is readable here.
getConfigParameter(client, channel, name) ==
  CASE ConfigsOf(channel) = {} -> Error(-2)
    [] ConfigsOf(channel) # {} /\ <<channel, name>> \notin DOMAIN ConfigOf -> Error(-5)
    [] OTHER -> LET p == ConfigOf[<<channel, name>>]
                IN  CASE channel \notin DOMAIN Functions -> Error(-2)
                      [] channel \in DOMAIN Functions /\ ~Has(p, "readable") -> Error(-6)
                      [] OTHER -> [value |-> Shown(client, p)]

getValue(client, channel, name) ==
  CASE VarsOf(channel) = {} -> Error(-2)
    [] VarsOf(channel) # {} /\ <<channel, name>> \notin Vars -> Error(-5)
    [] OTHER -> LET p == Parameters[<<channel, name>>]
                IN  CASE channel \notin DOMAIN Functions -> Error(-2)
                      [] channel \in DOMAIN Functions /\ {"readable", "transmitted"} \cap p.flags = {} -> Error(-6)
                      [] OTHER -> [value |-> Shown(client, p)]
--------------------------------------------------------------------------------
(* Descriptions.                                                           *)

\* What the fields ask for; some are only told when they are asked for.
Wanted(fields, name) == fields = {} \/ name \in fields

UiFlags(x, kept) ==
  (IF Has(x, "visible") THEN 1 ELSE 0) + (IF Has(x, "internal") THEN 2 ELSE 0) + (IF kept THEN 8 ELSE 0)

WhereOf(channel, fields) ==
  If(Wanted(fields, "ROOM") /\ getRoom(channel) # 0, [ROOM |-> getRoom(channel)])
  ++ If("CATEGORIES" \in fields /\ getCategories(channel) # {}, [CATEGORIES |-> getCategories(channel)])
  ++ If("BUILDING_PART" \in fields /\ getBuildingPart(channel) # 0, [BUILDING_PART |-> getBuildingPart(channel)])

DeviceDescription(fields) ==
  If(Wanted(fields, "CHANNELS"), [CHANNELS |-> {c \in Existing : Has(Functions[c], "visible")}])
  ++ If(Wanted(fields, "FLAGS"), [FLAGS |-> UiFlags(Device, ~Has(Device, "deletable"))])
  ++ If(Wanted(fields, "PARAMSETS"), [PARAMSETS |-> {"MASTER"}])
  ++ WhereOf(-1, fields)

\* 1 of a sender, 2 of a receiver, unless the description says which.
DirectionOf(f, types) ==
  IF f.direction # 0 THEN f.direction
  ELSE (IF "sender" \in types THEN 1 ELSE 0) + (IF "receiver" \in types THEN 2 ELSE 0)

ChannelDescription(channel, fields) ==
  LET f == Functions[channel]
      sets == {s \in {<<"MASTER", f.config>>, <<"VALUES", f.variables>>, <<"LINK", f.links>>} : s[2] # {}}
  IN  If(Wanted(fields, "DIRECTION"), [DIRECTION |-> DirectionOf(f, LinkTypes[<<ThePeer, channel>>])])
      ++ If(Wanted(fields, "FLAGS"), [FLAGS |-> UiFlags(f, Has(f, "deletable"))])
      ++ If(Wanted(fields, "GROUP") /\ f.groupedWith > -1, [GROUP |-> f.groupedWith])
      ++ If(Wanted(fields, "INDEX"), [INDEX |-> channel])
      ++ If(Wanted(fields, "PARAMSETS"), [PARAMSETS |-> {s[1] : s \in sets}])
      ++ WhereOf(channel, fields)

getDeviceDescription(channel, fields) ==
  CASE channel = -1 -> DeviceDescription(fields)
    [] channel # -1 /\ channel \notin DOMAIN Functions -> Error(-2)
    [] channel \in DOMAIN Functions /\ ~IsThere(channel) -> Error(-2)
    [] channel \in Existing /\ ~Has(Functions[channel], "visible") -> <<>>
    [] OTHER -> ChannelDescription(channel, fields)

getDeviceDescriptions(channels, fields) ==
  LET candidates == {-1} \cup (IF channels THEN Existing ELSE {})
      told == {c \in candidates : ~Failed(getDeviceDescription(c, fields)) /\ getDeviceDescription(c, fields) # <<>>}
  IN  [c \in told |-> getDeviceDescription(c, fields)]

Operations(p) ==
  (IF Has(p, "readable") THEN 4 ELSE 0) + (IF Has(p, "writeable") THEN 2 ELSE 0)
  + (IF Has(p, "transmitted") /\ p.type # "ACTION" THEN 1 ELSE 0)

VariableDescription(client, p, placement) ==
  CASE ~Has(p, "visible") \/ ~ForCcu2(client, p) \/ ~Supported(client, p) -> Error(-5)
    [] OTHER -> Bounds(p) ++ [TYPE |-> p.type, OPERATIONS |-> Operations(p)] ++ placement

\* One that is not in the group in use is described, too.
getVariableDescription(client, channel, name) ==
  CASE VarsOf(channel) = {} \/ channel \notin DOMAIN Functions -> Error(-2)
    [] VarsOf(channel) # {} /\ channel \in DOMAIN Functions /\ <<channel, name>> \notin Vars -> Error(-5)
    [] OTHER -> VariableDescription(client, Parameters[<<channel, name>>], PlacementOf(<<channel, name>>))

GroupOf(channel, type) ==
  CASE type = "config" -> Functions[channel].config
    [] type = "variables" -> Functions[channel].variables
    [] type = "link" -> Functions[channel].links

\* The set exists only in a channel of the description.
getParamsetDescription(client, channel, type, checkAcls) ==
  IF channel \notin DOMAIN Functions THEN Error(-3)
  ELSE LET group == GroupOf(channel, type)
           inUse == CASE type = "variables" -> {v \in VarsOf(channel) : Offered(Parameters[v], group) /\ MayRead(checkAcls, v)}
                      [] type = "config" -> {k \in ConfigsOf(channel) : Offered(ConfigOf[k], group)}
                      [] OTHER -> {}
           described(k) == IF type = "variables" THEN VariableDescription(client, Parameters[k], PlacementOf(k))
                                                 ELSE VariableDescription(client, ConfigOf[k], <<>>)
       IN  [name \in {k[2] : k \in {k \in inUse : ~Failed(described(k))}} |-> described(<<channel, name>>)]

\* Neither the access flags nor the format of the client matter.
getParamset(client, channel, type, checkAcls) ==
  IF channel \notin DOMAIN Functions THEN Error(-2)
  ELSE LET group == GroupOf(channel, type)
           inUse == CASE type = "variables" -> {v \in VarsOf(channel) : Offered(Parameters[v], group) /\ MayRead(checkAcls, v)}
                      [] type = "config" -> {k \in ConfigsOf(channel) : Offered(ConfigOf[k], group)}
                      [] OTHER -> {}
           of(k) == IF type = "variables" THEN Parameters[k] ELSE ConfigOf[k]
       IN  [name \in {k[2] : k \in {k \in inUse : ForCcu2(client, of(k))}} |-> Shown(client, of(<<channel, name>>))]
--------------------------------------------------------------------------------
(* Lists of what is placed somewhere.  Whether a variable is visible or in *)
(* use does not matter.                                                    *)

getChannelsInRoom(room) == {c \in DOMAIN mem.rooms : mem.rooms[c] = room}
getChannelsInBuildingPart(part) == {c \in DOMAIN mem.parts : mem.parts[c] = part}
getChannelsInCategory(category) == {c \in DOMAIN mem.cats : category \in mem.cats[c]}
hasCategory(channel, category) == category # 0 /\ category \in getCategories(channel)

\* Where the variable is placed itself, else its channel, else the device.
OwnOr(place, channelPlace, devicePlace) ==
  CASE place # 0 -> place [] place = 0 /\ channelPlace # 0 -> channelPlace [] OTHER -> devicePlace
RoomOf(v) == OwnOr(mem.vars[v].room, getRoom(v[1]), getRoom(-1))
BuildingPartOf(v) == OwnOr(mem.vars[v].part, getBuildingPart(v[1]), getBuildingPart(-1))

getVariablesInCategory(category, checkAcls) == {v \in Vars : MayRead(checkAcls, v) /\ category \in mem.vars[v].cats}
getVariablesInRole(role, checkAcls) ==
  LET inside == {v \in Vars : MayRead(checkAcls, v) /\ role \in DOMAIN mem.vars[v].roles}
  IN  [v \in inside |-> RoleInfo(role, mem.vars[v].roles[role])]
getVariablesInRoom(room, returnDeviceAssigned, checkAcls) ==
  {v \in Vars : /\ MayRead(checkAcls, v)
                /\ IF returnDeviceAssigned THEN RoomOf(v) = room ELSE mem.vars[v].room # 0 /\ mem.vars[v].room = room}
getVariablesInBuildingPart(part, returnDeviceAssigned, checkAcls) ==
  {v \in Vars : /\ MayRead(checkAcls, v)
                /\ IF returnDeviceAssigned THEN BuildingPartOf(v) = part ELSE mem.vars[v].part # 0 /\ mem.vars[v].part = part}

getRolesInDevice(checkAcls) ==
  [v \in {u \in Vars : MayRead(checkAcls, u) /\ DOMAIN mem.vars[u].roles # {}} |-> RoleList(v)]

\* Mutant: only the variable's own room counts.
getRolesInRoomOwn(room, checkAcls) ==
  [v \in {u \in DOMAIN getRolesInDevice(checkAcls) : mem.vars[u].room # 0 /\ mem.vars[u].room = room} |-> RoleList(v)]

getRolesInRoom(room, checkAcls) ==
  [v \in {u \in DOMAIN getRolesInDevice(checkAcls) : RoomOf(u) # 0 /\ RoomOf(u) = room} |-> RoleList(v)]
================================================================================
