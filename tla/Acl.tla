----------------------------------- MODULE Acl -----------------------------------
(***************************************************************************)
(* One access control list (Security/Acl.cpp): what it says of a service,  *)
(* a method, a category, a role, a room, a building part, a device and a   *)
(* variable.  The module has no state; Acls combines the lists of several  *)
(* groups.                                                                 *)
(*                                                                         *)
(* An ACL is a function.  Its domain holds the lists that are set (the     *)
(* members _roomsReadSet and so on) and each list maps its entries to TRUE *)
(* (access) or FALSE (no access).  A list is <<aspect, direction>>; the    *)
(* entries of "variables" are <<peer, channel, name>>.                     *)
(*                                                                         *)
(* A peer is given as a record of what the checks ask it: its id, the sets *)
(* rooms, parts and cats of its channels and, for each of its variables,   *)
(* room, part, cats and roles.                                             *)
(***************************************************************************)
EXTENDS Integers, Sequences, FiniteSets

CONSTANT NoPeer       \* a null pointer instead of a peer or system variable

SystemChannel == -1   \* the channel under which system variables are listed
Metadata == -2
AllChannels == -3
NodeBlueInputs == 1342177281    \* 0x50000001, the peer of Node-BLUE inputs
NodeBlue == 1342177280          \* 0x50000000

Both(aspect) == <<aspect, "">>      \* a list without a direction
AclResult == {"error", "notInList", "deny", "accept"}
Result(access) == IF access THEN "accept" ELSE "deny"
--------------------------------------------------------------------------------
(* Looking things up in a list.                                            *)

IsSet(acl, list) == list \in DOMAIN acl

\* What the entries of several keys say together: one denial is enough.
Opinion(acl, list, keys) ==
  LET listed == keys \cap DOMAIN acl[list]
  IN  IF listed = {} THEN "notInList" ELSE Result(\A k \in listed : acl[list][k])

\* The specific entry, and only where there is none the general one.
First(acl, list, specific, general) ==
  IF specific \in DOMAIN acl[list] THEN Result(acl[list][specific])
                                   ELSE Opinion(acl, list, {general})

\* An aspect whose list is not set does not restrict anything.
Unless(acl, list, opinion) == IF IsSet(acl, list) THEN opinion ELSE "accept"

\* Several aspects of one thing: a denial wins, then any consent.
AnyOf(results) ==
  CASE "error" \in results -> "error"
    [] "deny" \in results /\ "error" \notin results -> "deny"
    [] "accept" \in results /\ results \cap {"deny", "error"} = {} -> "accept"
    [] OTHER -> "notInList"
--------------------------------------------------------------------------------
(* Services, methods, categories, roles, rooms and building parts.         *)

checkServiceAccess(acl, name) ==
  LET list == Both("services")
  IN  IF IsSet(acl, list) THEN First(acl, list, name, "*") ELSE "notInList"

checkEventServerMethodAccess(acl, name) ==
  LET list == Both("eventServerMethods")
  IN  IF IsSet(acl, list) THEN First(acl, list, name, "*") ELSE "notInList"

checkMethodAccess(acl, name) ==
  LET list == Both("methods")
  IN  IF IsSet(acl, list) THEN First(acl, list, name, "*") ELSE "notInList"

\* Of a whole set only a denial is reported, consent is "notInList".
checkCategoriesAccess(acl, dir, categories) ==
  LET list == <<"categories", dir>>
  IN  IF IsSet(acl, list) /\ Opinion(acl, list, categories) = "deny" THEN "deny" ELSE "notInList"

checkRolesAccess(acl, dir, roles) ==
  LET list == <<"roles", dir>>
  IN  IF IsSet(acl, list) /\ Opinion(acl, list, roles) = "deny" THEN "deny" ELSE "notInList"

Exact(acl, list, id) == IF IsSet(acl, list) THEN Opinion(acl, list, {id}) ELSE "notInList"

checkCategoryAccess(acl, dir, id) == Exact(acl, <<"categories", dir>>, id)
checkRoleAccess(acl, dir, id) == Exact(acl, <<"roles", dir>>, id)
checkRoomAccess(acl, dir, id) == Exact(acl, <<"rooms", dir>>, id)
checkBuildingPartAccess(acl, dir, id) == Exact(acl, <<"buildingParts", dir>>, id)

\* A method on something: both have to consent, a list that is not set does.
MethodAnd(acl, name, list, id) ==
  LET thing == Unless(acl, list, Opinion(acl, list, {id}))
      method == checkMethodAccess(acl, name)
  IN  CASE ~IsSet(acl, list) /\ ~IsSet(acl, Both("methods")) -> "notInList"
        [] "deny" \in {thing, method} -> "deny"
        [] thing = "accept" /\ method = "accept" -> "accept"
        [] OTHER -> "notInList"

checkMethodAndCategoryAccess(acl, dir, name, id) == MethodAnd(acl, name, <<"categories", dir>>, id)
checkMethodAndRoleAccess(acl, dir, name, id) == MethodAnd(acl, name, <<"roles", dir>>, id)
checkMethodAndRoomAccess(acl, dir, name, id) == MethodAnd(acl, name, <<"rooms", dir>>, id)
checkMethodAndBuildingPartAccess(acl, dir, name, id) == MethodAnd(acl, name, <<"buildingParts", dir>>, id)
checkMethodAndDeviceWriteAccess(acl, name, id) == MethodAnd(acl, name, <<"devices", "Write">>, id)
--------------------------------------------------------------------------------
(* Devices.                                                                *)

\* Where something is placed, entry 0 standing for "nowhere".
Placed(acl, list, ids) ==
  Opinion(acl, list, IF ids \subseteq {0} THEN {0} ELSE ids \ {0})

checkDeviceAccess(acl, dir, peer) ==
  LET rooms == <<"rooms", dir>>
      parts == <<"buildingParts", dir>>
      categories == <<"categories", dir>>
      devices == <<"devices", dir>>
  IN  IF peer = NoPeer THEN "error"
      ELSE IF DOMAIN acl \cap {rooms, parts, categories, devices} = {} THEN "notInList"
      ELSE AnyOf({Unless(acl, rooms, Placed(acl, rooms, peer.rooms)),
                  Unless(acl, parts, Placed(acl, parts, peer.parts)),
                  Unless(acl, categories, Placed(acl, categories, peer.cats)),
                  Unless(acl, devices, First(acl, devices, peer.id, 0))})
--------------------------------------------------------------------------------
(* Variables.                                                              *)

\* The channel's entries: the variable's own, else "*".
Named(acl, list, peer, channel, name) ==
  First(acl, list, <<peer, channel, name>>, <<peer, channel, "*">>)

ListsPeer(acl, list, peer) == \E k \in DOMAIN acl[list] : k[1] = peer
ListsChannel(acl, list, peer, channel) == \E k \in DOMAIN acl[list] : k[1] = peer /\ k[2] = channel

\* The entries of the peer, or those of peer 0 where it has none; in them the
\* channel, or "all channels" unless the variable is metadata.
OwnEntry(acl, list, id, channel, name) ==
  LET peer == IF ListsPeer(acl, list, id) THEN id ELSE 0
  IN  CASE ListsChannel(acl, list, peer, channel) -> Named(acl, list, peer, channel, name)
        [] ~ListsChannel(acl, list, peer, channel) /\ channel # Metadata ->
             Named(acl, list, peer, AllChannels, name)
        [] OTHER -> "notInList"

\* A variable the peer does not have is placed nowhere.
Placement(peer, channel, name) ==
  IF <<channel, name>> \in DOMAIN peer.vars THEN peer.vars[<<channel, name>>]
  ELSE [room |-> 0, part |-> 0, cats |-> {}, roles |-> {}]

\* Entry 0 is for variables without any.
Grouped(acl, list, ids) == Opinion(acl, list, IF ids = {} THEN {0} ELSE ids)

VariableLists == {"variables", "rooms", "buildingParts", "categories", "roles", "devices"}

VariableAspects(acl, dir, peer, channel, name) ==
  LET variables == <<"variables", dir>>
      rooms == <<"rooms", dir>>
      parts == <<"buildingParts", dir>>
      categories == <<"categories", dir>>
      roles == <<"roles", dir>>
      place == Placement(peer, channel, name)
  IN  {Unless(acl, variables, OwnEntry(acl, variables, peer.id, channel, name)),
       Unless(acl, rooms, Opinion(acl, rooms, {place.room})),
       Unless(acl, parts, Opinion(acl, parts, {place.part})),
       Unless(acl, categories, Grouped(acl, categories, place.cats)),
       Unless(acl, roles, Grouped(acl, roles, place.roles))}

\* Mutant: the device is not asked for.
checkVariableAccessAlone(acl, dir, peer, channel, name) ==
  IF DOMAIN acl \cap (VariableLists \X {dir}) = {} THEN "notInList"
  ELSE AnyOf(VariableAspects(acl, dir, peer, channel, name))

checkVariableAccess(acl, dir, peer, channel, name) ==
  IF peer = NoPeer THEN "error"
  ELSE IF DOMAIN acl \cap (VariableLists \X {dir}) = {} THEN "notInList"
  ELSE AnyOf(VariableAspects(acl, dir, peer, channel, name) \cup {checkDeviceAccess(acl, dir, peer)})

\* The node's inputs are listed as variables of a pseudo peer.
checkNodeBlueVariableAccess(acl, dir, nodeId, input) ==
  LET list == <<"variables", dir>>
      peer == IF ListsPeer(acl, list, NodeBlueInputs) THEN NodeBlueInputs ELSE NodeBlue
  IN  Unless(acl, list, Named(acl, list, peer, input, nodeId))

\* A system variable: a record of name, room and cats.
SystemAspects(acl, dir, var) ==
  LET rooms == <<"rooms", dir>>
      categories == <<"categories", dir>>
  IN  {Unless(acl, rooms, Opinion(acl, rooms, {var.room})),
       Unless(acl, categories,
              Opinion(acl, categories, IF var.cats = {} THEN {0} ELSE var.cats \ {0}))}

checkSystemVariableReadAccess(acl, var) ==
  LET list == <<"variables", "Read">>
  IN  IF var = NoPeer THEN "error"
      ELSE IF DOMAIN acl \cap {list, <<"rooms", "Read">>, <<"categories", "Read">>} = {} THEN "notInList"
      ELSE AnyOf({Unless(acl, list, Named(acl, list, 0, SystemChannel, var.name))}
                 \cup SystemAspects(acl, "Read", var))

\* Writing differs: no early answer, and unset variables consent to nothing.
checkSystemVariableWriteAccess(acl, var) ==
  LET list == <<"variables", "Write">>
  IN  AnyOf({IF IsSet(acl, list) THEN Named(acl, list, 0, SystemChannel, var.name) ELSE "notInList"}
            \cup SystemAspects(acl, "Write", var))
--------------------------------------------------------------------------------
(* The serialized form: a set of elements <<list, entries>>, one for each  *)
(* list that is set.                                                       *)

Lists == (VariableLists \X {"Read", "Write"})
         \cup {Both("services"), Both("methods"), Both("eventServerMethods")}

toVariable(acl) == {<<list, acl[list]>> : list \in DOMAIN acl}

\* AclException: an unknown element or an entry that is no Boolean.
Throws(data) ==
  \E e \in data : e[1] \notin Lists \/ \E k \in DOMAIN e[2] : e[2][k] \notin BOOLEAN

\* Lists that are set already keep the entries the data does not name.
fromVariable(acl, data) ==
  LET named == {e[1] : e \in data}
      new(list) == (CHOOSE e \in data : e[1] = list)[2]
      old(list) == IF list \in DOMAIN acl THEN acl[list] ELSE <<>>
  IN  [list \in DOMAIN acl \cup named |->
        IF list \notin named THEN acl[list]
        ELSE [k \in DOMAIN new(list) \cup DOMAIN old(list) |->
               IF k \in DOMAIN new(list) THEN new(list)[k] ELSE old(list)[k]]]
=================================================================================
