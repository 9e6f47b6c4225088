------------------------------ MODULE PeerPlacement ------------------------------
(***************************************************************************)
(* Where the channels and variables of a peer are placed (Systems/Peer):   *)
(* rooms and building parts, categories and roles, in memory and in the    *)
(* database rows a restart reads them back from.                           *)
(*                                                                         *)
(* The maps of the channels are written as a whole under their mutex.  The *)
(* placement of a variable is not locked: one step changes the memory, a   *)
(* later one of the same call sends the row, and other calls come between. *)
(* The database applies the rows in the order they are sent; the model     *)
(* stops only after all of them are written.                               *)
(***************************************************************************)
EXTENDS Integers, Sequences, FiniteSets

CONSTANTS
  Channels,      \* channels of the device description, without -1
  Vars,          \* variables of the peer, <<channel, name>>, all with a row
  Rooms, Parts, Cats, Roles,   \* identifiers, none of them 0
  Directions,    \* the RoleDirections a call may ask for
  Access,        \* of each variable "readable", "writeable" or "both"
  Described,     \* the roles its device description gives each variable
  Callers,       \* threads that place variables
  Idle

AnyChannel == Channels \cup {-1}

Jobs == [variable : Vars, field : {"room", "part", "cats", "roles"}, value : {0} \cup Rooms \cup Parts]

ASSUME PlacementAssumption ==
  /\ \A v \in Vars : v = <<v[1], v[2]>> /\ Described[v] \subseteq Roles
  /\ 0 \notin Rooms \cup Parts \cup Cats
  /\ Idle \notin Jobs

VARIABLES
  mem,           \* rooms, parts and cats of the channels; vars
  db,            \* the rows 1007, 1009 and 1008 of the peer; the rows of vars
  job,           \* of each caller, the row it has still to send
  stale          \* history: <<variable, field>> whose row is known to be wrong

placementVars == <<mem, db, job, stale>>

Nowhere == [room |-> 0, part |-> 0, cats |-> {}, roles |-> <<>>]

\* What a variable allows restricts the direction of its roles.
RoleDirectionOf(v, direction) ==
  CASE Access[v] = "readable" -> "input"
    [] Access[v] = "writeable" -> "output"
    [] OTHER -> IF direction = "undefined" THEN "both" ELSE direction

DescribedRoles(v) ==
  [r \in Described[v] |-> [dir |-> RoleDirectionOf(v, "both"), invert |-> FALSE, scale |-> TRUE]]

\* The role as it is written: without "scale".
RoleRow(roles) == [r \in DOMAIN roles |-> [roles[r] EXCEPT !.scale = FALSE]]

\* initializeValueSet: the variables of a new peer and their roles.
Created(rolesOf(_)) ==
  [rooms |-> <<>>, parts |-> <<>>, cats |-> <<>>,
   vars |-> [v \in Vars |-> [Nowhere EXCEPT !.roles = rolesOf(v)]]]

PlacementInit ==
  /\ mem = Created(DescribedRoles)
  /\ db = Created(LAMBDA v : RoleRow(DescribedRoles(v)))
  /\ job = [c \in Callers |-> Idle]
  /\ stale = {}

\* A map with one more entry, and one without it.
Put(f, k, x) == [i \in DOMAIN f \cup {k} |-> IF i = k THEN x ELSE f[i]]
Drop(f, k) == [i \in DOMAIN f \ {k} |-> f[i]]
ValuesOf(f) == {f[i] : i \in DOMAIN f}
--------------------------------------------------------------------------------
(* Channels.  A room of 0 stays in the map until the next restart.         *)

setRoom(channel, room) ==
  LET rooms == Put(mem.rooms, channel, room)
  IN  /\ channel \in AnyChannel
      /\ mem' = [mem EXCEPT !.rooms = rooms]
      /\ db' = [db EXCEPT !.rooms = rooms]
      /\ UNCHANGED <<job, stale>>

\* Mutant: the building parts are written to the row of the rooms.
setBuildingPartWrongRow(channel, part) ==
  LET parts == Put(mem.parts, channel, part)
  IN  /\ channel \in AnyChannel
      /\ mem' = [mem EXCEPT !.parts = parts]
      /\ db' = [db EXCEPT !.rooms = parts]
      /\ UNCHANGED <<job, stale>>

setBuildingPart(channel, part) ==
  LET parts == Put(mem.parts, channel, part)
  IN  /\ channel \in AnyChannel
      /\ mem' = [mem EXCEPT !.parts = parts]
      /\ db' = [db EXCEPT !.parts = parts]
      /\ UNCHANGED <<job, stale>>

getRoom(channel) == IF channel \in DOMAIN mem.rooms THEN mem.rooms[channel] ELSE 0
getBuildingPart(channel) == IF channel \in DOMAIN mem.parts THEN mem.parts[channel] ELSE 0

addChannelToRoom(channel, room) == setRoom(channel, room)
removeChannelFromRoom(channel, room) == getRoom(channel) = room /\ setRoom(channel, 0)
addChannelToBuildingPart(channel, part) == setBuildingPart(channel, part)
removeChannelFromBuildingPart(channel, part) ==
  getBuildingPart(channel) = part /\ setBuildingPart(channel, 0)

SaveCategories(cats) ==
  /\ mem' = [mem EXCEPT !.cats = cats]
  /\ db' = [db EXCEPT !.cats = cats]
  /\ UNCHANGED <<job, stale>>

getCategories(channel) == IF channel \in DOMAIN mem.cats THEN mem.cats[channel] ELSE {}

addCategory(channel, category) ==
  /\ category # 0 /\ channel \in AnyChannel
  /\ SaveCategories(Put(mem.cats, channel, getCategories(channel) \cup {category}))

\* The entry of a channel goes with its last category.
removeCategory(channel, category) ==
  LET left == getCategories(channel) \ {category}
  IN  /\ category # 0 /\ channel \in DOMAIN mem.cats
      /\ SaveCategories(IF left = {} THEN Drop(mem.cats, channel) ELSE Put(mem.cats, channel, left))
--------------------------------------------------------------------------------
(* Variables: the first step of each call.                                 *)

Begin(c, variable, field, value) ==
  /\ job[c] = Idle
  /\ job' = [job EXCEPT ![c] = [variable |-> variable, field |-> field, value |-> value]]

\* A row sent by value may arrive after that of a later call.
Raced(c, variable, field) ==
  IF \E d \in Callers \ {c} : job[d] # Idle /\ job[d].variable = variable /\ job[d].field = field
  THEN {<<variable, field>>} ELSE {}

setVariableRoom(c, v, room) ==
  /\ Begin(c, v, "room", room)
  /\ mem' = [mem EXCEPT !.vars[v].room = room]
  /\ stale' = stale \cup Raced(c, v, "room")
  /\ UNCHANGED db

setVariableBuildingPart(c, v, part) ==
  /\ Begin(c, v, "part", part)
  /\ mem' = [mem EXCEPT !.vars[v].part = part]
  /\ stale' = stale \cup Raced(c, v, "part")
  /\ UNCHANGED db

\* The rows of categories and roles are built when they are sent.
addCategoryToVariable(c, v, category) ==
  /\ Begin(c, v, "cats", 0)
  /\ mem' = [mem EXCEPT !.vars[v].cats = @ \cup {category}]
  /\ UNCHANGED <<db, stale>>

removeCategoryFromVariable(c, v, category) ==
  /\ Begin(c, v, "cats", 0)
  /\ mem' = [mem EXCEPT !.vars[v].cats = @ \ {category}]
  /\ UNCHANGED <<db, stale>>

addRoleToVariable(c, v, role, direction, invert, scale) ==
  /\ role \notin DOMAIN mem.vars[v].roles
  /\ Begin(c, v, "roles", 0)
  /\ mem' = [mem EXCEPT !.vars[v].roles =
               Put(@, role, [dir |-> RoleDirectionOf(v, direction), invert |-> invert, scale |-> scale])]
  /\ UNCHANGED <<db, stale>>

removeRoleFromVariable(c, v, role) ==
  /\ Begin(c, v, "roles", 0)
  /\ mem' = [mem EXCEPT !.vars[v].roles = Drop(@, role)]
  /\ UNCHANGED <<db, stale>>

\* The second step of each call: the row.
SaveVariablePlacement(c) ==
  LET v == job[c].variable
      field == job[c].field
  IN  /\ job[c] # Idle
      /\ db' = CASE field = "room" -> [db EXCEPT !.vars[v].room = job[c].value]
                 [] field = "part" -> [db EXCEPT !.vars[v].part = job[c].value]
                 [] field = "cats" -> [db EXCEPT !.vars[v].cats = mem.vars[v].cats]
                 [] field = "roles" -> [db EXCEPT !.vars[v].roles = RoleRow(mem.vars[v].roles)]
      /\ job' = [job EXCEPT ![c] = Idle]
      /\ stale' = IF field \in {"room", "part"} /\ Raced(c, v, field) = {} /\ job[c].value = mem.vars[v][field]
                  THEN stale \ {<<v, field>>} ELSE stale
      /\ UNCHANGED mem

(* The room, building part, category or role is gone: every variable of it *)
(* is changed.  The rows of rooms and building parts get the identifier of *)
(* what was removed, where the memory gets 0.                              *)
removeRoomFromVariables(room) ==
  LET inside == {v \in Vars : mem.vars[v].room = room}
      at(vars, x) == [v \in Vars |-> IF v \in inside THEN [vars[v] EXCEPT !.room = x] ELSE vars[v]]
  IN  /\ mem' = [mem EXCEPT !.vars = at(@, 0)]
      /\ db' = [db EXCEPT !.vars = at(@, room)]
      /\ stale' = stale \cup (inside \X {"room"})
      /\ UNCHANGED job

removeBuildingPartFromVariables(part) ==
  LET inside == {v \in Vars : mem.vars[v].part = part}
      at(vars, x) == [v \in Vars |-> IF v \in inside THEN [vars[v] EXCEPT !.part = x] ELSE vars[v]]
  IN  /\ mem' = [mem EXCEPT !.vars = at(@, 0)]
      /\ db' = [db EXCEPT !.vars = at(@, part)]
      /\ stale' = stale \cup (inside \X {"part"})
      /\ UNCHANGED job

removeCategoryFromVariables(category) ==
  LET left == [v \in Vars |-> [mem.vars[v] EXCEPT !.cats = @ \ {category}]]
  IN  /\ mem' = [mem EXCEPT !.vars = left]
      /\ db' = [db EXCEPT !.vars = [v \in Vars |-> [@[v] EXCEPT !.cats = left[v].cats]]]
      /\ UNCHANGED <<job, stale>>

removeRoleFromVariables(role) ==
  LET left == [v \in Vars |-> [mem.vars[v] EXCEPT !.roles = Drop(@, role)]]
  IN  /\ mem' = [mem EXCEPT !.vars = left]
      /\ db' = [db EXCEPT !.vars = [v \in Vars |-> [@[v] EXCEPT !.roles = RoleRow(left[v].roles)]]]
      /\ UNCHANGED <<job, stale>>
--------------------------------------------------------------------------------
(* Restart.  Rooms and building parts of 0 are not read back; a variable   *)
(* whose row has no roles gets those of its description, in the row too.   *)

NonZero(f) == [c \in {d \in DOMAIN f : f[d] # 0} |-> f[c]]

Loaded(rows) ==
  [rows EXCEPT !.rooms = NonZero(@), !.parts = NonZero(@),
               !.vars = [v \in Vars |-> IF DOMAIN @[v].roles = {}
                                         THEN [@[v] EXCEPT !.roles = DescribedRoles(v)] ELSE @[v]]]

Restart ==
  LET vars == Loaded(db).vars
  IN  /\ \A c \in Callers : job[c] = Idle
      /\ mem' = Loaded(db)
      /\ db' = [db EXCEPT !.vars = [v \in Vars |-> [vars[v] EXCEPT !.roles = RoleRow(@)]]]
      /\ stale' = {}
      /\ UNCHANGED job
--------------------------------------------------------------------------------
(* What the checks of Acl ask a peer (roomsSet, hasRoomInChannels,         *)
(* hasCategoryInChannels, getVariableRoom, variableHasCategory, ...).      *)

ViewOf(id, place) ==
  [id |-> id, rooms |-> ValuesOf(place.rooms), parts |-> ValuesOf(place.parts),
   cats |-> UNION ValuesOf(place.cats),
   vars |-> [v \in Vars |-> [room |-> place.vars[v].room, part |-> place.vars[v].part,
                             cats |-> place.vars[v].cats, roles |-> DOMAIN place.vars[v].roles]]]
=================================================================================
