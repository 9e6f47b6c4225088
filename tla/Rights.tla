---------------------------------- MODULE Rights ----------------------------------
(***************************************************************************)
(* Who may do what: the ACLs of a client decide about a peer by its id and *)
(* by where its channels and variables are placed, while groups are edited,*)
(* ACLs are loaded, the peer is placed and renamed, and the server is      *)
(* restarted.                                                              *)
(***************************************************************************)
EXTENDS CentralRpc

CONSTANTS
  ClientKinds,     \* what clients that read differ in
  Touched,         \* the variables that are placed
  Datas,           \* what an administrator may write into an ACL row
  Budgets          \* how often each kind of operation may begin, and all of them

\* What a check may be asked about.
Views ==
  [id : Names["id"], rooms : SUBSET ({0} \cup Rooms), parts : SUBSET ({0} \cup Parts), cats : SUBSET Cats,
   vars : [Vars -> [room : {0} \cup Rooms, part : {0} \cup Parts, cats : SUBSET Cats, roles : SUBSET Roles]]]

ASSUME RightsAssumption == NoPeer \notin Views /\ ThePeer \in Peers /\ Touched \subseteq Vars

VARIABLE left      \* how often each kind of operation may still begin

vars == <<aclsVars, placementVars, centralVars, left>>

Init ==
  /\ AclsInit /\ PlacementInit /\ CentralInit
  /\ left \in Budgets

Spend(kind) ==
  /\ left[kind] > 0 /\ left["all"] > 0
  /\ left' = [left EXCEPT ![kind] = @ - 1, !["all"] = @ - 1]

(* One disjunct for each operation.                                        *)
AclsNext ==
  /\ UNCHANGED <<placementVars, centralVars>>
  /\ \/ /\ Spend("load")
        /\ \/ \E l \in Loaders, user \in DOMAIN GroupsOf : FromUser(l, user)
           \/ \E datas \in Transfers : FromVariable(datas)
           \/ Clear
     \/ Spend("edit") /\ \E g \in Groups, data \in Datas : ChangeRow(g, data)
     \/ /\ UNCHANGED left
        /\ \E l \in Loaders : FromGroupsBegin(l) \/ LoadGroup(l) \/ FromGroupsEnd(l)

PlaceChannel ==
  \E channel \in AnyChannel :
    \/ \E room \in Rooms : addChannelToRoom(channel, room) \/ removeChannelFromRoom(channel, room)
    \/ \E part \in Parts :
         addChannelToBuildingPart(channel, part) \/ removeChannelFromBuildingPart(channel, part)
    \/ \E category \in Cats : addCategory(channel, category) \/ removeCategory(channel, category)

PlaceVariable ==
  \E c \in Callers, v \in Touched :
    \/ \E room \in Rooms \cup {0} : setVariableRoom(c, v, room)
    \/ \E part \in Parts \cup {0} : setVariableBuildingPart(c, v, part)
    \/ \E category \in Cats :
         addCategoryToVariable(c, v, category) \/ removeCategoryFromVariable(c, v, category)
    \/ \E role \in Roles :
         \/ removeRoleFromVariable(c, v, role)
         \/ \E direction \in Directions : addRoleToVariable(c, v, role, direction, FALSE, TRUE)

RemovePlaces ==
  \/ \E room \in Rooms : removeRoomFromVariables(room)
  \/ \E part \in Parts : removeBuildingPartFromVariables(part)
  \/ \E category \in Cats : removeCategoryFromVariables(category)
  \/ \E role \in Roles : removeRoleFromVariables(role)

PlacementNext ==
  /\ UNCHANGED <<aclsVars, centralVars>>
  /\ \/ Spend("place") /\ (PlaceChannel \/ PlaceVariable \/ RemovePlaces)
     \/ Spend("restart") /\ Restart
     \/ UNCHANGED left /\ \E c \in Callers : SaveVariablePlacement(c)

CentralNext ==
  /\ UNCHANGED <<aclsVars, placementVars>>
  /\ \/ /\ Spend("rename")
        /\ \E c \in Clients, kind \in Kinds, id \in Names["id"] :
             \E new \in Names[kind] : RenameBegin(c, kind, id, new)
     \/ /\ UNCHANGED left
        /\ \E c \in Clients :
             Check(c) \/ Store(c) \/ FindAgain(c) \/ Move(c) \/ UpdatePeer(c) \/ RenameEnd(c)

Next == AclsNext \/ PlacementNext \/ CentralNext

Spec == Init /\ [][Next]_vars
--------------------------------------------------------------------------------
(* The peer as the checks see it, now and after a restart.                 *)
ViewAfterRestart == ViewOf(peerRow["id"][ThePeer], Loaded(db))

Dirs == {"Read", "Write"}
Quiet == /\ aclsMutex = NoOne
         /\ \A c \in Callers : job[c] = Idle
         /\ \A c \in Clients : call[c] = Resting

\* A row that is known to be wrong, and roles that come back.
Suspect(v) == \/ \E field \in {"room", "part"} : <<v, field>> \in stale
              \/ DOMAIN mem.vars[v].roles = {} /\ Described[v] # {}

(* The decisions about a peer and its variables do not change with a       *)
(* restart, however the peer was placed, and whatever ran at the same time *)
(* (Peer::saveVariable, loadVariables and loadConfig; Acl::check...).      *)
(* Left out: variables whose room or building part was removed or set by   *)
(* two callers at a time, and those that lost the last described role.     *)
DecisionsSurviveRestart ==
  Quiet => \A dir \in Dirs :
    /\ deviceAccess(dir, View) = deviceAccess(dir, ViewAfterRestart)
    /\ \A v \in Vars : Suspect(v) \/
         variableAccess(dir, View, v[1], v[2]) = variableAccess(dir, ViewAfterRestart, v[1], v[2])

(* A device that one group denies is denied as a whole: none of its        *)
(* variables is readable or writeable, whatever the other groups and the   *)
(* other lists say (Acl::checkVariableReadAccess asks for the device).     *)
DeviceDenialReachesVariables ==
  aclsMutex = NoOne => \A dir \in Dirs :
    (\E i \in DOMAIN acls : checkDeviceAccess(acls[i], dir, View) = "deny")
      => \A v \in Vars : ~variableAccess(dir, View, v[1], v[2])

(* Callers leave a check out when no ACL has a list for it; that never     *)
(* overrules a denial (the Set queries of Acls against its checks).        *)
SkippedChecksDenyNothing ==
  \A dir \in Dirs, i \in DOMAIN acls :
    /\ placesDevicesSet(dir) \/ checkDeviceAccess(acls[i], dir, View) # "deny"
    /\ \A v \in Vars :
         variablesPlacesDevicesSet(dir) \/ checkVariableAccess(acls[i], dir, View, v[1], v[2]) # "deny"
    /\ aspectSet("categories", dir) \/ checkCategoriesAccess(acls[i], dir, Cats) # "deny"
    /\ aspectSet("roles", dir) \/ checkRolesAccess(acls[i], dir, Roles) # "deny"

(* Whoever gets the mutex finds no ACLs or all of them: a load that fails  *)
(* in the middle leaves nothing of it, and what is sent to another process *)
(* is there the same (Acls::fromGroups, toVariable, fromVariable).  Left   *)
(* out: what a fromVariable that threw has loaded.                         *)
WholeLoads ==
  aclsMutex = NoOne =>
    /\ torn \/ Len(acls) \in {0, asked}
    /\ \A i \in DOMAIN acls : fromVariable(<<>>, Forwarded[i]) = acls[i]

(* Variables and configuration parameters are described the same by all    *)
(* methods that tell of them, for every kind of client and with or without *)
(* its rights (Peer::getAllValues, getAllConfig, getParamsetDescription,   *)
(* getVariableDescription, getParamset, getValue, getConfigParameter).     *)
(* Left out: that actions have no "transmitted" in their operations, nor a *)
(* type in the configuration.                                              *)
Common == {"TYPE", "MIN", "MAX", "SPECIAL", "ROOM", "BUILDING_PART", "CATEGORIES", "ROLES"}
Part(element, names) == [n \in names \cap DOMAIN element |-> element[n]]
OperationsOf(element) ==
  (IF element.READABLE THEN 4 ELSE 0) + (IF element.WRITEABLE THEN 2 ELSE 0)
  + (IF element.TRANSMITTED /\ element.TYPE # "ACTION" THEN 1 ELSE 0)

SameVariables(client, checkAcls) ==
  LET id == IdOf(ThePeer)
      values == AllValues(client, TRUE, checkAcls)
      channels == IF id \in DOMAIN values THEN Existing ELSE {}
  IN  \A c \in channels :
        LET told == values[id][c].PARAMSET
            described == ParamsetDescription("id", id, client, c, "variables", checkAcls)
        IN  /\ DOMAIN told = DOMAIN described
            /\ DOMAIN told \subseteq DOMAIN Paramset("id", id, client, c, "variables", checkAcls)
            /\ \A name \in DOMAIN told :
                 /\ Part(told[name], Common) = Part(described[name], Common)
                 /\ OperationsOf(told[name]) = described[name].OPERATIONS
                 /\ DescriptionOfVariable(id, client, c, name) = described[name]
                 /\ ("VALUE" \in DOMAIN told[name]) = ~Failed(Value("id", id, client, c, name))

SameConfig(client) ==
  LET id == IdOf(ThePeer)
      told == AllConfigs(client, FALSE)[id]
  IN  \A c \in Existing :
        LET described == ParamsetDescription("id", id, client, c, "config", FALSE)
        IN  \A name \in DOMAIN described :
              /\ name \in DOMAIN told[c]
              /\ LET common == IF ConfigOf[<<c, name>>].type = "ACTION" THEN Common \ {"TYPE"} ELSE Common
                 IN  Part(told[c][name], common) = Part(described[name], common)
              /\ ("VALUE" \in DOMAIN told[c][name]) = ~Failed(ConfigParameter("id", id, client, c, name))

(* What is placed somewhere is listed there, and only there: the lists of  *)
(* rooms, building parts, categories and roles against what the variables, *)
(* channels and devices say of themselves, asked at the central with and   *)
(* without rights (ICentral::getVariablesIn..., getRolesInRoom,            *)
(* getChannelsIn..., getDevicesIn..., listDevices).                        *)
ListedBy(answer) == IF IdOf(ThePeer) \in DOMAIN answer THEN answer[IdOf(ThePeer)] ELSE {}
NamesIn(answer) == IF IdOf(ThePeer) \in DOMAIN answer THEN DOMAIN answer[IdOf(ThePeer)] ELSE {}

SameVariablePlaces(checkAcls) ==
  \A v \in {u \in Vars : ThePeer \in Asked(checkAcls) /\ MayRead(checkAcls, u)} :
    LET where == [ROOM |-> 0, BUILDING_PART |-> 0, CATEGORIES |-> {}, ROLES |-> <<>>]
        said == [n \in DOMAIN where |-> IF n \in DOMAIN PlacementOf(v) THEN PlacementOf(v)[n] ELSE where[n]]
    IN  /\ {r \in Rooms : v \in ListedBy(VariablesInRoom(r, FALSE, checkAcls))} = {said.ROOM} \ {0}
        /\ {b \in Parts : v \in ListedBy(VariablesInBuildingPart(b, FALSE, checkAcls))} = {said.BUILDING_PART} \ {0}
        /\ {k \in Cats : v \in ListedBy(VariablesInCategory(k, checkAcls))} = said.CATEGORIES
        /\ {r \in Roles : v \in NamesIn(VariablesInRole(r, checkAcls))} = DOMAIN said.ROLES

SameRoles(checkAcls) ==
  \A r \in Rooms : NamesIn(RolesInRoom(r, checkAcls))
                   = ListedBy(VariablesInRoom(r, TRUE, checkAcls)) \cap DOMAIN getRolesInDevice(checkAcls)

Places == {"ROOM", "BUILDING_PART", "CATEGORIES"}
SameDevices(checkAcls) ==
  LET id == IdOf(ThePeer)
      devices == listDevices(TRUE, Places, {}, checkAcls)
  IN  /\ (id \in DOMAIN devices) = (ThePeer \in Asked(checkAcls))
      /\ id \in DOMAIN devices => \A c \in DOMAIN devices[id] :
           LET told == Part(Description("id", id, c, Places), Places)
               within(name, x) == name \in DOMAIN told /\ (told[name] = x)
               has(k) == "CATEGORIES" \in DOMAIN told /\ k \in told.CATEGORIES
           IN  /\ told = Part(devices[id][c], Places)
               /\ \A r \in Rooms : (c \in ListedBy(ChannelsInRoom(r, checkAcls))) = within("ROOM", r)
               /\ \A b \in Parts : (c \in ListedBy(ChannelsInBuildingPart(b, checkAcls))) = within("BUILDING_PART", b)
               /\ \A k \in Cats : (c \in ListedBy(ChannelsInCategory(k, checkAcls))) = has(k)
               /\ c = -1 => /\ \A r \in Rooms : (id \in DevicesInRoom(r)) = within("ROOM", r)
                            /\ \A b \in Parts : (id \in DevicesInBuildingPart(b)) = within("BUILDING_PART", b)
                            /\ \A k \in Cats : (id \in DevicesInCategory(k)) = has(k)

SamePlaces(checkAcls) == SameVariablePlaces(checkAcls) /\ SameRoles(checkAcls) /\ SameDevices(checkAcls)

(* Links as devices have them: no channel has one twice, peers that are    *)
(* linked have one of which both ends know, and the sender notes no link   *)
(* it receives before it, which would hide the link (getLink).             *)
LinksPaired ==
  /\ \A x \in DOMAIN LinksOf : \A i, j \in DOMAIN LinksOf[x] : LinksOf[x][i] = LinksOf[x][j] => i = j
  /\ \A l \in Links : \E x, y \in DOMAIN LinksOf :
       /\ {x[1], y[1]} = {l[1], l[2]} /\ LinkTypes[x] # {} /\ LinkTypes[y] # {}
       /\ \E i \in DOMAIN LinksOf[x] : /\ LinksOf[x][i] = [to |-> y[1], channel |-> y[2], sender |-> TRUE]
                                      /\ \A j \in 1..i : LinksOf[x][j].sender
       /\ \E i \in DOMAIN LinksOf[y] : LinksOf[y][i] = [to |-> x[1], channel |-> x[2], sender |-> FALSE]

(* A link that both of its ends know is listed once, and each end lists it *)
(* as the other one does (Peer::getLink, ICentral::getLinks).              *)
SameLinks ==
  LET links == getLinks(FALSE)
  IN  /\ \A x, y \in DOMAIN links : x # y => links[x] # links[y]
      /\ \A l \in Links :
           /\ \E x \in DOMAIN links : {links[x].SENDER.id, links[x].RECEIVER.id} = {IdOf(l[1]), IdOf(l[2])}
           /\ getLinksOf(l[1]) \cap getLinksOf(l[2]) # {}
      /\ \A x \in DOMAIN LinksOf : \A partner \in getLinkPeers(x[1], x[2], TRUE) :
           \E other \in getLinkPeers(x[1], x[2], FALSE) :
             getPeer("id", partner[1]) = getPeer("serial", other[1]) /\ partner[2] = other[2]

(* A peer gives the same answer by its id and by its serial number.        *)
SamePeers ==
  \A p \in Peers, channel \in AnyChannel :
    /\ Description("id", IdOf(p), channel, {}) = Description("serial", own["serial"][p], channel, {})
    /\ getPeerId(own["serial"][p], FALSE) = {IdOf(p)}

(* All methods that read tell the same of the peers, whatever was placed,  *)
(* renamed or loaded before (the comments at the parts say what of).  Left *)
(* out: peers whose ids or serial numbers two clients changed at a time.   *)
ReadersAgree ==
  Quiet /\ overlapped = {} =>
    /\ \A client \in ClientKinds : SameConfig(client) /\ \A checkAcls \in BOOLEAN : SameVariables(client, checkAcls)
    /\ \A checkAcls \in BOOLEAN : SamePlaces(checkAcls)
    /\ SameLinks /\ SamePeers

(* A peer has one name of each kind, it is found by that name, and its row *)
(* and the entries of its partners have it too, once no rename runs;       *)
(* renames at the same time may interleave as long as they share no name   *)
(* (ICentral::setPeerId, setPeerSerialNumber, Peer::updatePeer).  Entries  *)
(* are only renamed by peers that are found by their ids: a peer whose id  *)
(* was taken by such a race is not told of renames any more.               *)
NamesAgree ==
  \A k \in Kinds \ overlapped :
    /\ \A p \in Peers : \E n \in DOMAIN index[k] : index[k][n] = p
    /\ (\A c \in Clients : call[c] = Resting) =>
         /\ \A p \in Peers : own[k][p] \in DOMAIN index[k] /\ index[k][own[k][p]] = p
         /\ Cardinality(DOMAIN index[k]) = Cardinality(Peers)
         /\ peerRow[k] = own[k]
         /\ "id" \in overlapped \/ \A l \in Links : entry[k][l] = own[k][l[2]]
=================================================================================
