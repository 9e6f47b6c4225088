----------------------------------- MODULE Acls ----------------------------------
(***************************************************************************)
(* The access control lists of one client (Security/Acls.cpp): one Acl for *)
(* each group of the user, in the order of the groups, loaded from the     *)
(* database, taken over from another process or dropped while other        *)
(* threads ask for decisions.  All of it is under _aclsMutex; loading      *)
(* reads one row of the database after the other while it holds the mutex, *)
(* so the rows may change between two of its steps.                        *)
(***************************************************************************)
EXTENDS Acl

CONSTANTS
  Groups,        \* groups of users in the database
  GroupsOf,      \* the groups of each user that is known, a sequence
  Loaders,       \* threads that load ACLs
  Fault,         \* what the database answers when it cannot read a row
  Rows,          \* serialized ACLs, the broken ones included
  Transfers,     \* sequences of serialized ACLs another process sends
  NoOne

ASSUME AclsAssumption ==
  /\ NoOne \notin Loaders
  /\ \A user \in DOMAIN GroupsOf : GroupsOf[user] \in Seq(Groups)
  /\ \A datas \in Transfers : Len(datas) \in Nat /\ DOMAIN datas = 1..Len(datas)

VARIABLES
  acls,          \* _acls
  aclsMutex,     \* the loader that holds _aclsMutex
  todo,          \* of each loader, the groups it has still to load; <<>> when idle
  row,           \* the ACL rows of the database
  asked,         \* history: the number of ACLs the last load had to give
  torn           \* history: the last fromVariable threw

aclsVars == <<acls, aclsMutex, todo, row, asked, torn>>

AclsInit ==
  /\ acls = <<>> /\ aclsMutex = NoOne
  /\ todo = [l \in Loaders |-> <<>>]
  /\ row \in [Groups -> Rows]
  /\ asked = 0 /\ torn = FALSE
--------------------------------------------------------------------------------
(* Decisions: a denial or an error in one ACL decides, else one consent is *)
(* needed.                                                                 *)

Granted(check(_)) ==
  LET results == {check(acls[i]) : i \in DOMAIN acls}
  IN  results \cap {"error", "deny"} = {} /\ "accept" \in results

serviceAccess(name) == Granted(LAMBDA a : checkServiceAccess(a, name))
eventServerMethodAccess(name) == Granted(LAMBDA a : checkEventServerMethodAccess(a, name))
methodAccess(name) == Granted(LAMBDA a : checkMethodAccess(a, name))
categoriesAccess(dir, ids) == Granted(LAMBDA a : checkCategoriesAccess(a, dir, ids))
categoryAccess(dir, id) == Granted(LAMBDA a : checkCategoryAccess(a, dir, id))
rolesAccess(dir, ids) == Granted(LAMBDA a : checkRolesAccess(a, dir, ids))
roleAccess(dir, id) == Granted(LAMBDA a : checkRoleAccess(a, dir, id))
roomAccess(dir, id) == Granted(LAMBDA a : checkRoomAccess(a, dir, id))
buildingPartAccess(dir, id) == Granted(LAMBDA a : checkBuildingPartAccess(a, dir, id))
deviceAccess(dir, peer) == peer # NoPeer /\ Granted(LAMBDA a : checkDeviceAccess(a, dir, peer))
methodAndCategoryAccess(dir, name, id) ==
  Granted(LAMBDA a : checkMethodAndCategoryAccess(a, dir, name, id))
methodAndRoleAccess(dir, name, id) ==
  Granted(LAMBDA a : checkMethodAndRoleAccess(a, dir, name, id))
methodAndRoomAccess(dir, name, id) ==
  Granted(LAMBDA a : checkMethodAndRoomAccess(a, dir, name, id))
methodAndBuildingPartAccess(dir, name, id) ==
  Granted(LAMBDA a : checkMethodAndBuildingPartAccess(a, dir, name, id))
methodAndDeviceWriteAccess(name, id) ==
  Granted(LAMBDA a : checkMethodAndDeviceWriteAccess(a, name, id))
nodeBlueVariableAccess(dir, nodeId, input) ==
  nodeId # "" /\ input >= 0 /\ Granted(LAMBDA a : checkNodeBlueVariableAccess(a, dir, nodeId, input))
systemVariableAccess(dir, var) ==
  var # NoPeer /\ Granted(LAMBDA a : IF dir = "Read" THEN checkSystemVariableReadAccess(a, var)
                                                     ELSE checkSystemVariableWriteAccess(a, var))
variableAccess(dir, peer, channel, name) ==
  peer # NoPeer /\ Granted(LAMBDA a : checkVariableAccess(a, dir, peer, channel, name))

\* Mutant: only the first ACL is looked at.
anySetFirst(aspects, dir) == acls # <<>> /\ DOMAIN acls[1] \cap (aspects \X {dir}) # {}

\* Whether any ACL has one of the lists set: what callers ask in order to
\* leave the checks out.
anySet(aspects, dir) == \E i \in DOMAIN acls : DOMAIN acls[i] \cap (aspects \X {dir}) # {}
aspectSet(aspect, dir) == anySet({aspect}, dir)
PlaceAspects == {"buildingParts", "rooms", "categories", "roles"}
placesDevicesSet(dir) == anySet(PlaceAspects \cup {"devices"}, dir)
variablesPlacesSet(dir) == anySet(PlaceAspects \cup {"variables"}, dir)
variablesPlacesDevicesSet(dir) == anySet(PlaceAspects \cup {"variables", "devices"}, dir)
--------------------------------------------------------------------------------
(* Loading.                                                                *)

\* fromUser: the groups are looked up without the mutex.  An unknown user
\* and one without groups leave the ACLs as they are.
FromUser(l, user) ==
  /\ todo[l] = <<>> /\ aclsMutex # l
  /\ GroupsOf[user] # <<>>
  /\ todo' = [todo EXCEPT ![l] = GroupsOf[user]]
  /\ UNCHANGED <<acls, aclsMutex, row, asked, torn>>

FromGroupsBegin(l) ==
  /\ todo[l] # <<>> /\ aclsMutex = NoOne
  /\ aclsMutex' = l
  /\ acls' = <<>> /\ asked' = Len(todo[l]) /\ torn' = FALSE
  /\ UNCHANGED <<todo, row>>

\* Mutant: what was loaded before the fault stays.
GiveUpKeep(l) ==
  /\ aclsMutex' = NoOne /\ UNCHANGED acls
  /\ todo' = [todo EXCEPT ![l] = <<>>]

\* A fault and an exception clear what was loaded and end the load.
GiveUp(l) ==
  /\ acls' = <<>> /\ aclsMutex' = NoOne
  /\ todo' = [todo EXCEPT ![l] = <<>>]

LoadGroup(l) ==
  LET data == row[Head(todo[l])]
  IN  /\ aclsMutex = l /\ todo[l] # <<>>
      /\ \/ data = Fault /\ GiveUp(l)
         \/ data # Fault /\ Throws(data) /\ GiveUp(l)
         \/ /\ data # Fault /\ ~Throws(data)
            /\ acls' = Append(acls, fromVariable(<<>>, data))
            /\ todo' = [todo EXCEPT ![l] = Tail(@)]
            /\ UNCHANGED aclsMutex
      /\ UNCHANGED <<row, asked, torn>>

FromGroupsEnd(l) ==
  /\ aclsMutex = l /\ todo[l] = <<>>
  /\ aclsMutex' = NoOne
  /\ UNCHANGED <<acls, todo, row, asked, torn>>

\* fromVariable takes over all the ACLs up to the first broken one.
Intact(datas) == {i \in DOMAIN datas : \A j \in 1..i : ~Throws(datas[j])}

FromVariable(datas) ==
  /\ aclsMutex = NoOne
  /\ acls' = [i \in 1..Cardinality(Intact(datas)) |-> fromVariable(<<>>, datas[i])]
  /\ asked' = Len(datas) /\ torn' = (Intact(datas) # DOMAIN datas)
  /\ UNCHANGED <<aclsMutex, todo, row>>

Clear ==
  /\ aclsMutex = NoOne
  /\ acls' = <<>> /\ asked' = 0 /\ torn' = FALSE
  /\ UNCHANGED <<aclsMutex, todo, row>>

\* The rows belong to the database; anyone may change them at any time.
ChangeRow(g, data) ==
  /\ row' = [row EXCEPT ![g] = data]
  /\ UNCHANGED <<acls, aclsMutex, todo, asked, torn>>

\* toVariable of all ACLs, what another process is sent.
Forwarded == [i \in DOMAIN acls |-> toVariable(acls[i])]
=================================================================================
