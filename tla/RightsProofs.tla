---------------------------- MODULE RightsProofs ----------------------------
(***************************************************************************)
(* Proofs about Rights, from the assumptions on its constants alone.       *)
(*                                                                         *)
(* Each part of the state has its own inductive invariant, as the steps of *)
(* the other parts leave it alone: AclsInv (lists and loaders),            *)
(* PlacementInv (memory and rows of the placed peer) and CentralInv (names,*)
(* maps and running renames).  What depends on no history is proved of the *)
(* decisions as operators: SkippedChecksDenyNothing and                    *)
(* DeviceDenialReachesVariables hold in every state.                       *)
(***************************************************************************)
EXTENDS Rights, FiniteSetTheorems, SequenceTheorems, TLAPS

(* A list that no ACL has set cannot deny.                                 *)
LEMMA SetWhereListed ==
  ASSUME NEW aspects, NEW dir, ~anySet(aspects, dir), NEW i \in DOMAIN acls, NEW a \in aspects
  PROVE  <<a, dir>> \notin DOMAIN acls[i]
  BY DEF anySet

(* A check that callers leave out, as no ACL has a list for it, would not  *)
(* have denied (the Set queries of Acls against its checks).               *)
THEOREM SkippedChecksCorrect == SkippedChecksDenyNothing
<1> SUFFICES ASSUME NEW dir \in Dirs, NEW i \in DOMAIN acls
             PROVE  /\ placesDevicesSet(dir) \/ checkDeviceAccess(acls[i], dir, View) # "deny"
                    /\ \A v \in Vars : variablesPlacesDevicesSet(dir)
                         \/ checkVariableAccess(acls[i], dir, View, v[1], v[2]) # "deny"
                    /\ aspectSet("categories", dir) \/ checkCategoriesAccess(acls[i], dir, Cats) # "deny"
                    /\ aspectSet("roles", dir) \/ checkRolesAccess(acls[i], dir, Roles) # "deny"
  BY DEF SkippedChecksDenyNothing
<1>1. ASSUME ~placesDevicesSet(dir) PROVE checkDeviceAccess(acls[i], dir, View) # "deny"
  <2>1. DOMAIN acls[i] \cap {<<"rooms", dir>>, <<"buildingParts", dir>>, <<"categories", dir>>, <<"devices", dir>>} = {}
    BY <1>1, SetWhereListed DEF placesDevicesSet, PlaceAspects
  <2> QED
    BY <2>1 DEF checkDeviceAccess
<1>2. ASSUME NEW v \in Vars, ~variablesPlacesDevicesSet(dir)
      PROVE  checkVariableAccess(acls[i], dir, View, v[1], v[2]) # "deny"
  <2>1. DOMAIN acls[i] \cap (VariableLists \X {dir}) = {}
    BY <1>2, SetWhereListed DEF variablesPlacesDevicesSet, PlaceAspects, VariableLists
  <2> QED
    BY <2>1 DEF checkVariableAccess
<1>3. ASSUME ~aspectSet("categories", dir) PROVE checkCategoriesAccess(acls[i], dir, Cats) # "deny"
  BY <1>3, SetWhereListed DEF aspectSet, checkCategoriesAccess, IsSet
<1>4. ASSUME ~aspectSet("roles", dir) PROVE checkRolesAccess(acls[i], dir, Roles) # "deny"
  BY <1>4, SetWhereListed DEF aspectSet, checkRolesAccess, IsSet
<1> QED
  BY <1>1, <1>2, <1>3, <1>4

-----------------------------------------------------------------------------
LEMMA DenialWins ==
  ASSUME NEW results, "deny" \in results
  PROVE  AnyOf(results) \in {"deny", "error"}
  BY DEF AnyOf

(* An ACL that denies the device denies each variable of it.               *)
LEMMA DeviceInVariable ==
  ASSUME NEW acl, NEW dir, NEW peer, NEW channel, NEW name, checkDeviceAccess(acl, dir, peer) = "deny"
  PROVE  /\ peer # NoPeer
         /\ checkVariableAccess(acl, dir, peer, channel, name) \in {"deny", "error"}
<1>1. peer # NoPeer
  BY DEF checkDeviceAccess
<1>2. DOMAIN acl \cap (VariableLists \X {dir}) # {}
  <2>1. DOMAIN acl \cap {<<"rooms", dir>>, <<"buildingParts", dir>>, <<"categories", dir>>, <<"devices", dir>>} # {}
    BY <1>1 DEF checkDeviceAccess
  <2> QED
    BY <2>1 DEF VariableLists
<1> DEFINE results == VariableAspects(acl, dir, peer, channel, name) \cup {checkDeviceAccess(acl, dir, peer)}
<1>3. checkVariableAccess(acl, dir, peer, channel, name) = AnyOf(results)
  BY <1>1, <1>2 DEF checkVariableAccess
<1>4. "deny" \in results
  OBVIOUS
<1> HIDE DEF results
<1> QED
  BY <1>1, <1>3, <1>4, DenialWins

(* A device that one group denies is denied with all its variables,        *)
(* whatever the other lists and groups say (Acl::checkVariableReadAccess). *)
THEOREM DeviceDenialCorrect == DeviceDenialReachesVariables
<1> SUFFICES ASSUME NEW dir \in Dirs, NEW i \in DOMAIN acls, checkDeviceAccess(acls[i], dir, View) = "deny",
                    NEW v \in Vars
             PROVE  ~variableAccess(dir, View, v[1], v[2])
  BY DEF DeviceDenialReachesVariables
<1>1. checkVariableAccess(acls[i], dir, View, v[1], v[2]) \in {"deny", "error"}
  BY DeviceInVariable
<1>2. ~Granted(LAMBDA a : checkVariableAccess(a, dir, View, v[1], v[2]))
  BY <1>1 DEF Granted
<1> QED
  BY <1>2 DEF variableAccess

-----------------------------------------------------------------------------
(* An ACL as it comes out of loading: a function to functions.             *)
AclForm(acl) == acl = [list \in DOMAIN acl |-> [k \in DOMAIN acl[list] |-> acl[list][k]]]

LEMMA LoadedForm == ASSUME NEW data PROVE AclForm(fromVariable(<<>>, data))
<1> DEFINE named == {e[1] : e \in data}
           new(list) == (CHOOSE e \in data : e[1] = list)[2]
           old(list) == IF list \in DOMAIN <<>> THEN <<>>[list] ELSE <<>>
           entries(list) == [k \in DOMAIN new(list) \cup DOMAIN old(list) |->
                               IF k \in DOMAIN new(list) THEN new(list)[k] ELSE old(list)[k]]
<1>1. DOMAIN <<>> = {}
  OBVIOUS
<1>2. fromVariable(<<>>, data) = [list \in named |-> entries(list)]
  BY <1>1 DEF fromVariable
<1>3. \A list \in named : entries(list) = [k \in DOMAIN entries(list) |-> entries(list)[k]]
  OBVIOUS
<1> HIDE DEF entries, named
<1> QED
  BY <1>2, <1>3 DEF AclForm

(* What is sent to another process arrives there as it was (toVariable     *)
(* and fromVariable of Acl).                                               *)
THEOREM ForwardedArrives ==
  ASSUME NEW acl, AclForm(acl) PROVE fromVariable(<<>>, toVariable(acl)) = acl
<1> DEFINE data == toVariable(acl)
           named == {e[1] : e \in data}
           new(list) == (CHOOSE e \in data : e[1] = list)[2]
           old(list) == IF list \in DOMAIN <<>> THEN <<>>[list] ELSE <<>>
<1>1. DOMAIN <<>> = {}
  OBVIOUS
<1>0. /\ \A e \in data : \E list \in DOMAIN acl : e = <<list, acl[list]>>
      /\ \A list \in DOMAIN acl : <<list, acl[list]>> \in data
  BY DEF toVariable
<1>2. named = DOMAIN acl
  <2> HIDE DEF data
  <2>1. ASSUME NEW list \in named PROVE list \in DOMAIN acl
    BY <1>0
  <2>2. ASSUME NEW list \in DOMAIN acl PROVE list \in named
    <3>1. <<list, acl[list]>> \in data /\ <<list, acl[list]>>[1] = list
      BY <1>0
    <3> QED
      BY <3>1
  <2> QED
    BY <2>1, <2>2
<1>3. ASSUME NEW list \in DOMAIN acl PROVE new(list) = acl[list]
  <2> HIDE DEF data
  <2> DEFINE e == CHOOSE e \in data : e[1] = list
  <2>1. <<list, acl[list]>> \in data /\ <<list, acl[list]>>[1] = list
    BY <1>0
  <2>2. e \in data /\ e[1] = list
    BY <2>1
  <2> QED
    BY <1>0, <2>2
<1>4. \A list \in DOMAIN acl : old(list) = <<>>
  BY <1>1
<1>5. fromVariable(<<>>, data) =
        [list \in named |-> [k \in DOMAIN new(list) \cup DOMAIN old(list) |->
           IF k \in DOMAIN new(list) THEN new(list)[k] ELSE old(list)[k]]]
  BY <1>1 DEF fromVariable
<1> HIDE DEF data, new, old, named
<1>6. \A list \in DOMAIN acl :
        [k \in DOMAIN new(list) \cup DOMAIN old(list) |->
           IF k \in DOMAIN new(list) THEN new(list)[k] ELSE old(list)[k]]
        = [k \in DOMAIN acl[list] |-> acl[list][k]]
  BY <1>1, <1>3, <1>4
<1>7. fromVariable(<<>>, data) = [list \in DOMAIN acl |-> [k \in DOMAIN acl[list] |-> acl[list][k]]]
  BY <1>2, <1>5, <1>6
<1> QED
  BY <1>7 DEF AclForm, data

-----------------------------------------------------------------------------
(* Loading.  The loader that holds the mutex has as many groups still to   *)
(* load as there are ACLs missing.                                         *)
Listed(s) == s \in Seq({s[i] : i \in DOMAIN s}) /\ \A i \in DOMAIN s : AclForm(s[i])

AclsType ==
  /\ aclsMutex \in Loaders \cup {NoOne}
  /\ todo \in [Loaders -> Seq(Groups)]
  /\ Listed(acls)
LoadInv ==
  /\ \A l \in Loaders : aclsMutex = l => ~torn /\ Len(acls) + Len(todo[l]) = asked
  /\ aclsMutex = NoOne => torn \/ Len(acls) \in {0, asked}
AclsInv == AclsType /\ LoadInv

LEMMA RangeSeq == ASSUME NEW S, NEW s \in Seq(S) PROVE s \in Seq({s[i] : i \in DOMAIN s})
<1> DEFINE R == {s[i] : i \in DOMAIN s}
<1>1. Len(s) \in Nat /\ s \in [1 .. Len(s) -> S] /\ DOMAIN s = 1 .. Len(s)
  BY LenProperties
<1>2. s \in [1 .. Len(s) -> R]
  BY <1>1
<1> HIDE DEF R
<1>3. [1 .. Len(s) -> R] \in {[1 .. n -> R] : n \in Nat}
  BY <1>1
<1>4. Seq(R) = UNION {[1 .. n -> R] : n \in Nat}
  BY SeqDef
<1> QED
  BY <1>2, <1>3, <1>4 DEF R

LEMMA ListedLen == ASSUME NEW s, Listed(s) PROVE Len(s) \in Nat
  BY DEF Listed

LEMMA OneMore ==
  ASSUME NEW s, Listed(s), NEW data, NEW t, t = Append(s, fromVariable(<<>>, data))
  PROVE  Listed(t) /\ Len(t) = Len(s) + 1
<1> USE DEF Listed
<1> DEFINE S == {s[i] : i \in DOMAIN s}
           x == fromVariable(<<>>, data)
<1>1. AclForm(x)
  BY LoadedForm
<1>2. s \in Seq(S) /\ DOMAIN s = 1 .. Len(s) /\ Len(s) \in Nat
  OBVIOUS
<1> HIDE DEF S, x
<1>3. t \in Seq(S \cup {x}) /\ Len(t) = Len(s) + 1 /\ DOMAIN t = 1 .. Len(s) + 1
  BY <1>2 DEF x
<1>4. \A i \in 1 .. Len(s) : t[i] = s[i]
  BY <1>2 DEF x
<1>5. t[Len(s) + 1] = x
  BY <1>2 DEF x
<1>6. \A i \in DOMAIN t : AclForm(t[i])
  <2> TAKE i \in DOMAIN t
  <2>1. CASE i \in 1 .. Len(s)
    BY <2>1, <1>2, <1>4
  <2>2. CASE i = Len(s) + 1
    BY <2>2, <1>1, <1>5
  <2> QED
    BY <1>2, <1>3, <2>1, <2>2
<1>7. t \in Seq({t[i] : i \in DOMAIN t})
  BY <1>3, RangeSeq
<1> QED
  BY <1>3, <1>6, <1>7

LEMMA NoAcls == Listed(<<>>) /\ Len(<<>>) = 0
  BY DEF Listed

LEMMA IntervalEnd == ASSUME NEW m \in Nat, NEW n \in Nat, 1..m = 1..n PROVE m = n
<1>1. m > 0 => m \in 1..n
  OBVIOUS
<1>2. n > 0 => n \in 1..m
  OBVIOUS
<1> QED
  BY <1>1, <1>2

(* All the ACLs another process sends are taken over, or the call threw.   *)
LEMMA Received ==
  ASSUME NEW datas \in Transfers, NEW t,
         t = [i \in 1..Cardinality(Intact(datas)) |-> fromVariable(<<>>, datas[i])]
  PROVE  /\ Listed(t)
         /\ Intact(datas) = DOMAIN datas => Len(t) = Len(datas)
<1> DEFINE n == Cardinality(Intact(datas))
<1>1. Len(datas) \in Nat /\ DOMAIN datas = 1..Len(datas)
  BY AclsAssumption
<1>2. Intact(datas) \subseteq 1..Len(datas)
  BY <1>1 DEF Intact
<1>3. IsFiniteSet(1..Len(datas)) /\ Cardinality(1..Len(datas)) = Len(datas)
  <2>1. 1 \in Int /\ Len(datas) \in Int
    BY <1>1
  <2>2. IsFiniteSet(1..Len(datas)) /\ Cardinality(1..Len(datas)) = IF 1 > Len(datas) THEN 0 ELSE Len(datas) - 1 + 1
    BY <2>1, FS_Interval
  <2> QED
    BY <1>1, <2>2
<1>4. n \in Nat
  BY <1>2, <1>3, FS_Subset, FS_CardinalityType
<1>5. Intact(datas) = DOMAIN datas => n = Len(datas)
  BY <1>1, <1>3
<1> HIDE DEF n
<1>6. t = [i \in 1..n |-> fromVariable(<<>>, datas[i])]
  BY DEF n
<1>7. t \in [1..n -> {t[i] : i \in DOMAIN t}] /\ DOMAIN t = 1..n
  BY <1>6
<1> DEFINE R == {t[i] : i \in DOMAIN t}
<1>8. t \in Seq(R) /\ Len(t) = n
  <2> HIDE DEF R
  <2>1. [1..n -> R] \in {[1..m -> R] : m \in Nat}
    BY <1>4
  <2>2. Seq(R) = UNION {[1..m -> R] : m \in Nat}
    BY SeqDef
  <2>3. t \in Seq(R)
    BY <1>7, <2>1, <2>2 DEF R
  <2>4. Len(t) \in Nat /\ DOMAIN t = 1..Len(t)
    BY <2>3, LenProperties
  <2>7. Len(t) = n
    BY <1>4, <1>7, <2>4, IntervalEnd
  <2> QED
    BY <2>3, <2>7
<1> QED
  BY <1>5, <1>6, <1>8, LoadedForm DEF Listed

LEMMA InitAcls == Init => AclsInv
<1> SUFFICES ASSUME Init PROVE AclsInv
  OBVIOUS
<1>1. acls = <<>> /\ aclsMutex = NoOne /\ todo = [l \in Loaders |-> <<>>] /\ asked = 0 /\ torn = FALSE
  BY DEF Init, AclsInit
<1>2. <<>> \in Seq(Groups)
  OBVIOUS
<1>3. Listed(acls) /\ Len(acls) = 0
  BY <1>1, NoAcls
<1> QED
  BY <1>1, <1>2, <1>3, AclsAssumption DEF AclsInv, AclsType, LoadInv

LEMMA StepAcls == AclsInv /\ [Next]_vars => AclsInv'
<1> SUFFICES ASSUME AclsInv, [Next]_vars PROVE AclsInv'
  OBVIOUS
<1> USE AclsAssumption DEF AclsInv, AclsType, LoadInv
<1>0. UNCHANGED aclsVars => AclsInv'
  BY DEF aclsVars
(* Nothing is loaded by anyone, all of it is gone.                         *)
<1>1. acls' = <<>> => Listed(acls)' /\ Len(acls') = 0
  BY NoAcls
<1>2. ASSUME NEW l \in Loaders, NEW user \in DOMAIN GroupsOf, FromUser(l, user) PROVE AclsInv'
  BY <1>2 DEF FromUser
<1>3. ASSUME NEW datas \in Transfers, FromVariable(datas) PROVE AclsInv'
  <2>1. /\ Listed(acls)'
        /\ Intact(datas) = DOMAIN datas => Len(acls') = Len(datas)
    BY <1>3, Received DEF FromVariable
  <2> QED
    BY <1>3, <2>1 DEF FromVariable
<1>4. ASSUME Clear PROVE AclsInv'
  BY <1>1, <1>4 DEF Clear
<1>5. ASSUME NEW g \in Groups, NEW data \in Datas, ChangeRow(g, data) PROVE AclsInv'
  BY <1>5 DEF ChangeRow
<1>6. ASSUME NEW l \in Loaders, FromGroupsBegin(l) PROVE AclsInv'
  <2>1. Len(todo[l]) \in Nat
    OBVIOUS
  <2> QED
    BY <1>1, <1>6, <2>1 DEF FromGroupsBegin
<1>7. ASSUME NEW l \in Loaders, LoadGroup(l) PROVE AclsInv'
  <2> DEFINE data == row[Head(todo[l])]
  <2>1. ASSUME GiveUp(l), UNCHANGED <<asked, torn>> PROVE AclsInv'
    <3>1. todo' \in [Loaders -> Seq(Groups)]
      BY <2>1 DEF GiveUp
    <3> QED
      BY <1>1, <2>1, <3>1 DEF GiveUp
  <2>2. ASSUME acls' = Append(acls, fromVariable(<<>>, data)), todo' = [todo EXCEPT ![l] = Tail(@)],
               UNCHANGED <<aclsMutex, asked, torn>>
        PROVE  AclsInv'
    <3>1. Listed(acls)' /\ Len(acls') = Len(acls) + 1
      BY <2>2, OneMore
    <3>2. aclsMutex = l /\ todo[l] # <<>> /\ todo[l] \in Seq(Groups)
      BY <1>7 DEF LoadGroup
    <3>3. Tail(todo[l]) \in Seq(Groups) /\ Len(Tail(todo[l])) = Len(todo[l]) - 1
      BY <3>2
    <3>4. Len(acls) \in Nat /\ Len(todo[l]) \in Nat
      BY <3>2, ListedLen
    <3>5. todo' \in [Loaders -> Seq(Groups)] /\ todo'[l] = Tail(todo[l])
      BY <2>2, <3>3
    <3>6. asked' = Len(acls') + Len(todo'[l]) /\ ~torn'
      <4>1. asked = Len(acls) + Len(todo[l]) /\ ~torn
        BY <3>2
      <4>2. Len(acls') = Len(acls) + 1 /\ Len(todo'[l]) = Len(todo[l]) - 1
        BY <3>1, <3>3, <3>5
      <4>3. asked' = asked /\ torn' = torn
        BY <2>2
      <4>4. \A m, n \in Nat : m + n = (m + 1) + (n - 1)
        OBVIOUS
      <4>5. Len(acls) + Len(todo[l]) = (Len(acls) + 1) + (Len(todo[l]) - 1)
        BY <3>4, <4>4
      <4> QED
        BY <4>1, <4>2, <4>3, <4>5
    <3>7. aclsMutex' = l /\ l # NoOne
      BY <2>2, <3>2
    <3> QED
      BY <3>1, <3>5, <3>6, <3>7
  <2> QED
    BY <1>7, <2>1, <2>2 DEF LoadGroup
<1>8. ASSUME NEW l \in Loaders, FromGroupsEnd(l) PROVE AclsInv'
  <2>1. Len(acls) \in Nat /\ Len(todo[l]) = 0
    BY <1>8, ListedLen DEF FromGroupsEnd
  <2> QED
    BY <1>8, <2>1 DEF FromGroupsEnd
<1>9. AclsNext => AclsInv'
  BY <1>2, <1>3, <1>4, <1>5, <1>6, <1>7, <1>8 DEF AclsNext
<1>10. PlacementNext \/ CentralNext \/ UNCHANGED vars => AclsInv'
  BY <1>0 DEF PlacementNext, CentralNext, vars
<1> QED
  BY <1>9, <1>10 DEF Next

(* Whoever gets the mutex finds no ACLs or all of them, and what is sent   *)
(* to another process is there the same: whatever the rows hold, however   *)
(* many loaders there are and however often a load fails in the middle.    *)
THEOREM WholeLoadsCorrect == Spec => []WholeLoads
<1>1. AclsInv => WholeLoads
  <2> SUFFICES ASSUME AclsInv, NEW i \in DOMAIN acls PROVE fromVariable(<<>>, Forwarded[i]) = acls[i]
    BY DEF WholeLoads, AclsInv, LoadInv
  <2>1. AclForm(acls[i]) /\ Forwarded[i] = toVariable(acls[i])
    BY DEF AclsInv, AclsType, Listed, Forwarded
  <2> QED
    BY <2>1, ForwardedArrives
<1> QED
  BY InitAcls, StepAcls, <1>1, PTL DEF Spec

-----------------------------------------------------------------------------
(* Placement.  Memory and rows of the channels differ at most by the zeros *)
(* a restart leaves out; those of a variable at most while a call has its  *)
(* row still to send, or where the row is known to be wrong.               *)
Shape(place) ==
  /\ DOMAIN place = {"rooms", "parts", "cats", "vars"} /\ DOMAIN place.vars = Vars
  /\ \A v \in Vars : DOMAIN place.vars[v] = {"room", "part", "cats", "roles"}
ChannelsType(place) ==
  /\ ValuesOf(place.rooms) \subseteq {0} \cup Rooms
  /\ ValuesOf(place.parts) \subseteq {0} \cup Parts
  /\ \A x \in ValuesOf(place.cats) : x \subseteq Cats
VarsType(place) ==
  \A v \in Vars :
    /\ place.vars[v].room \in {0} \cup Rooms /\ place.vars[v].part \in {0} \cup Parts
    /\ place.vars[v].cats \subseteq Cats /\ DOMAIN place.vars[v].roles \subseteq Roles
PlacementType ==
  /\ Shape(mem) /\ ChannelsType(mem) /\ VarsType(mem)
  /\ Shape(db) /\ ChannelsType(db) /\ VarsType(db)
  /\ job \in [Callers -> Jobs \cup {Idle}]
  /\ \A c \in Callers : job[c] # Idle =>
       /\ job[c].field = "room" => job[c].value \in {0} \cup Rooms
       /\ job[c].field = "part" => job[c].value \in {0} \cup Parts

ChannelsInv ==
  /\ mem.rooms = db.rooms \/ mem.rooms = NonZero(db.rooms)
  /\ mem.parts = db.parts \/ mem.parts = NonZero(db.parts)
  /\ mem.cats = db.cats

Sends(c, v, field) == job[c] # Idle /\ job[c].variable = v /\ job[c].field = field
FieldInv(v, field) ==
  \/ <<v, field>> \in stale
  \/ mem.vars[v][field] = db.vars[v][field] /\ \A c \in Callers : ~Sends(c, v, field)
  \/ \E c \in Callers :
       /\ Sends(c, v, field) /\ job[c].value = mem.vars[v][field]
       /\ \A d \in Callers : Sends(d, v, field) => d = c
VarInv(v) ==
  /\ FieldInv(v, "room") /\ FieldInv(v, "part")
  /\ mem.vars[v].cats = db.vars[v].cats \/ \E c \in Callers : Sends(c, v, "cats")
  /\ DOMAIN mem.vars[v].roles = DOMAIN db.vars[v].roles \/ \E c \in Callers : Sends(c, v, "roles")
PlacementInv == PlacementType /\ ChannelsInv /\ \A v \in Vars : VarInv(v)

LEMMA PutValues == ASSUME NEW f, NEW k, NEW x PROVE ValuesOf(Put(f, k, x)) \subseteq ValuesOf(f) \cup {x}
  BY DEF ValuesOf, Put
LEMMA DropValues == ASSUME NEW f, NEW k PROVE ValuesOf(Drop(f, k)) \subseteq ValuesOf(f)
  BY DEF ValuesOf, Drop
LEMMA NonZeroValues == ASSUME NEW f PROVE ValuesOf(NonZero(f)) = ValuesOf(f) \ {0}
  BY DEF ValuesOf, NonZero
LEMMA RowDomain == ASSUME NEW roles PROVE DOMAIN RoleRow(roles) = DOMAIN roles
  BY DEF RoleRow

(* The channels change, the variables do not.                              *)
LEMMA ChannelStep ==
  ASSUME PlacementInv, UNCHANGED <<job, stale>>, mem'.vars = mem.vars, db'.vars = db.vars,
         Shape(mem)', Shape(db)', ChannelsType(mem)', ChannelsType(db)', ChannelsInv'
  PROVE  PlacementInv'
<1>1. VarsType(mem)' /\ VarsType(db)'
  BY DEF PlacementInv, PlacementType, VarsType
<1>2. ASSUME NEW v \in Vars PROVE VarInv(v)'
  <2>1. \A c \in Callers : \A field : Sends(c, v, field)' <=> Sends(c, v, field)
    BY DEF Sends
  <2>2. FieldInv(v, "room")' /\ FieldInv(v, "part")'
    BY <2>1 DEF PlacementInv, VarInv, FieldInv
  <2> QED
    BY <2>1, <2>2 DEF PlacementInv, VarInv
<1> QED
  BY <1>1, <1>2 DEF PlacementInv, PlacementType

LEMMA RoomStep ==
  ASSUME PlacementInv, NEW channel, NEW room \in {0} \cup Rooms, setRoom(channel, room) PROVE PlacementInv'
<1> DEFINE rooms == Put(mem.rooms, channel, room)
<1>1. ValuesOf(rooms) \subseteq {0} \cup Rooms
  BY PutValues DEF PlacementInv, PlacementType, ChannelsType
<1> HIDE DEF rooms
<1>2. mem' = [mem EXCEPT !.rooms = rooms] /\ db' = [db EXCEPT !.rooms = rooms] /\ UNCHANGED <<job, stale>>
  BY DEF setRoom, rooms
<1>3. /\ mem'.rooms = rooms /\ mem'.parts = mem.parts /\ mem'.cats = mem.cats /\ mem'.vars = mem.vars
      /\ db'.rooms = rooms /\ db'.parts = db.parts /\ db'.cats = db.cats /\ db'.vars = db.vars
      /\ DOMAIN mem' = DOMAIN mem /\ DOMAIN db' = DOMAIN db
  BY <1>2 DEF PlacementInv, PlacementType, Shape
<1>4. Shape(mem)' /\ Shape(db)'
  BY <1>3 DEF PlacementInv, PlacementType, Shape
<1>5. ChannelsType(mem)' /\ ChannelsType(db)' /\ ChannelsInv'
  BY <1>1, <1>3 DEF PlacementInv, PlacementType, ChannelsType, ChannelsInv
<1> QED
  BY <1>2, <1>3, <1>4, <1>5, ChannelStep

LEMMA PartStep ==
  ASSUME PlacementInv, NEW channel, NEW part \in {0} \cup Parts, setBuildingPart(channel, part)
  PROVE  PlacementInv'
<1> DEFINE parts == Put(mem.parts, channel, part)
<1>1. ValuesOf(parts) \subseteq {0} \cup Parts
  BY PutValues DEF PlacementInv, PlacementType, ChannelsType
<1> HIDE DEF parts
<1>2. mem' = [mem EXCEPT !.parts = parts] /\ db' = [db EXCEPT !.parts = parts] /\ UNCHANGED <<job, stale>>
  BY DEF setBuildingPart, parts
<1>3. /\ mem'.rooms = mem.rooms /\ mem'.parts = parts /\ mem'.cats = mem.cats /\ mem'.vars = mem.vars
      /\ db'.rooms = db.rooms /\ db'.parts = parts /\ db'.cats = db.cats /\ db'.vars = db.vars
      /\ DOMAIN mem' = DOMAIN mem /\ DOMAIN db' = DOMAIN db
  BY <1>2 DEF PlacementInv, PlacementType, Shape
<1>4. Shape(mem)' /\ Shape(db)'
  BY <1>3 DEF PlacementInv, PlacementType, Shape
<1>5. ChannelsType(mem)' /\ ChannelsType(db)' /\ ChannelsInv'
  BY <1>1, <1>3 DEF PlacementInv, PlacementType, ChannelsType, ChannelsInv
<1> QED
  BY <1>2, <1>3, <1>4, <1>5, ChannelStep

LEMMA CategoriesStep ==
  ASSUME PlacementInv, NEW cats, \A x \in ValuesOf(cats) : x \subseteq Cats, SaveCategories(cats)
  PROVE  PlacementInv'
<1>2. mem' = [mem EXCEPT !.cats = cats] /\ db' = [db EXCEPT !.cats = cats] /\ UNCHANGED <<job, stale>>
  BY DEF SaveCategories
<1>3. /\ mem'.rooms = mem.rooms /\ mem'.parts = mem.parts /\ mem'.cats = cats /\ mem'.vars = mem.vars
      /\ db'.rooms = db.rooms /\ db'.parts = db.parts /\ db'.cats = cats /\ db'.vars = db.vars
      /\ DOMAIN mem' = DOMAIN mem /\ DOMAIN db' = DOMAIN db
  BY <1>2 DEF PlacementInv, PlacementType, Shape
<1>4. Shape(mem)' /\ Shape(db)'
  BY <1>3 DEF PlacementInv, PlacementType, Shape
<1>5. ChannelsType(mem)' /\ ChannelsType(db)' /\ ChannelsInv'
  BY <1>3 DEF PlacementInv, PlacementType, ChannelsType, ChannelsInv
<1> QED
  BY <1>2, <1>3, <1>4, <1>5, ChannelStep

LEMMA ChannelSteps == PlacementInv /\ PlaceChannel => PlacementInv'
<1> SUFFICES ASSUME PlacementInv, PlaceChannel PROVE PlacementInv'
  OBVIOUS
<1>1. PICK channel \in AnyChannel :
        \/ \E room \in Rooms : addChannelToRoom(channel, room) \/ removeChannelFromRoom(channel, room)
        \/ \E part \in Parts :
             addChannelToBuildingPart(channel, part) \/ removeChannelFromBuildingPart(channel, part)
        \/ \E category \in Cats : addCategory(channel, category) \/ removeCategory(channel, category)
  BY DEF PlaceChannel
<1>2. ASSUME NEW room \in Rooms, addChannelToRoom(channel, room) \/ removeChannelFromRoom(channel, room)
      PROVE  PlacementInv'
  BY <1>2, RoomStep DEF addChannelToRoom, removeChannelFromRoom
<1>3. ASSUME NEW part \in Parts,
             addChannelToBuildingPart(channel, part) \/ removeChannelFromBuildingPart(channel, part)
      PROVE  PlacementInv'
  BY <1>3, PartStep DEF addChannelToBuildingPart, removeChannelFromBuildingPart
<1>4. getCategories(channel) \subseteq Cats /\ \A x \in ValuesOf(mem.cats) : x \subseteq Cats
  BY DEF PlacementInv, PlacementType, ChannelsType, getCategories, ValuesOf
<1>5. ASSUME NEW category \in Cats, addCategory(channel, category) PROVE PlacementInv'
  <2> DEFINE cats == Put(mem.cats, channel, getCategories(channel) \cup {category})
  <2>1. \A x \in ValuesOf(cats) : x \subseteq Cats
    BY <1>4, PutValues
  <2> QED
    BY <1>5, <2>1, CategoriesStep DEF addCategory
<1>6. ASSUME NEW category \in Cats, removeCategory(channel, category) PROVE PlacementInv'
  <2> DEFINE rest == getCategories(channel) \ {category}
             cats == IF rest = {} THEN Drop(mem.cats, channel) ELSE Put(mem.cats, channel, rest)
  <2>1. \A x \in ValuesOf(cats) : x \subseteq Cats
    BY <1>4, PutValues, DropValues
  <2> QED
    BY <1>6, <2>1, CategoriesStep DEF removeCategory
<1> QED
  BY <1>1, <1>2, <1>3, <1>5, <1>6

(* Only the placement of variables changes.                                *)
LEMMA VariableStep ==
  ASSUME PlacementInv, UNCHANGED db,
         NEW now, mem' = [mem EXCEPT !.vars = now], DOMAIN now = Vars,
         \A v \in Vars : DOMAIN now[v] = {"room", "part", "cats", "roles"},
         VarsType([vars |-> now])
  PROVE  /\ Shape(mem)' /\ ChannelsType(mem)' /\ VarsType(mem)' /\ ChannelsInv'
         /\ Shape(db)' /\ ChannelsType(db)' /\ VarsType(db)' /\ mem'.vars = now
<1>1. /\ mem'.rooms = mem.rooms /\ mem'.parts = mem.parts /\ mem'.cats = mem.cats /\ mem'.vars = now
      /\ DOMAIN mem' = DOMAIN mem
  BY DEF PlacementInv, PlacementType, Shape
<1>2. Shape(mem)' /\ Shape(db)'
  BY <1>1 DEF PlacementInv, PlacementType, Shape
<1>3. ChannelsType(mem)' /\ ChannelsType(db)' /\ ChannelsInv'
  BY <1>1 DEF PlacementInv, PlacementType, ChannelsType, ChannelsInv
<1>4. VarsType(mem)' /\ VarsType(db)'
  BY <1>1 DEF PlacementInv, PlacementType, VarsType
<1> QED
  BY <1>1, <1>2, <1>3, <1>4

(* A caller begins: it is the only one of whom more is to be sent.         *)
LEMMA BeginSends ==
  ASSUME PlacementInv, NEW c \in Callers, NEW v \in Vars, NEW field \in {"room", "part", "cats", "roles"},
         NEW value \in {0} \cup Rooms \cup Parts, Begin(c, v, field, value)
  PROVE  /\ job' \in [Callers -> Jobs \cup {Idle}]
         /\ \A f : ~Sends(c, v, f)
         /\ Sends(c, v, field)' /\ job'[c].value = value
         /\ \A d \in Callers, u \in Vars : \A f : <<d, u, f>> # <<c, v, field>> => (Sends(d, u, f)' <=> Sends(d, u, f))
         /\ \A d \in Callers : d # c => job'[d] = job[d]
<1> DEFINE new == [variable |-> v, field |-> field, value |-> value]
<1>1. new \in Jobs /\ new # Idle
  BY PlacementAssumption DEF Jobs
<1>2. job' = [job EXCEPT ![c] = new] /\ job[c] = Idle
  BY DEF Begin
<1>3. job \in [Callers -> Jobs \cup {Idle}]
  BY DEF PlacementInv, PlacementType
<1>4. job'[c] = new /\ \A d \in Callers : d # c => job'[d] = job[d]
  BY <1>2, <1>3
<1>5. job' \in [Callers -> Jobs \cup {Idle}]
  BY <1>1, <1>2, <1>3
<1>6. new.variable = v /\ new.field = field /\ new.value = value
  OBVIOUS
<1> HIDE DEF new
<1>7. ASSUME NEW d \in Callers, NEW u \in Vars, NEW f, <<d, u, f>> # <<c, v, field>>
      PROVE  Sends(d, u, f)' <=> Sends(d, u, f)
  BY <1>1, <1>2, <1>4, <1>6, <1>7 DEF Sends
<1>8. Sends(c, v, field)' /\ job'[c].value = value /\ \A f : ~Sends(c, v, f)
  BY <1>1, <1>2, <1>4, <1>6 DEF Sends
<1> QED
  BY <1>4, <1>5, <1>7, <1>8

LEMMA BeginJobs ==
  ASSUME PlacementInv, NEW c \in Callers, NEW v \in Vars, NEW field \in {"room", "part", "cats", "roles"},
         NEW value \in {0} \cup Rooms \cup Parts, Begin(c, v, field, value),
         field = "room" => value \in {0} \cup Rooms, field = "part" => value \in {0} \cup Parts
  PROVE  \A d \in Callers : job'[d] # Idle =>
           /\ job'[d].field = "room" => job'[d].value \in {0} \cup Rooms
           /\ job'[d].field = "part" => job'[d].value \in {0} \cup Parts
<1>1. job'[c].field = field /\ job'[c].value = value /\ \A d \in Callers : d # c => job'[d] = job[d]
  BY BeginSends DEF Sends
<1> QED
  BY <1>1 DEF PlacementInv, PlacementType

(* A field whose row waits for nobody but the one caller that changed it.  *)
LEMMA BeginField ==
  ASSUME PlacementInv, NEW c \in Callers, NEW v \in Vars, NEW field \in {"room", "part"},
         NEW value \in {0} \cup Rooms \cup Parts, Begin(c, v, field, value),
         stale' = stale \cup Raced(c, v, field), UNCHANGED db,
         \A u \in Vars : \A f \in {"room", "part"} :
           mem'.vars[u][f] = IF u = v /\ f = field THEN value ELSE mem.vars[u][f]
  PROVE  \A u \in Vars : FieldInv(u, "room")' /\ FieldInv(u, "part")'
<1>1. /\ \A f : ~Sends(c, v, f)
      /\ Sends(c, v, field)' /\ job'[c].value = value
      /\ \A d \in Callers, u \in Vars : \A f : <<d, u, f>> # <<c, v, field>> => (Sends(d, u, f)' <=> Sends(d, u, f))
      /\ \A d \in Callers : d # c => job'[d] = job[d]
      /\ job[c] = Idle
  <2>1. field \in {"room", "part", "cats", "roles"} /\ 0 \in {0} \cup Rooms \cup Parts
    OBVIOUS
  <2>2. job[c] = Idle
    BY DEF Begin
  <2>3. /\ \A f : ~Sends(c, v, f)
        /\ Sends(c, v, field)' /\ job'[c].value = value
    BY <2>1, BeginSends
  <2>4. /\ \A d \in Callers, u \in Vars : \A f : <<d, u, f>> # <<c, v, field>> => (Sends(d, u, f)' <=> Sends(d, u, f))
        /\ \A d \in Callers : d # c => job'[d] = job[d]
    BY <2>1, BeginSends
  <2> QED
    BY <2>2, <2>3, <2>4
<1>2. \A u, f : <<u, f>> \in stale => <<u, f>> \in stale'
  OBVIOUS
<1>3. FieldInv(v, field)'
  <2>1. CASE \E d \in Callers \ {c} : Sends(d, v, field)
    BY <2>1 DEF FieldInv, Raced, Sends
  <2>2. CASE \A d \in Callers \ {c} : ~Sends(d, v, field)
    BY <1>1, <2>2 DEF FieldInv
  <2> QED
    BY <2>1, <2>2
<1>4. ASSUME NEW u \in Vars, NEW f \in {"room", "part"}, u # v \/ f # field PROVE FieldInv(u, f)'
  <2>1. mem'.vars[u][f] = mem.vars[u][f] /\ db'.vars[u][f] = db.vars[u][f]
    BY <1>4
  <2>2. \A d \in Callers : Sends(d, u, f)' <=> Sends(d, u, f)
    BY <1>1, <1>4
  <2>3. \A d \in Callers : Sends(d, u, f) => job'[d] = job[d]
    BY <1>1 DEF Sends
  <2>4. FieldInv(u, f)
    BY DEF PlacementInv, VarInv
  <2> QED
    BY <1>2, <2>1, <2>2, <2>3, <2>4 DEF FieldInv
<1> QED
  BY <1>3, <1>4

(* Categories and roles are sent as they are when they are sent.           *)
LEMMA BeginOther ==
  ASSUME PlacementInv, NEW c \in Callers, NEW v \in Vars, NEW field \in {"cats", "roles"},
         Begin(c, v, field, 0), UNCHANGED <<db, stale>>,
         \A u \in Vars : \A f \in {"room", "part"} : mem'.vars[u][f] = mem.vars[u][f]
  PROVE  \A u \in Vars : FieldInv(u, "room")' /\ FieldInv(u, "part")'
<1>1. /\ Sends(c, v, field)'
      /\ \A d \in Callers, u \in Vars : \A f : <<d, u, f>> # <<c, v, field>> => (Sends(d, u, f)' <=> Sends(d, u, f))
      /\ \A d \in Callers : d # c => job'[d] = job[d]
      /\ job[c] = Idle
  <2>1. field \in {"room", "part", "cats", "roles"} /\ 0 \in {0} \cup Rooms \cup Parts
    OBVIOUS
  <2>2. job[c] = Idle
    BY DEF Begin
  <2> QED
    BY <2>1, <2>2, BeginSends
<1>2. ASSUME NEW u \in Vars, NEW f \in {"room", "part"} PROVE FieldInv(u, f)'
  <2>1. mem'.vars[u][f] = mem.vars[u][f] /\ db'.vars[u][f] = db.vars[u][f]
    OBVIOUS
  <2>2. \A d \in Callers : Sends(d, u, f)' <=> Sends(d, u, f)
    BY <1>1
  <2>3. \A d \in Callers : Sends(d, u, f) => job'[d] = job[d]
    BY <1>1 DEF Sends
  <2>4. FieldInv(u, f)
    BY DEF PlacementInv, VarInv
  <2> QED
    BY <2>1, <2>2, <2>3, <2>4 DEF FieldInv
<1> QED
  BY <1>2

(* The rest of a first step: categories and roles.                         *)
LEMMA BeginVars ==
  ASSUME PlacementInv, NEW c \in Callers, NEW v \in Vars, NEW field \in {"room", "part", "cats", "roles"},
         NEW value \in {0} \cup Rooms \cup Parts, Begin(c, v, field, value), UNCHANGED db,
         \A u \in Vars : field # "cats" \/ u # v => mem'.vars[u].cats = mem.vars[u].cats,
         \A u \in Vars : field # "roles" \/ u # v => mem'.vars[u].roles = mem.vars[u].roles,
         \A u \in Vars : FieldInv(u, "room")' /\ FieldInv(u, "part")'
  PROVE  \A u \in Vars : VarInv(u)'
<1> TAKE u \in Vars
<1>1. /\ \A f : ~Sends(c, v, f)
      /\ Sends(c, v, field)'
      /\ \A d \in Callers, w \in Vars : \A f : <<d, w, f>> # <<c, v, field>> => (Sends(d, w, f)' <=> Sends(d, w, f))
  BY BeginSends
<1>2. VarInv(u)
  BY DEF PlacementInv
<1>3. mem'.vars[u].cats = db'.vars[u].cats \/ \E d \in Callers : Sends(d, u, "cats")'
  BY <1>1, <1>2 DEF VarInv
<1>4. DOMAIN mem'.vars[u].roles = DOMAIN db'.vars[u].roles \/ \E d \in Callers : Sends(d, u, "roles")'
  BY <1>1, <1>2 DEF VarInv
<1> QED
  BY <1>3, <1>4 DEF VarInv

LEMMA SetVariableRoom ==
  ASSUME PlacementInv, NEW c \in Callers, NEW v \in Vars, NEW room \in {0} \cup Rooms, setVariableRoom(c, v, room)
  PROVE  PlacementInv'
<1> DEFINE now == [mem.vars EXCEPT ![v].room = room]
<1>1. mem' = [mem EXCEPT !.vars = now] /\ Begin(c, v, "room", room) /\ UNCHANGED db
      /\ stale' = stale \cup Raced(c, v, "room")
  BY DEF setVariableRoom
<1>2. DOMAIN mem.vars = Vars /\ \A u \in Vars : DOMAIN mem.vars[u] = {"room", "part", "cats", "roles"}
  BY DEF PlacementInv, PlacementType, Shape
<1>3. DOMAIN now = Vars
      /\ \A u \in Vars : /\ DOMAIN now[u] = {"room", "part", "cats", "roles"}
                         /\ now[u].room = IF u = v THEN room ELSE mem.vars[u].room
                         /\ now[u].part = mem.vars[u].part /\ now[u].cats = mem.vars[u].cats
                         /\ now[u].roles = mem.vars[u].roles
  BY <1>2
<1> HIDE DEF now
<1>4. VarsType([vars |-> now])
  BY <1>3 DEF PlacementInv, PlacementType, VarsType
<1>5. /\ Shape(mem)' /\ ChannelsType(mem)' /\ VarsType(mem)' /\ ChannelsInv'
      /\ Shape(db)' /\ ChannelsType(db)' /\ VarsType(db)' /\ mem'.vars = now
  BY <1>1, <1>3, <1>4, VariableStep
<1>6. \A u \in Vars : \A f \in {"room", "part"} :
        mem'.vars[u][f] = IF u = v /\ f = "room" THEN room ELSE mem.vars[u][f]
  BY <1>3, <1>5
<1>7. \A u \in Vars : FieldInv(u, "room")' /\ FieldInv(u, "part")'
  BY <1>1, <1>6, BeginField
<1>8. \A u \in Vars : VarInv(u)'
  BY <1>1, <1>3, <1>5, <1>7, BeginVars
<1> QED
  BY <1>1, <1>5, <1>8, BeginSends, BeginJobs DEF PlacementInv, PlacementType

LEMMA SetVariableBuildingPart ==
  ASSUME PlacementInv, NEW c \in Callers, NEW v \in Vars, NEW part \in {0} \cup Parts,
         setVariableBuildingPart(c, v, part)
  PROVE  PlacementInv'
<1> DEFINE now == [mem.vars EXCEPT ![v].part = part]
<1>1. mem' = [mem EXCEPT !.vars = now] /\ Begin(c, v, "part", part) /\ UNCHANGED db
      /\ stale' = stale \cup Raced(c, v, "part")
  BY DEF setVariableBuildingPart
<1>2. DOMAIN mem.vars = Vars /\ \A u \in Vars : DOMAIN mem.vars[u] = {"room", "part", "cats", "roles"}
  BY DEF PlacementInv, PlacementType, Shape
<1>3. DOMAIN now = Vars
      /\ \A u \in Vars : /\ DOMAIN now[u] = {"room", "part", "cats", "roles"}
                         /\ now[u].part = IF u = v THEN part ELSE mem.vars[u].part
                         /\ now[u].room = mem.vars[u].room /\ now[u].cats = mem.vars[u].cats
                         /\ now[u].roles = mem.vars[u].roles
  BY <1>2
<1> HIDE DEF now
<1>4. VarsType([vars |-> now])
  BY <1>3 DEF PlacementInv, PlacementType, VarsType
<1>5. /\ Shape(mem)' /\ ChannelsType(mem)' /\ VarsType(mem)' /\ ChannelsInv'
      /\ Shape(db)' /\ ChannelsType(db)' /\ VarsType(db)' /\ mem'.vars = now
  BY <1>1, <1>3, <1>4, VariableStep
<1>6. \A u \in Vars : \A f \in {"room", "part"} :
        mem'.vars[u][f] = IF u = v /\ f = "part" THEN part ELSE mem.vars[u][f]
  BY <1>3, <1>5
<1>7. \A u \in Vars : FieldInv(u, "room")' /\ FieldInv(u, "part")'
  BY <1>1, <1>6, BeginField
<1>8. \A u \in Vars : VarInv(u)'
  BY <1>1, <1>3, <1>5, <1>7, BeginVars
<1> QED
  BY <1>1, <1>5, <1>8, BeginSends, BeginJobs DEF PlacementInv, PlacementType

(* Categories and roles of a variable: what they become is of their type.  *)
LEMMA SetVariableCats ==
  ASSUME PlacementInv, NEW c \in Callers, NEW v \in Vars, NEW cats \in SUBSET Cats,
         Begin(c, v, "cats", 0), mem' = [mem EXCEPT !.vars[v].cats = cats], UNCHANGED <<db, stale>>
  PROVE  PlacementInv'
<1> DEFINE now == [mem.vars EXCEPT ![v].cats = cats]
<1>1. mem' = [mem EXCEPT !.vars = now]
  OBVIOUS
<1>2. DOMAIN mem.vars = Vars /\ \A u \in Vars : DOMAIN mem.vars[u] = {"room", "part", "cats", "roles"}
  BY DEF PlacementInv, PlacementType, Shape
<1>3. DOMAIN now = Vars
      /\ \A u \in Vars : /\ DOMAIN now[u] = {"room", "part", "cats", "roles"}
                         /\ now[u].cats = IF u = v THEN cats ELSE mem.vars[u].cats
                         /\ now[u].room = mem.vars[u].room /\ now[u].part = mem.vars[u].part
                         /\ now[u].roles = mem.vars[u].roles
  BY <1>2
<1> HIDE DEF now
<1>4. VarsType([vars |-> now])
  BY <1>3 DEF PlacementInv, PlacementType, VarsType
<1>5. /\ Shape(mem)' /\ ChannelsType(mem)' /\ VarsType(mem)' /\ ChannelsInv'
      /\ Shape(db)' /\ ChannelsType(db)' /\ VarsType(db)' /\ mem'.vars = now
  BY <1>1, <1>3, <1>4, VariableStep
<1>6. \A u \in Vars : \A f \in {"room", "part"} : mem'.vars[u][f] = mem.vars[u][f]
  BY <1>3, <1>5
<1>7. \A u \in Vars : FieldInv(u, "room")' /\ FieldInv(u, "part")'
  BY <1>6, BeginOther
<1>8. \A u \in Vars : VarInv(u)'
  BY <1>3, <1>5, <1>7, BeginVars
<1> QED
  BY <1>5, <1>8, BeginSends, BeginJobs DEF PlacementInv, PlacementType

LEMMA SetVariableRoles ==
  ASSUME PlacementInv, NEW c \in Callers, NEW v \in Vars, NEW roles, DOMAIN roles \subseteq Roles,
         Begin(c, v, "roles", 0), mem' = [mem EXCEPT !.vars[v].roles = roles], UNCHANGED <<db, stale>>
  PROVE  PlacementInv'
<1> DEFINE now == [mem.vars EXCEPT ![v].roles = roles]
<1>1. mem' = [mem EXCEPT !.vars = now]
  OBVIOUS
<1>2. DOMAIN mem.vars = Vars /\ \A u \in Vars : DOMAIN mem.vars[u] = {"room", "part", "cats", "roles"}
  BY DEF PlacementInv, PlacementType, Shape
<1>3. DOMAIN now = Vars
      /\ \A u \in Vars : /\ DOMAIN now[u] = {"room", "part", "cats", "roles"}
                         /\ now[u].roles = IF u = v THEN roles ELSE mem.vars[u].roles
                         /\ now[u].room = mem.vars[u].room /\ now[u].part = mem.vars[u].part
                         /\ now[u].cats = mem.vars[u].cats
  BY <1>2
<1> HIDE DEF now
<1>4. VarsType([vars |-> now])
  BY <1>3 DEF PlacementInv, PlacementType, VarsType
<1>5. /\ Shape(mem)' /\ ChannelsType(mem)' /\ VarsType(mem)' /\ ChannelsInv'
      /\ Shape(db)' /\ ChannelsType(db)' /\ VarsType(db)' /\ mem'.vars = now
  BY <1>1, <1>3, <1>4, VariableStep
<1>6. \A u \in Vars : \A f \in {"room", "part"} : mem'.vars[u][f] = mem.vars[u][f]
  BY <1>3, <1>5
<1>7. \A u \in Vars : FieldInv(u, "room")' /\ FieldInv(u, "part")'
  BY <1>6, BeginOther
<1>8. \A u \in Vars : VarInv(u)'
  BY <1>3, <1>5, <1>7, BeginVars
<1> QED
  BY <1>5, <1>8, BeginSends, BeginJobs DEF PlacementInv, PlacementType

LEMMA VariableSteps == PlacementInv /\ PlaceVariable => PlacementInv'
<1> SUFFICES ASSUME PlacementInv, PlaceVariable PROVE PlacementInv'
  OBVIOUS
<1>1. PICK c \in Callers, v \in Touched :
        \/ \E room \in Rooms \cup {0} : setVariableRoom(c, v, room)
        \/ \E part \in Parts \cup {0} : setVariableBuildingPart(c, v, part)
        \/ \E category \in Cats :
             addCategoryToVariable(c, v, category) \/ removeCategoryFromVariable(c, v, category)
        \/ \E role \in Roles :
             \/ removeRoleFromVariable(c, v, role)
             \/ \E direction \in Directions : addRoleToVariable(c, v, role, direction, FALSE, TRUE)
  BY DEF PlaceVariable
<1>2. v \in Vars /\ mem.vars[v].cats \subseteq Cats /\ DOMAIN mem.vars[v].roles \subseteq Roles
  BY RightsAssumption DEF PlacementInv, PlacementType, VarsType
<1>3. ASSUME NEW category \in Cats, addCategoryToVariable(c, v, category) PROVE PlacementInv'
  <2> DEFINE cats == mem.vars[v].cats \cup {category}
  <2>1. mem' = [mem EXCEPT !.vars[v].cats = cats] /\ cats \in SUBSET Cats
    BY <1>2, <1>3 DEF addCategoryToVariable
  <2> QED
    BY <1>2, <1>3, <2>1, SetVariableCats DEF addCategoryToVariable
<1>4. ASSUME NEW category \in Cats, removeCategoryFromVariable(c, v, category) PROVE PlacementInv'
  <2> DEFINE cats == mem.vars[v].cats \ {category}
  <2>1. mem' = [mem EXCEPT !.vars[v].cats = cats] /\ cats \in SUBSET Cats
    BY <1>2, <1>4 DEF removeCategoryFromVariable
  <2> QED
    BY <1>2, <1>4, <2>1, SetVariableCats DEF removeCategoryFromVariable
<1>5. ASSUME NEW role \in Roles, NEW direction, addRoleToVariable(c, v, role, direction, FALSE, TRUE)
      PROVE  PlacementInv'
  <2> DEFINE new == [dir |-> RoleDirectionOf(v, direction), invert |-> FALSE, scale |-> TRUE]
             roles == Put(mem.vars[v].roles, role, new)
  <2>1. mem' = [mem EXCEPT !.vars[v].roles = roles]
    BY <1>5 DEF addRoleToVariable
  <2>2. DOMAIN roles \subseteq Roles
    BY <1>2 DEF Put
  <2> QED
    BY <1>2, <1>5, <2>1, <2>2, SetVariableRoles DEF addRoleToVariable
<1>6. ASSUME NEW role \in Roles, removeRoleFromVariable(c, v, role) PROVE PlacementInv'
  <2> DEFINE roles == Drop(mem.vars[v].roles, role)
  <2>1. mem' = [mem EXCEPT !.vars[v].roles = roles]
    BY <1>6 DEF removeRoleFromVariable
  <2>2. DOMAIN roles \subseteq Roles
    BY <1>2 DEF Drop
  <2> QED
    BY <1>2, <1>6, <2>1, <2>2, SetVariableRoles DEF removeRoleFromVariable
<1> QED
  BY <1>1, <1>2, <1>3, <1>4, <1>5, <1>6, SetVariableRoom, SetVariableBuildingPart

(* The second step: of the row sent only this caller is no longer waited   *)
(* for.                                                                    *)
LEMMA SaveStep ==
  ASSUME PlacementInv, NEW c \in Callers, SaveVariablePlacement(c) PROVE PlacementInv'
<1>0. PICK v, field : v = job[c].variable /\ field = job[c].field
  BY ZenonT(30)
<1>1. /\ job[c] # Idle /\ job' = [job EXCEPT ![c] = Idle] /\ mem' = mem
      /\ job \in [Callers -> Jobs \cup {Idle}]
      /\ stale' = IF field \in {"room", "part"} /\ Raced(c, v, field) = {} /\ job[c].value = mem.vars[v][field]
                  THEN stale \ {<<v, field>>} ELSE stale
  BY <1>0 DEF SaveVariablePlacement, PlacementInv, PlacementType
<1>2. job[c] \in Jobs /\ v \in Vars /\ field \in {"room", "part", "cats", "roles"}
  BY <1>0, <1>1 DEF Jobs
<1>3. /\ job' \in [Callers -> Jobs \cup {Idle}]
      /\ job'[c] = Idle /\ \A d \in Callers : d # c => job'[d] = job[d]
  BY <1>1
<1>4. /\ \A u \in Vars : \A f : ~Sends(c, u, f)'
      /\ \A d \in Callers, u \in Vars : \A f : d # c => (Sends(d, u, f)' <=> Sends(d, u, f))
      /\ \A u \in Vars : \A f : Sends(c, u, f) <=> (u = v /\ f = field)
  BY <1>0, <1>1, <1>3 DEF Sends
<1> DEFINE y == CASE field = "room" -> [db.vars[v] EXCEPT !.room = job[c].value]
                  [] field = "part" -> [db.vars[v] EXCEPT !.part = job[c].value]
                  [] field = "cats" -> [db.vars[v] EXCEPT !.cats = mem.vars[v].cats]
                  [] field = "roles" -> [db.vars[v] EXCEPT !.roles = RoleRow(mem.vars[v].roles)]
<1>5. DOMAIN db = {"rooms", "parts", "cats", "vars"} /\ DOMAIN db.vars = Vars
      /\ \A u \in Vars : DOMAIN db.vars[u] = {"room", "part", "cats", "roles"}
  BY DEF PlacementInv, PlacementType, Shape
<1>6. db' = [db EXCEPT !.vars[v] = y]
  BY <1>0, <1>2 DEF SaveVariablePlacement
<1>7. /\ db'.rooms = db.rooms /\ db'.parts = db.parts /\ db'.cats = db.cats /\ DOMAIN db' = DOMAIN db
      /\ DOMAIN db'.vars = Vars /\ db'.vars[v] = y /\ \A u \in Vars : u # v => db'.vars[u] = db.vars[u]
  BY <1>2, <1>5, <1>6
<1>8. /\ DOMAIN y = {"room", "part", "cats", "roles"}
      /\ y.room = IF field = "room" THEN job[c].value ELSE db.vars[v].room
      /\ y.part = IF field = "part" THEN job[c].value ELSE db.vars[v].part
      /\ y.cats = IF field = "cats" THEN mem.vars[v].cats ELSE db.vars[v].cats
      /\ DOMAIN y.roles = IF field = "roles" THEN DOMAIN mem.vars[v].roles ELSE DOMAIN db.vars[v].roles
  <2>1. DOMAIN db.vars[v] = {"room", "part", "cats", "roles"}
    BY <1>2, <1>5
  <2>2. CASE field = "room"
    BY <2>1, <2>2
  <2>3. CASE field = "part"
    BY <2>1, <2>3
  <2>4. CASE field = "cats"
    BY <2>1, <2>4
  <2>5. CASE field = "roles"
    BY <2>1, <2>5, RowDomain
  <2> QED
    BY <1>2, <2>2, <2>3, <2>4, <2>5
<1> HIDE DEF y
<1>9. Shape(mem)' /\ ChannelsType(mem)' /\ VarsType(mem)' /\ Shape(db)' /\ ChannelsType(db)' /\ ChannelsInv'
  <2>1. Shape(mem)' /\ ChannelsType(mem)' /\ VarsType(mem)'
    BY <1>1 DEF PlacementInv, PlacementType, Shape, ChannelsType, VarsType
  <2>2. Shape(db)'
    BY <1>2, <1>5, <1>7, <1>8 DEF Shape
  <2>3. ChannelsType(db)' /\ ChannelsInv'
    BY <1>1, <1>7 DEF PlacementInv, PlacementType, ChannelsType, ChannelsInv
  <2> QED
    BY <2>1, <2>2, <2>3
<1>10. VarsType(db)'
  <2>1. /\ field = "room" => job[c].value \in {0} \cup Rooms
        /\ field = "part" => job[c].value \in {0} \cup Parts
    BY <1>0, <1>1 DEF PlacementInv, PlacementType
  <2>2. VarsType(mem) /\ VarsType(db)
    BY DEF PlacementInv, PlacementType
  <2> QED
    BY <1>2, <1>7, <1>8, <2>1, <2>2 DEF VarsType
<1>11. \A d \in Callers : job'[d] # Idle =>
         /\ job'[d].field = "room" => job'[d].value \in {0} \cup Rooms
         /\ job'[d].field = "part" => job'[d].value \in {0} \cup Parts
  BY <1>3 DEF PlacementInv, PlacementType
<1>12. ASSUME NEW u \in Vars, NEW f \in {"room", "part"} PROVE FieldInv(u, f)'
  <2>1. FieldInv(u, f)
    BY DEF PlacementInv, VarInv
  <2>2. CASE u = v /\ f = field
    <3>1. db'.vars[v][field] = job[c].value /\ mem'.vars[v][field] = mem.vars[v][field]
      BY <1>1, <1>7, <1>8, <2>2
    <3>2. CASE Raced(c, v, field) = {} /\ job[c].value = mem.vars[v][field]
      <4>1. \A d \in Callers \ {c} : ~Sends(d, v, field)
        BY <3>2 DEF Raced, Sends
      <4>2. \A d \in Callers : ~Sends(d, v, field)'
        BY <1>2, <1>4, <4>1
      <4> QED
        BY <2>2, <3>1, <3>2, <4>2 DEF FieldInv
    <3>3. CASE <<v, field>> \in stale /\ ~(Raced(c, v, field) = {} /\ job[c].value = mem.vars[v][field])
      BY <1>1, <2>2, <3>3 DEF FieldInv
    <3>4. CASE <<v, field>> \notin stale
      <4>1. Sends(c, v, field)
        BY <1>2, <1>4
      <4>2. job[c].value = mem.vars[v][field] /\ \A d \in Callers : Sends(d, v, field) => d = c
        BY <2>1, <2>2, <3>4, <4>1 DEF FieldInv
      <4>3. Raced(c, v, field) = {}
        BY <4>2 DEF Raced, Sends
      <4> QED
        BY <3>2, <4>2, <4>3
    <3> QED
      BY <3>2, <3>3, <3>4
  <2>3. CASE u # v \/ f # field
    <3>1. mem'.vars[u][f] = mem.vars[u][f] /\ db'.vars[u][f] = db.vars[u][f]
      BY <1>1, <1>7, <1>8, <2>3
    <3>2. \A d \in Callers : (Sends(d, u, f)' <=> Sends(d, u, f)) /\ (Sends(d, u, f) => job'[d] = job[d])
      BY <1>3, <1>4, <2>3
    <3>3. <<u, f>> \in stale => <<u, f>> \in stale'
      BY <1>1, <2>3
    <3> QED
      BY <2>1, <3>1, <3>2, <3>3 DEF FieldInv
  <2> QED
    BY <2>2, <2>3
<1>13. ASSUME NEW u \in Vars PROVE VarInv(u)'
  <2>1. VarInv(u)
    BY DEF PlacementInv
  <2>2. mem'.vars[u].cats = db'.vars[u].cats \/ \E d \in Callers : Sends(d, u, "cats")'
    BY <1>1, <1>4, <1>7, <1>8, <2>1 DEF VarInv
  <2>3. DOMAIN mem'.vars[u].roles = DOMAIN db'.vars[u].roles \/ \E d \in Callers : Sends(d, u, "roles")'
    BY <1>1, <1>4, <1>7, <1>8, <2>1 DEF VarInv
  <2> QED
    BY <1>12, <2>2, <2>3 DEF VarInv
<1> QED
  BY <1>3, <1>9, <1>10, <1>11, <1>13 DEF PlacementInv, PlacementType

(* Variables and rows change at once, the channels do not.                 *)
LEMMA BothStep ==
  ASSUME PlacementInv, UNCHANGED job, stale \subseteq stale',
         NEW now, NEW rows, mem' = [mem EXCEPT !.vars = now], db' = [db EXCEPT !.vars = rows],
         DOMAIN now = Vars, DOMAIN rows = Vars,
         \A v \in Vars : DOMAIN now[v] = {"room", "part", "cats", "roles"}
                         /\ DOMAIN rows[v] = {"room", "part", "cats", "roles"},
         VarsType([vars |-> now]), VarsType([vars |-> rows]),
         \A v \in Vars : \A f \in {"room", "part"} :
           <<v, f>> \in stale' \/ (now[v][f] = mem.vars[v][f] /\ rows[v][f] = db.vars[v][f]),
         \A v \in Vars : now[v].cats = rows[v].cats
                         \/ (now[v].cats = mem.vars[v].cats /\ rows[v].cats = db.vars[v].cats),
         \A v \in Vars : DOMAIN now[v].roles = DOMAIN rows[v].roles
                         \/ (now[v].roles = mem.vars[v].roles /\ rows[v].roles = db.vars[v].roles)
  PROVE  PlacementInv'
<1>1. /\ mem'.rooms = mem.rooms /\ mem'.parts = mem.parts /\ mem'.cats = mem.cats /\ mem'.vars = now
      /\ db'.rooms = db.rooms /\ db'.parts = db.parts /\ db'.cats = db.cats /\ db'.vars = rows
      /\ DOMAIN mem' = DOMAIN mem /\ DOMAIN db' = DOMAIN db
  BY DEF PlacementInv, PlacementType, Shape
<1>2. Shape(mem)' /\ Shape(db)'
  BY <1>1 DEF PlacementInv, PlacementType, Shape
<1>3. ChannelsType(mem)' /\ ChannelsType(db)' /\ ChannelsInv'
  BY <1>1 DEF PlacementInv, PlacementType, ChannelsType, ChannelsInv
<1>4. VarsType(mem)' /\ VarsType(db)'
  BY <1>1 DEF VarsType
<1>5. \A c \in Callers, v \in Vars : \A f : Sends(c, v, f)' <=> Sends(c, v, f)
  BY DEF Sends
<1>6. ASSUME NEW v \in Vars, NEW f \in {"room", "part"} PROVE FieldInv(v, f)'
  <2>1. FieldInv(v, f)
    BY DEF PlacementInv, VarInv
  <2>2. CASE <<v, f>> \in stale'
    BY <2>2 DEF FieldInv
  <2>3. CASE <<v, f>> \notin stale'
    <3>0. now[v][f] = mem.vars[v][f] /\ rows[v][f] = db.vars[v][f]
      BY <2>3
    <3>1. mem'.vars[v][f] = mem.vars[v][f] /\ db'.vars[v][f] = db.vars[v][f] /\ <<v, f>> \notin stale
      <4>1. mem'.vars[v][f] = mem.vars[v][f] /\ db'.vars[v][f] = db.vars[v][f]
        BY <1>1, <3>0
      <4>2. <<v, f>> \notin stale
        BY <2>3
      <4> QED
        BY <4>1, <4>2
    <3>2. \A c \in Callers : job'[c] = job[c]
      OBVIOUS
    <3>3. CASE mem.vars[v][f] = db.vars[v][f] /\ \A c \in Callers : ~Sends(c, v, f)
      <4>1. mem'.vars[v][f] = db'.vars[v][f]
        BY <3>1, <3>3
      <4>2. \A c \in Callers : ~Sends(c, v, f)'
        BY <1>5, <3>3
      <4> QED
        BY <4>1, <4>2 DEF FieldInv
    <3>4. ASSUME NEW c \in Callers, Sends(c, v, f), job[c].value = mem.vars[v][f],
                 \A d \in Callers : Sends(d, v, f) => d = c
          PROVE  FieldInv(v, f)'
      <4>1. Sends(c, v, f)' /\ \A d \in Callers : Sends(d, v, f)' => d = c
        BY <1>5, <3>4
      <4>2. job'[c].value = mem'.vars[v][f]
        BY <3>1, <3>2, <3>4
      <4> QED
        BY <4>1, <4>2 DEF FieldInv
    <3> QED
      BY <2>1, <3>1, <3>3, <3>4 DEF FieldInv
  <2> QED
    BY <2>2, <2>3
<1>7. ASSUME NEW v \in Vars PROVE VarInv(v)'
  <2>1. VarInv(v)
    BY DEF PlacementInv
  <2> QED
    BY <1>1, <1>5, <1>6, <2>1 DEF VarInv
<1> QED
  BY <1>2, <1>3, <1>4, <1>7 DEF PlacementInv, PlacementType

LEMMA RemoveSteps == PlacementInv /\ RemovePlaces => PlacementInv'
<1> SUFFICES ASSUME PlacementInv, RemovePlaces PROVE PlacementInv'
  OBVIOUS
<1>0. /\ DOMAIN mem.vars = Vars /\ DOMAIN db.vars = Vars
      /\ \A v \in Vars : DOMAIN mem.vars[v] = {"room", "part", "cats", "roles"}
                         /\ DOMAIN db.vars[v] = {"room", "part", "cats", "roles"}
      /\ "vars" \in DOMAIN mem /\ "vars" \in DOMAIN db
      /\ VarsType(mem) /\ VarsType(db)
  BY DEF PlacementInv, PlacementType, Shape
<1>1. ASSUME NEW room \in Rooms, removeRoomFromVariables(room) PROVE PlacementInv'
  <2> DEFINE inside == {v \in Vars : mem.vars[v].room = room}
             now == [v \in Vars |-> IF v \in inside THEN [mem.vars[v] EXCEPT !.room = 0] ELSE mem.vars[v]]
             rows == [v \in Vars |-> IF v \in inside THEN [db.vars[v] EXCEPT !.room = room] ELSE db.vars[v]]
  <2>0. stale' = stale \cup (inside \X {"room"}) /\ UNCHANGED job
    BY <1>1 DEF removeRoomFromVariables
  <2>1. mem' = [mem EXCEPT !.vars = now] /\ db' = [db EXCEPT !.vars = rows]
    BY <1>0, <1>1 DEF removeRoomFromVariables
  <2> HIDE DEF inside
  <2>2. /\ DOMAIN now = Vars /\ DOMAIN rows = Vars
        /\ \A v \in Vars :
             /\ DOMAIN now[v] = {"room", "part", "cats", "roles"}
             /\ DOMAIN rows[v] = {"room", "part", "cats", "roles"}
             /\ now[v].room = IF v \in inside THEN 0 ELSE mem.vars[v].room
             /\ rows[v].room = IF v \in inside THEN room ELSE db.vars[v].room
             /\ now[v].part = mem.vars[v].part /\ rows[v].part = db.vars[v].part
             /\ now[v].cats = mem.vars[v].cats /\ rows[v].cats = db.vars[v].cats
             /\ now[v].roles = mem.vars[v].roles /\ rows[v].roles = db.vars[v].roles
    BY <1>0
  <2> HIDE DEF now, rows
  <2>3. VarsType([vars |-> now]) /\ VarsType([vars |-> rows])
    BY <1>0, <2>2 DEF VarsType
  <2>4. \A v \in Vars : \A f \in {"room", "part"} :
          <<v, f>> \in stale' \/ (now[v][f] = mem.vars[v][f] /\ rows[v][f] = db.vars[v][f])
    BY <2>0, <2>2
  <2>5. /\ stale \subseteq stale' /\ UNCHANGED job /\ DOMAIN now = Vars /\ DOMAIN rows = Vars
        /\ \A v \in Vars : DOMAIN now[v] = {"room", "part", "cats", "roles"}
                           /\ DOMAIN rows[v] = {"room", "part", "cats", "roles"}
    BY <2>0, <2>2
  <2>6. \A v \in Vars : now[v].cats = rows[v].cats
                        \/ (now[v].cats = mem.vars[v].cats /\ rows[v].cats = db.vars[v].cats)
    BY <2>2
  <2>7. \A v \in Vars : DOMAIN now[v].roles = DOMAIN rows[v].roles
                        \/ (now[v].roles = mem.vars[v].roles /\ rows[v].roles = db.vars[v].roles)
    BY <2>2
  <2> QED
    BY <2>1, <2>3, <2>4, <2>5, <2>6, <2>7, BothStep
<1>2. ASSUME NEW part \in Parts, removeBuildingPartFromVariables(part) PROVE PlacementInv'
  <2> DEFINE inside == {v \in Vars : mem.vars[v].part = part}
             now == [v \in Vars |-> IF v \in inside THEN [mem.vars[v] EXCEPT !.part = 0] ELSE mem.vars[v]]
             rows == [v \in Vars |-> IF v \in inside THEN [db.vars[v] EXCEPT !.part = part] ELSE db.vars[v]]
  <2>0. stale' = stale \cup (inside \X {"part"}) /\ UNCHANGED job
    BY <1>2 DEF removeBuildingPartFromVariables
  <2>1. mem' = [mem EXCEPT !.vars = now] /\ db' = [db EXCEPT !.vars = rows]
    BY <1>0, <1>2 DEF removeBuildingPartFromVariables
  <2> HIDE DEF inside
  <2>2. /\ DOMAIN now = Vars /\ DOMAIN rows = Vars
        /\ \A v \in Vars :
             /\ DOMAIN now[v] = {"room", "part", "cats", "roles"}
             /\ DOMAIN rows[v] = {"room", "part", "cats", "roles"}
             /\ now[v].part = IF v \in inside THEN 0 ELSE mem.vars[v].part
             /\ rows[v].part = IF v \in inside THEN part ELSE db.vars[v].part
             /\ now[v].room = mem.vars[v].room /\ rows[v].room = db.vars[v].room
             /\ now[v].cats = mem.vars[v].cats /\ rows[v].cats = db.vars[v].cats
             /\ now[v].roles = mem.vars[v].roles /\ rows[v].roles = db.vars[v].roles
    BY <1>0
  <2> HIDE DEF now, rows
  <2>3. VarsType([vars |-> now]) /\ VarsType([vars |-> rows])
    BY <1>0, <2>2 DEF VarsType
  <2>4. \A v \in Vars : \A f \in {"room", "part"} :
          <<v, f>> \in stale' \/ (now[v][f] = mem.vars[v][f] /\ rows[v][f] = db.vars[v][f])
    BY <2>0, <2>2
  <2>5. /\ stale \subseteq stale' /\ UNCHANGED job /\ DOMAIN now = Vars /\ DOMAIN rows = Vars
        /\ \A v \in Vars : DOMAIN now[v] = {"room", "part", "cats", "roles"}
                           /\ DOMAIN rows[v] = {"room", "part", "cats", "roles"}
    BY <2>0, <2>2
  <2>6. \A v \in Vars : now[v].cats = rows[v].cats
                        \/ (now[v].cats = mem.vars[v].cats /\ rows[v].cats = db.vars[v].cats)
    BY <2>2
  <2>7. \A v \in Vars : DOMAIN now[v].roles = DOMAIN rows[v].roles
                        \/ (now[v].roles = mem.vars[v].roles /\ rows[v].roles = db.vars[v].roles)
    BY <2>2
  <2> QED
    BY <2>1, <2>3, <2>4, <2>5, <2>6, <2>7, BothStep
<1>3. ASSUME NEW category \in Cats, removeCategoryFromVariables(category) PROVE PlacementInv'
  <2> DEFINE now == [v \in Vars |-> [mem.vars[v] EXCEPT !.cats = @ \ {category}]]
             rows == [v \in Vars |-> [db.vars[v] EXCEPT !.cats = now[v].cats]]
  <2>1. mem' = [mem EXCEPT !.vars = now] /\ db' = [db EXCEPT !.vars = rows] /\ UNCHANGED <<job, stale>>
    BY <1>0, <1>3 DEF removeCategoryFromVariables
  <2>2. /\ DOMAIN now = Vars /\ DOMAIN rows = Vars
        /\ \A v \in Vars :
             /\ DOMAIN now[v] = {"room", "part", "cats", "roles"}
             /\ DOMAIN rows[v] = {"room", "part", "cats", "roles"}
             /\ now[v].room = mem.vars[v].room /\ rows[v].room = db.vars[v].room
             /\ now[v].part = mem.vars[v].part /\ rows[v].part = db.vars[v].part
             /\ now[v].cats = mem.vars[v].cats \ {category} /\ rows[v].cats = now[v].cats
             /\ now[v].roles = mem.vars[v].roles /\ rows[v].roles = db.vars[v].roles
    BY <1>0
  <2> HIDE DEF now, rows
  <2>3. VarsType([vars |-> now]) /\ VarsType([vars |-> rows])
    BY <1>0, <2>2 DEF VarsType
  <2>4. \A v \in Vars : \A f \in {"room", "part"} :
          <<v, f>> \in stale' \/ (now[v][f] = mem.vars[v][f] /\ rows[v][f] = db.vars[v][f])
    BY <2>2
  <2>6. /\ stale \subseteq stale' /\ UNCHANGED job /\ DOMAIN now = Vars /\ DOMAIN rows = Vars
        /\ \A v \in Vars : DOMAIN now[v] = {"room", "part", "cats", "roles"}
                           /\ DOMAIN rows[v] = {"room", "part", "cats", "roles"}
    BY <2>1, <2>2
  <2>7. \A v \in Vars : now[v].cats = rows[v].cats
                        \/ (now[v].cats = mem.vars[v].cats /\ rows[v].cats = db.vars[v].cats)
    BY <2>2
  <2>8. \A v \in Vars : DOMAIN now[v].roles = DOMAIN rows[v].roles
                        \/ (now[v].roles = mem.vars[v].roles /\ rows[v].roles = db.vars[v].roles)
    BY <2>2
  <2> QED
    BY <2>1, <2>3, <2>4, <2>6, <2>7, <2>8, BothStep
<1>4. ASSUME NEW role \in Roles, removeRoleFromVariables(role) PROVE PlacementInv'
  <2> DEFINE now == [v \in Vars |-> [mem.vars[v] EXCEPT !.roles = Drop(@, role)]]
             rows == [v \in Vars |-> [db.vars[v] EXCEPT !.roles = RoleRow(now[v].roles)]]
  <2>1. mem' = [mem EXCEPT !.vars = now] /\ db' = [db EXCEPT !.vars = rows] /\ UNCHANGED <<job, stale>>
    BY <1>0, <1>4 DEF removeRoleFromVariables
  <2>2. /\ DOMAIN now = Vars /\ DOMAIN rows = Vars
        /\ \A v \in Vars :
             /\ DOMAIN now[v] = {"room", "part", "cats", "roles"}
             /\ DOMAIN rows[v] = {"room", "part", "cats", "roles"}
             /\ now[v].room = mem.vars[v].room /\ rows[v].room = db.vars[v].room
             /\ now[v].part = mem.vars[v].part /\ rows[v].part = db.vars[v].part
             /\ now[v].cats = mem.vars[v].cats /\ rows[v].cats = db.vars[v].cats
             /\ now[v].roles = Drop(mem.vars[v].roles, role) /\ rows[v].roles = RoleRow(now[v].roles)
    BY <1>0
  <2> HIDE DEF now, rows
  <2>5. \A v \in Vars : DOMAIN now[v].roles \subseteq DOMAIN mem.vars[v].roles
                        /\ DOMAIN rows[v].roles = DOMAIN now[v].roles
    <3>1. \A roles : DOMAIN Drop(roles, role) \subseteq DOMAIN roles
      BY DEF Drop
    <3> QED
      BY <2>2, <3>1, RowDomain
  <2>3. VarsType([vars |-> now]) /\ VarsType([vars |-> rows])
    BY <1>0, <2>2, <2>5 DEF VarsType
  <2>4. \A v \in Vars : \A f \in {"room", "part"} :
          <<v, f>> \in stale' \/ (now[v][f] = mem.vars[v][f] /\ rows[v][f] = db.vars[v][f])
    BY <2>2
  <2>6. /\ stale \subseteq stale' /\ UNCHANGED job /\ DOMAIN now = Vars /\ DOMAIN rows = Vars
        /\ \A v \in Vars : DOMAIN now[v] = {"room", "part", "cats", "roles"}
                           /\ DOMAIN rows[v] = {"room", "part", "cats", "roles"}
    BY <2>1, <2>2
  <2>7. \A v \in Vars : now[v].cats = rows[v].cats
                        \/ (now[v].cats = mem.vars[v].cats /\ rows[v].cats = db.vars[v].cats)
    BY <2>2
  <2>8. \A v \in Vars : DOMAIN now[v].roles = DOMAIN rows[v].roles
                        \/ (now[v].roles = mem.vars[v].roles /\ rows[v].roles = db.vars[v].roles)
    BY <2>2, <2>5
  <2> QED
    BY <2>1, <2>3, <2>4, <2>6, <2>7, <2>8, BothStep
<1> QED
  BY <1>1, <1>2, <1>3, <1>4 DEF RemovePlaces

(* After a restart memory and rows agree in all but the zeros left out.    *)
LEMMA DescribedDomain == \A v \in Vars : DOMAIN DescribedRoles(v) = Described[v] /\ Described[v] \subseteq Roles
  BY PlacementAssumption DEF DescribedRoles

LEMMA RestartStep == PlacementInv /\ Restart => PlacementInv'
<1> SUFFICES ASSUME PlacementInv, Restart PROVE PlacementInv'
  OBVIOUS
<1>0. /\ DOMAIN db = {"rooms", "parts", "cats", "vars"} /\ DOMAIN db.vars = Vars
      /\ \A v \in Vars : DOMAIN db.vars[v] = {"room", "part", "cats", "roles"}
      /\ VarsType(db) /\ ChannelsType(db)
  BY DEF PlacementInv, PlacementType, Shape
<1> DEFINE now == [v \in Vars |-> IF DOMAIN db.vars[v].roles = {}
                                  THEN [db.vars[v] EXCEPT !.roles = DescribedRoles(v)] ELSE db.vars[v]]
           rows == [v \in Vars |-> [now[v] EXCEPT !.roles = RoleRow(@)]]
<1>1. mem' = [db EXCEPT !.rooms = NonZero(@), !.parts = NonZero(@), !.vars = now]
      /\ UNCHANGED job /\ \A c \in Callers : job[c] = Idle
  BY <1>0 DEF Restart, Loaded
<1>2. mem'.rooms = NonZero(db.rooms) /\ mem'.parts = NonZero(db.parts) /\ mem'.cats = db.cats
      /\ mem'.vars = now /\ DOMAIN mem' = DOMAIN db
  BY <1>0, <1>1
<1>3. db' = [db EXCEPT !.vars = rows]
  BY <1>2 DEF Restart
<1>4. db'.rooms = db.rooms /\ db'.parts = db.parts /\ db'.cats = db.cats /\ db'.vars = rows /\ DOMAIN db' = DOMAIN db
  BY <1>0, <1>3
<1>5. /\ DOMAIN now = Vars /\ DOMAIN rows = Vars
      /\ \A v \in Vars :
           /\ DOMAIN now[v] = {"room", "part", "cats", "roles"}
           /\ DOMAIN rows[v] = {"room", "part", "cats", "roles"}
           /\ now[v].room = db.vars[v].room /\ rows[v].room = db.vars[v].room
           /\ now[v].part = db.vars[v].part /\ rows[v].part = db.vars[v].part
           /\ now[v].cats = db.vars[v].cats /\ rows[v].cats = db.vars[v].cats
           /\ now[v].roles = IF DOMAIN db.vars[v].roles = {} THEN DescribedRoles(v) ELSE db.vars[v].roles
           /\ rows[v].roles = RoleRow(now[v].roles)
  BY <1>0
<1> HIDE DEF now, rows
<1>6. \A v \in Vars : DOMAIN now[v].roles \subseteq Roles /\ DOMAIN rows[v].roles = DOMAIN now[v].roles
  BY <1>0, <1>5, DescribedDomain, RowDomain DEF VarsType
<1>7. Shape(mem)' /\ Shape(db)'
  BY <1>0, <1>2, <1>4, <1>5 DEF Shape
<1>8. ChannelsType(mem)' /\ ChannelsType(db)' /\ ChannelsInv'
  BY <1>0, <1>2, <1>4, NonZeroValues DEF ChannelsType, ChannelsInv
<1>9. VarsType(mem)' /\ VarsType(db)'
  BY <1>0, <1>2, <1>4, <1>5, <1>6 DEF VarsType
<1>10. ASSUME NEW v \in Vars PROVE VarInv(v)'
  <2>1. \A c \in Callers : \A f : ~Sends(c, v, f)'
    BY <1>1 DEF Sends
  <2> QED
    BY <1>2, <1>4, <1>5, <1>6, <2>1 DEF VarInv, FieldInv
<1> QED
  BY <1>1, <1>7, <1>8, <1>9, <1>10 DEF PlacementInv, PlacementType

LEMMA InitPlacement == Init => PlacementInv
<1> SUFFICES ASSUME Init PROVE PlacementInv
  OBVIOUS
<1> DEFINE new == [v \in Vars |-> [Nowhere EXCEPT !.roles = DescribedRoles(v)]]
           rows == [v \in Vars |-> [Nowhere EXCEPT !.roles = RoleRow(DescribedRoles(v))]]
<1>1. /\ mem = [rooms |-> <<>>, parts |-> <<>>, cats |-> <<>>, vars |-> new]
      /\ db = [rooms |-> <<>>, parts |-> <<>>, cats |-> <<>>, vars |-> rows]
      /\ job = [c \in Callers |-> Idle] /\ stale = {}
  BY DEF Init, PlacementInit, Created
<1>2. /\ DOMAIN new = Vars /\ DOMAIN rows = Vars
      /\ \A v \in Vars :
           /\ DOMAIN new[v] = {"room", "part", "cats", "roles"} /\ DOMAIN rows[v] = {"room", "part", "cats", "roles"}
           /\ new[v].room = 0 /\ rows[v].room = 0 /\ new[v].part = 0 /\ rows[v].part = 0
           /\ new[v].cats = {} /\ rows[v].cats = {}
           /\ new[v].roles = DescribedRoles(v) /\ rows[v].roles = RoleRow(DescribedRoles(v))
  BY DEF Nowhere
<1> HIDE DEF new, rows
<1>3. \A v \in Vars : DOMAIN new[v].roles \subseteq Roles /\ DOMAIN rows[v].roles = DOMAIN new[v].roles
  BY <1>2, DescribedDomain, RowDomain
<1>4. ValuesOf(<<>>) = {}
  BY DEF ValuesOf
<1>5. Shape(mem) /\ ChannelsType(mem) /\ VarsType(mem) /\ Shape(db) /\ ChannelsType(db) /\ VarsType(db)
  BY <1>1, <1>2, <1>3, <1>4 DEF Shape, ChannelsType, VarsType
<1>6. ChannelsInv
  BY <1>1 DEF ChannelsInv
<1>7. job \in [Callers -> Jobs \cup {Idle}] /\ \A c \in Callers : job[c] = Idle
  BY <1>1
<1>8. ASSUME NEW v \in Vars PROVE VarInv(v)
  <2>1. \A c \in Callers : \A f : ~Sends(c, v, f)
    BY <1>7 DEF Sends
  <2> QED
    BY <1>1, <1>2, <1>3, <2>1 DEF VarInv, FieldInv
<1> QED
  BY <1>5, <1>6, <1>7, <1>8 DEF PlacementInv, PlacementType

LEMMA StepPlacement == PlacementInv /\ [Next]_vars => PlacementInv'
<1> SUFFICES ASSUME PlacementInv, [Next]_vars PROVE PlacementInv'
  OBVIOUS
<1>1. ASSUME UNCHANGED placementVars PROVE PlacementInv'
  <2>1. mem' = mem /\ db' = db /\ job' = job /\ stale' = stale
    BY <1>1 DEF placementVars
  <2> QED
    BY <2>1 DEF PlacementInv, PlacementType, Shape, ChannelsType, VarsType, ChannelsInv, VarInv, FieldInv, Sends
<1>2. PlacementNext => PlacementInv'
  BY ChannelSteps, VariableSteps, RemoveSteps, RestartStep, SaveStep DEF PlacementNext
<1> QED
  BY <1>1, <1>2 DEF Next, AclsNext, CentralNext, vars

-----------------------------------------------------------------------------
(* Renames.                                                                *)
CentralType ==
  /\ DOMAIN index = Kinds /\ DOMAIN own = Kinds /\ DOMAIN entry = Kinds /\ peerRow = own
  /\ \A k \in Kinds :
       /\ own[k] \in [Peers -> Names[k]]
       /\ DOMAIN index[k] \subseteq Names[k] /\ \A n \in DOMAIN index[k] : index[k][n] \in Peers
       /\ DOMAIN entry[k] = Links
  /\ DOMAIN call = Clients
  /\ \A c \in Clients : call[c] = Resting \/ \E k \in Kinds : call[c] \in Renames(k)

Runs(c, k) == call[c] # Resting /\ call[c].kind = k
Between(c, k) == Runs(c, k) /\ call[c].at \in {"find", "move"}

AloneInv(k) ==
  \A c, d \in Clients : Runs(c, k) /\ Runs(d, k) /\ c # d =>
    {call[c].old, call[c].new} \cap {call[d].old, call[d].new} = {}

OwnInv(k) == \A p, q \in Peers : own[k][p] = own[k][q] => p = q

IndexInv(k) ==
  /\ \A p \in Peers :
       \/ own[k][p] \in DOMAIN index[k] /\ index[k][own[k][p]] = p
       \/ \E c \in Clients : Between(c, k) /\ call[c].peer = p
  /\ \A n \in DOMAIN index[k] :
       \/ own[k][index[k][n]] = n
       \/ \E c \in Clients : Between(c, k) /\ call[c].old = n

Unused(k, n) == \A p \in Peers : own[k][p] # n
At(k, n, p) == n \in DOMAIN index[k] /\ index[k][n] = p
CallFacts(k, r) ==
  /\ r.at \in {"check", "store"} => own[k][r.peer] = r.old /\ At(k, r.old, r.peer)
  /\ r.at \in {"find", "move", "tell"} => own[k][r.peer] = r.new /\ Unused(k, r.old)
  /\ r.at \in {"store", "find", "move"} => r.new \notin DOMAIN index[k]
  /\ r.at \in {"store", "find", "move", "tell"} => r.new # r.old
  /\ r.at \in {"find", "move"} => At(k, r.old, r.peer)
  /\ r.at = "tell" => At(k, r.new, r.peer) /\ r.old \notin DOMAIN index[k]
CallInv(k) == \A c \in Clients : Runs(c, k) => CallFacts(k, call[c])

EntryInv(k) ==
  \A l \in Links :
    \/ entry[k][l] = own[k][l[2]]
    \/ \E c \in Clients :
         /\ Runs(c, k) /\ call[c].peer = l[2] /\ entry[k][l] = call[c].old
         /\ call[c].at \in {"find", "move"} \/ (call[c].at = "tell" /\ l[1] \in call[c].left)

KindInv(k) == AloneInv(k) /\ OwnInv(k) /\ IndexInv(k) /\ CallInv(k)
CentralInv ==
  /\ CentralType
  /\ \A k \in Kinds \ overlapped : KindInv(k) /\ ("id" \notin overlapped => EntryInv(k))

(* What a client in a rename knows is of its type.                         *)
LEMMA CallForm ==
  ASSUME CentralType, NEW c \in Clients, call[c] # Resting
  PROVE  /\ call[c].kind \in Kinds /\ call[c] \in Renames(call[c].kind)
         /\ call[c].at \in {"check", "store", "find", "move", "tell"} /\ call[c].peer \in Peers
         /\ call[c].old \in Names[call[c].kind] /\ call[c].new \in Names[call[c].kind]
         /\ call[c].left \in SUBSET Peers
  BY DEF CentralType, Renames

(* One call changes, the others go on as they were.                        *)
LEMMA OneCall ==
  ASSUME CentralType, NEW c \in Clients, NEW s, call' = [call EXCEPT ![c] = s]
  PROVE  /\ call'[c] = s /\ DOMAIN call' = Clients
         /\ \A d \in Clients : d # c => call'[d] = call[d]
         /\ \A k : \A d \in Clients : d # c => (Runs(d, k)' <=> Runs(d, k)) /\ (Between(d, k)' <=> Between(d, k))
<1>1. call'[c] = s /\ DOMAIN call' = Clients /\ \A d \in Clients : d # c => call'[d] = call[d]
  BY DEF CentralType
<1> QED
  BY <1>1 DEF Runs, Between

(* Nothing of a kind changes, and no rename of it.                         *)
LEMMA OtherKind ==
  ASSUME NEW k \in Kinds, KindInv(k),
         index'[k] = index[k], own'[k] = own[k], entry'[k] = entry[k],
         \A d \in Clients : Runs(d, k)' <=> Runs(d, k),
         \A d \in Clients : Runs(d, k) => call'[d] = call[d]
  PROVE  KindInv(k)' /\ (EntryInv(k) => EntryInv(k)')
<1>1. \A d \in Clients : Between(d, k)' <=> Between(d, k)
  BY DEF Between
<1>2. \A d \in Clients : Between(d, k) => call'[d] = call[d]
  BY DEF Between
<1>3. AloneInv(k)'
  BY DEF KindInv, AloneInv
<1>4. OwnInv(k)'
  BY DEF KindInv, OwnInv
<1>5. IndexInv(k)'
  BY <1>1, <1>2 DEF KindInv, IndexInv
<1>6. CallInv(k)'
  <2> SUFFICES ASSUME NEW d \in Clients, Runs(d, k), NEW q, q = call[d] PROVE CallFacts(k, q)'
    BY DEF CallInv
  <2>1. CallFacts(k, q)
    BY DEF KindInv, CallInv
  <2> QED
    BY <2>1 DEF CallFacts, Unused, At
<1>7. EntryInv(k) => EntryInv(k)'
  BY DEF EntryInv
<1> QED
  BY <1>3, <1>4, <1>5, <1>6, <1>7 DEF KindInv

(* Every peer is found by some name.                                       *)
LEMMA Found ==
  ASSUME NEW k \in Kinds, KindInv(k), NEW p \in Peers PROVE \E n \in DOMAIN index[k] : index[k][n] = p
<1>1. CASE own[k][p] \in DOMAIN index[k] /\ index[k][own[k][p]] = p
  BY <1>1
<1>2. CASE \E c \in Clients : Between(c, k) /\ call[c].peer = p
  BY <1>2 DEF KindInv, CallInv, CallFacts, Between, At
<1> QED
  BY <1>1, <1>2 DEF KindInv, IndexInv

LEMMA CheckStep ==
  ASSUME CentralType, NEW c \in Clients, Check(c), NEW k \in Kinds, k = call[c].kind, KindInv(k)
  PROVE  KindInv(k)' /\ (EntryInv(k) => EntryInv(k)')
<1>1. PICK r : r = call[c]
  BY ZenonT(30)
<1>2. r # Resting /\ r.at = "check" /\ r.kind = k /\ Runs(c, k) /\ r \in Renames(k)
  BY <1>1, CallForm DEF Check, Step, Runs
<1>3. own[k][r.peer] = r.old /\ At(k, r.old, r.peer)
  BY <1>1, <1>2 DEF KindInv, CallInv, CallFacts
<1>4. PICK s : /\ call' = [call EXCEPT ![c] = s]
               /\ \/ s = Resting
                  \/ s = [r EXCEPT !.at = "store"] /\ r.new # r.old /\ r.new \notin DOMAIN index[k]
  BY <1>1, <1>2, <1>3 DEF Check, Done, peerExists
<1>5. index' = index /\ own' = own /\ entry' = entry
  BY DEF Check
<1>6. s # Resting => s.at = "store" /\ s.kind = k /\ s.peer = r.peer /\ s.old = r.old /\ s.new = r.new
  BY <1>2, <1>4 DEF Renames
<1>7. /\ call'[c] = s
      /\ \A d \in Clients : d # c => /\ call'[d] = call[d] /\ (Runs(d, k)' <=> Runs(d, k))
                                     /\ (Between(d, k)' <=> Between(d, k))
  BY <1>4, OneCall
<1>8. ~Between(c, k) /\ ~Between(c, k)' /\ (Runs(c, k)' <=> s # Resting)
  BY <1>1, <1>2, <1>6, <1>7 DEF Between, Runs
<1>9. AloneInv(k)'
  BY <1>1, <1>2, <1>6, <1>7, <1>8 DEF KindInv, AloneInv
<1>10. OwnInv(k)'
  BY <1>5 DEF KindInv, OwnInv
<1>11. IndexInv(k)'
  BY <1>5, <1>7, <1>8 DEF KindInv, IndexInv
<1>12. CallInv(k)'
  <2> SUFFICES ASSUME NEW d \in Clients, Runs(d, k)', NEW q, q = call'[d] PROVE CallFacts(k, q)'
    BY DEF CallInv
  <2>1. CASE d = c
    BY <1>3, <1>4, <1>5, <1>6, <1>7, <1>8, <2>1 DEF CallFacts, Unused, At
  <2>2. CASE d # c
    <3>1. CallFacts(k, q)
      BY <1>7, <2>2 DEF KindInv, CallInv
    <3> QED
      BY <1>5, <3>1 DEF CallFacts, Unused, At
  <2> QED
    BY <2>1, <2>2
<1>13. EntryInv(k) => EntryInv(k)'
  BY <1>1, <1>2, <1>5, <1>7 DEF EntryInv
<1> QED
  BY <1>9, <1>10, <1>11, <1>12, <1>13 DEF KindInv

LEMMA StoreStep ==
  ASSUME CentralType, NEW c \in Clients, Store(c), NEW k \in Kinds, k = call[c].kind, KindInv(k)
  PROVE  KindInv(k)' /\ (EntryInv(k) => EntryInv(k)')
<1>1. PICK r : r = call[c]
  BY ZenonT(30)
<1>2. r # Resting /\ r.at = "store" /\ r.kind = k /\ Runs(c, k) /\ r \in Renames(k) /\ r.peer \in Peers
  BY <1>1, CallForm DEF Store, Step, Runs
<1>3. own[k][r.peer] = r.old /\ At(k, r.old, r.peer) /\ r.new # r.old /\ r.new \notin DOMAIN index[k]
  BY <1>1, <1>2 DEF KindInv, CallInv, CallFacts
<1>4. index' = index /\ entry' = entry
  BY DEF Store
(* The database refuses the name.                                          *)
<1>5. ASSUME Done(c), own' = own PROVE KindInv(k)' /\ (EntryInv(k) => EntryInv(k)')
  <2>1. /\ call'[c] = Resting
        /\ \A d \in Clients : d # c => /\ call'[d] = call[d] /\ (Runs(d, k)' <=> Runs(d, k))
                                       /\ (Between(d, k)' <=> Between(d, k))
    BY <1>5, OneCall DEF Done
  <2>2. ~Runs(c, k)' /\ ~Between(c, k)' /\ ~Between(c, k)
    BY <1>1, <1>2, <2>1 DEF Runs, Between
  <2>3. AloneInv(k)'
    BY <2>1, <2>2 DEF KindInv, AloneInv
  <2>4. OwnInv(k)'
    BY <1>5 DEF KindInv, OwnInv
  <2>5. IndexInv(k)'
    BY <1>4, <1>5, <2>1, <2>2 DEF KindInv, IndexInv
  <2>6. CallInv(k)'
    <3> SUFFICES ASSUME NEW d \in Clients, Runs(d, k)', NEW q, q = call'[d] PROVE CallFacts(k, q)'
      BY DEF CallInv
    <3>1. CallFacts(k, q)
      BY <2>1, <2>2 DEF KindInv, CallInv
    <3> QED
      BY <1>4, <1>5, <3>1 DEF CallFacts, Unused, At
  <2>7. EntryInv(k) => EntryInv(k)'
    BY <1>1, <1>2, <1>4, <1>5, <2>1 DEF EntryInv
  <2> QED
    BY <2>3, <2>4, <2>5, <2>6, <2>7 DEF KindInv
(* The peer has its new name, and is found by the old one only.            *)
<1>6. ASSUME ~\E q \in Peers \ {r.peer} : peerRow[k][q] = r.new, own' = [own EXCEPT ![k][r.peer] = r.new],
             call' = [call EXCEPT ![c].at = "find"]
      PROVE  KindInv(k)' /\ (EntryInv(k) => EntryInv(k)')
  <2> DEFINE s == [r EXCEPT !.at = "find"]
  <2>1. call' = [call EXCEPT ![c] = s]
    BY <1>1, <1>6
  <2>2. s \in Renames(k) /\ s # Resting
    BY <1>2, CentralAssumption DEF Renames
  <2>3. s.at = "find" /\ s.kind = k /\ s.peer = r.peer /\ s.old = r.old /\ s.new = r.new
    BY <1>2 DEF Renames
  <2> HIDE DEF s
  <2>4. /\ call'[c] = s
        /\ \A d \in Clients : d # c => /\ call'[d] = call[d] /\ (Runs(d, k)' <=> Runs(d, k))
                                       /\ (Between(d, k)' <=> Between(d, k))
    BY <2>1, OneCall
  <2>5. Runs(c, k)' /\ Between(c, k)' /\ ~Between(c, k)
    BY <1>1, <1>2, <2>2, <2>3, <2>4 DEF Runs, Between
  <2>6. own'[k][r.peer] = r.new /\ \A q \in Peers : q # r.peer => own'[k][q] = own[k][q] /\ own[k][q] # r.new
    <3>1. DOMAIN own = Kinds /\ DOMAIN own[k] = Peers /\ peerRow = own
      BY DEF CentralType
    <3> QED
      BY <1>2, <1>6, <3>1
  <2>7. AloneInv(k)'
    BY <1>1, <1>2, <2>3, <2>4, <2>5 DEF KindInv, AloneInv
  <2>8. OwnInv(k)'
    BY <2>6 DEF KindInv, OwnInv
  <2>9. \A q \in Peers : q # r.peer => own[k][q] # r.old
    BY <1>2, <1>3 DEF KindInv, OwnInv
  <2>10. ASSUME NEW d \in Clients, d # c, Runs(d, k), NEW q, q = call[d]
         PROVE  q.peer # r.peer /\ q.new # r.new /\ q.new # r.old /\ q.old # r.new /\ q.old # r.old
    <3>1. {r.old, r.new} \cap {q.old, q.new} = {}
      BY <1>1, <1>2, <2>10 DEF KindInv, AloneInv
    <3>2. own[k][q.peer] = q.old \/ own[k][q.peer] = q.new
      <4>1. q.at \in {"check", "store", "find", "move", "tell"}
        BY <2>10, CallForm DEF Runs
      <4> QED
        BY <2>10, <4>1 DEF KindInv, CallInv, CallFacts
    <3> QED
      BY <1>3, <3>1, <3>2
  <2>11. IndexInv(k)'
    <3>1. ASSUME NEW p \in Peers
          PROVE  \/ own'[k][p] \in DOMAIN index'[k] /\ index'[k][own'[k][p]] = p
                 \/ \E d \in Clients : Between(d, k)' /\ call'[d].peer = p
      <4>1. CASE p = r.peer
        BY <2>3, <2>4, <2>5, <4>1
      <4>2. CASE p # r.peer
        BY <1>4, <2>4, <2>5, <2>6, <4>2 DEF KindInv, IndexInv
      <4> QED
        BY <4>1, <4>2
    <3>2. ASSUME NEW n \in DOMAIN index'[k]
          PROVE  own'[k][index'[k][n]] = n \/ \E d \in Clients : Between(d, k)' /\ call'[d].old = n
      <4>1. n \in DOMAIN index[k] /\ index[k][n] \in Peers /\ index'[k][n] = index[k][n]
        BY <1>4, <3>2 DEF CentralType
      <4>2. CASE own[k][index[k][n]] = n /\ index[k][n] = r.peer
        BY <1>3, <2>3, <2>4, <2>5, <4>2
      <4>3. CASE own[k][index[k][n]] = n /\ index[k][n] # r.peer
        BY <2>6, <4>1, <4>3
      <4>4. CASE \E d \in Clients : Between(d, k) /\ call[d].old = n
        BY <2>4, <2>5, <4>4
      <4> QED
        BY <4>1, <4>2, <4>3, <4>4 DEF KindInv, IndexInv
    <3> QED
      BY <3>1, <3>2 DEF IndexInv
  <2>12. CallInv(k)'
    <3> SUFFICES ASSUME NEW d \in Clients, Runs(d, k)', NEW q, q = call'[d] PROVE CallFacts(k, q)'
      BY DEF CallInv
    <3>1. CASE d = c
      <4>1. Unused(k, r.old)'
        BY <1>3, <2>6, <2>9 DEF Unused
      <4> QED
        BY <1>3, <1>4, <2>3, <2>4, <2>6, <3>1, <4>1 DEF CallFacts, At
    <3>2. CASE d # c
      <4>1. Runs(d, k) /\ q = call[d]
        BY <2>4, <3>2
      <4>2. CallFacts(k, q) /\ q.peer \in Peers
        BY <4>1, CallForm DEF KindInv, CallInv, Runs
      <4>3. q.peer # r.peer /\ q.old # r.new
        BY <2>10, <3>2, <4>1
      <4>4. own'[k][q.peer] = own[k][q.peer] /\ (Unused(k, q.old) => Unused(k, q.old)')
        BY <2>6, <4>2, <4>3 DEF Unused
      <4> QED
        BY <1>4, <4>2, <4>4 DEF CallFacts, At
    <3> QED
      BY <3>1, <3>2
  <2>13. EntryInv(k) => EntryInv(k)'
    <3> SUFFICES ASSUME EntryInv(k), NEW l \in Links
                 PROVE  \/ entry'[k][l] = own'[k][l[2]]
                        \/ \E d \in Clients :
                             /\ Runs(d, k)' /\ call'[d].peer = l[2] /\ entry'[k][l] = call'[d].old
                             /\ call'[d].at \in {"find", "move"} \/ (call'[d].at = "tell" /\ l[1] \in call'[d].left)
      BY DEF EntryInv
    <3>0. l[2] \in Peers
      BY DEF Links
    <3>1. CASE entry[k][l] = own[k][l[2]] /\ l[2] = r.peer
      BY <1>3, <1>4, <2>3, <2>4, <2>5, <3>1
    <3>2. CASE entry[k][l] = own[k][l[2]] /\ l[2] # r.peer
      BY <1>4, <2>6, <3>0, <3>2
    <3>3. CASE \E d \in Clients :
                 /\ Runs(d, k) /\ call[d].peer = l[2] /\ entry[k][l] = call[d].old
                 /\ call[d].at \in {"find", "move"} \/ (call[d].at = "tell" /\ l[1] \in call[d].left)
      BY <1>1, <1>2, <1>4, <2>4, <3>3
    <3> QED
      BY <3>1, <3>2, <3>3 DEF EntryInv
  <2> QED
    BY <2>7, <2>8, <2>11, <2>12, <2>13 DEF KindInv
<1> QED
  BY <1>1, <1>5, <1>6 DEF Store

LEMMA FindStep ==
  ASSUME CentralType, NEW c \in Clients, FindAgain(c), NEW k \in Kinds, k = call[c].kind, KindInv(k)
  PROVE  KindInv(k)' /\ (EntryInv(k) => EntryInv(k)')
<1>1. PICK r : r = call[c]
  BY ZenonT(30)
<1>2. r # Resting /\ r.at = "find" /\ r.kind = k /\ Runs(c, k) /\ r \in Renames(k)
  BY <1>1, CallForm DEF FindAgain, Step, Runs
<1>3. CallFacts(k, r) /\ At(k, r.old, r.peer)
  BY <1>1, <1>2 DEF KindInv, CallInv, CallFacts
<1> DEFINE s == [r EXCEPT !.at = "move"]
<1>4. call' = [call EXCEPT ![c] = s] /\ index' = index /\ own' = own /\ entry' = entry
  <2>1. index[k][r.old] = r.peer /\ r.old \in DOMAIN index[k]
    BY <1>3 DEF At
  <2>2. call' = [call EXCEPT ![c].at = "move", ![c].peer = r.peer]
    BY <1>1, <1>2, <2>1 DEF FindAgain, peerExists, getPeer
  <2>3. [r EXCEPT !.at = "move", !.peer = r.peer] = s
    BY <1>2 DEF Renames
  <2>4. DOMAIN call = Clients
    BY DEF CentralType
  <2>5. call' = [call EXCEPT ![c] = [r EXCEPT !.at = "move", !.peer = r.peer]]
    BY <1>1, <2>2, <2>4
  <2> QED
    BY <2>3, <2>5 DEF FindAgain
<1>5. s \in Renames(k) /\ s # Resting
  BY <1>2, CentralAssumption DEF Renames
<1>6. s.at = "move" /\ s.kind = k /\ s.peer = r.peer /\ s.old = r.old /\ s.new = r.new
  BY <1>2 DEF Renames
<1> HIDE DEF s
<1>7. /\ call'[c] = s
      /\ \A d \in Clients : d # c => /\ call'[d] = call[d] /\ (Runs(d, k)' <=> Runs(d, k))
                                     /\ (Between(d, k)' <=> Between(d, k))
  BY <1>4, OneCall
<1>8. Runs(c, k)' /\ Between(c, k)' /\ Between(c, k)
  BY <1>1, <1>2, <1>5, <1>6, <1>7 DEF Runs, Between
<1>9. AloneInv(k)'
  BY <1>1, <1>2, <1>6, <1>7, <1>8 DEF KindInv, AloneInv
<1>10. OwnInv(k)'
  BY <1>4 DEF KindInv, OwnInv
<1>11. \A d \in Clients : Between(d, k) => Between(d, k)' /\ call'[d].peer = call[d].peer /\ call'[d].old = call[d].old
  BY <1>1, <1>6, <1>7, <1>8
<1>12. IndexInv(k)'
  BY <1>4, <1>11 DEF KindInv, IndexInv
<1>13. CallInv(k)'
  <2> SUFFICES ASSUME NEW d \in Clients, Runs(d, k)', NEW q, q = call'[d] PROVE CallFacts(k, q)'
    BY DEF CallInv
  <2>1. CallFacts(k, q)
    <3>1. CASE d = c
      BY <1>2, <1>3, <1>6, <1>7, <3>1 DEF CallFacts
    <3>2. CASE d # c
      BY <1>7, <3>2 DEF KindInv, CallInv
    <3> QED
      BY <3>1, <3>2
  <2> QED
    BY <1>4, <2>1 DEF CallFacts, Unused, At
<1>14. EntryInv(k) => EntryInv(k)'
  <2>1. ASSUME NEW d \in Clients, NEW l, Runs(d, k), call[d].peer = l[2], entry[k][l] = call[d].old,
               call[d].at \in {"find", "move"} \/ (call[d].at = "tell" /\ l[1] \in call[d].left)
        PROVE  /\ Runs(d, k)' /\ call'[d].peer = l[2] /\ entry'[k][l] = call'[d].old
               /\ call'[d].at \in {"find", "move"} \/ (call'[d].at = "tell" /\ l[1] \in call'[d].left)
    BY <1>1, <1>4, <1>6, <1>7, <1>8, <2>1
  <2> QED
    BY <1>4, <2>1 DEF EntryInv
<1> QED
  BY <1>9, <1>10, <1>12, <1>13, <1>14 DEF KindInv

(* The map has the peer under its new name, and all peers are to be told.  *)
LEMMA MoveStep ==
  ASSUME CentralType, NEW c \in Clients, Move(c), NEW k \in Kinds, k = call[c].kind, KindInv(k),
         NEW id, id \in Kinds, id = "id"
  PROVE  KindInv(k)' /\ (KindInv(id) /\ EntryInv(k) => EntryInv(k)')
<1>1. PICK r : r = call[c]
  BY ZenonT(30)
<1>2. r # Resting /\ r.at = "move" /\ r.kind = k /\ Runs(c, k) /\ Between(c, k) /\ r \in Renames(k) /\ r.peer \in Peers
  BY <1>1, CallForm DEF Move, Step, Runs, Between
<1>3. /\ own[k][r.peer] = r.new /\ Unused(k, r.old) /\ r.new \notin DOMAIN index[k]
      /\ r.new # r.old /\ At(k, r.old, r.peer)
  BY <1>1, <1>2 DEF KindInv, CallInv, CallFacts
<1> DEFINE names == (DOMAIN index[k] \ {r.old}) \cup {r.new}
           now == [n \in names |-> IF n = r.new THEN r.peer ELSE index[k][n]]
<1>4. PICK told : told = {index'["id"][n] : n \in DOMAIN index'["id"]}
  BY ZenonT(30)
<1> DEFINE s == [r EXCEPT !.at = "tell", !.left = told]
<1>5. /\ call' = [call EXCEPT ![c] = s] /\ index' = [index EXCEPT ![k] = now]
      /\ own' = own /\ entry' = entry
  <2>1. call' = [call EXCEPT ![c].at = "tell", ![c].left = told]
    BY <1>4 DEF Move
  <2>2. DOMAIN call = Clients
    BY DEF CentralType
  <2>3. call' = [call EXCEPT ![c] = s]
    BY <1>1, <2>1, <2>2
  <2> QED
    BY <1>1, <2>3 DEF Move
<1>6. s.at = "tell" /\ s.kind = k /\ s.peer = r.peer /\ s.old = r.old /\ s.new = r.new /\ s.left = told
  BY <1>2 DEF Renames
<1>7. index'[k] = now /\ \A j \in Kinds : j # k => index'[j] = index[j]
  BY <1>5 DEF CentralType
<1>8. /\ DOMAIN index'[k] = (DOMAIN index[k] \ {r.old}) \cup {r.new}
      /\ index'[k][r.new] = r.peer
      /\ \A n \in DOMAIN index'[k] : n # r.new => n \in DOMAIN index[k] /\ n # r.old /\ index'[k][n] = index[k][n]
  BY <1>7
<1> HIDE DEF s, now, names
<1>9. /\ call'[c] = s
      /\ \A d \in Clients : d # c => /\ call'[d] = call[d] /\ (Runs(d, k)' <=> Runs(d, k))
                                     /\ (Between(d, k)' <=> Between(d, k))
  BY <1>5, OneCall
<1>10. Runs(c, k)' => s # Resting
  BY <1>9 DEF Runs
<1>11. ASSUME NEW d \in Clients, d # c, Runs(d, k), NEW q, q = call[d]
       PROVE  q.new # r.new /\ q.new # r.old /\ q.old # r.new /\ q.old # r.old
  <2>1. {r.old, r.new} \cap {q.old, q.new} = {}
    BY <1>1, <1>2, <1>11 DEF KindInv, AloneInv
  <2> QED
    BY <2>1
<1>12. AloneInv(k)'
  BY <1>1, <1>2, <1>6, <1>9 DEF KindInv, AloneInv
<1>13. OwnInv(k)'
  BY <1>5 DEF KindInv, OwnInv
<1>14. IndexInv(k)'
  <2>1. ASSUME NEW p \in Peers
        PROVE  \/ own'[k][p] \in DOMAIN index'[k] /\ index'[k][own'[k][p]] = p
               \/ \E d \in Clients : Between(d, k)' /\ call'[d].peer = p
    <3>1. CASE p = r.peer
      BY <1>3, <1>5, <1>8, <3>1
    <3>2. CASE p # r.peer /\ own[k][p] \in DOMAIN index[k] /\ index[k][own[k][p]] = p
      <4>1. own[k][p] # r.old /\ own[k][p] # r.new
        BY <1>2, <1>3, <3>2 DEF KindInv, OwnInv, Unused
      <4> QED
        BY <1>5, <1>8, <3>2, <4>1
    <3>3. CASE p # r.peer /\ \E d \in Clients : Between(d, k) /\ call[d].peer = p
      BY <1>1, <1>9, <3>3
    <3> QED
      BY <3>1, <3>2, <3>3 DEF KindInv, IndexInv
  <2>2. ASSUME NEW n \in DOMAIN index'[k]
        PROVE  own'[k][index'[k][n]] = n \/ \E d \in Clients : Between(d, k)' /\ call'[d].old = n
    <3>1. CASE n = r.new
      BY <1>3, <1>5, <1>8, <3>1
    <3>2. CASE n # r.new
      <4>1. n \in DOMAIN index[k] /\ n # r.old /\ index'[k][n] = index[k][n]
        BY <1>8, <2>2, <3>2
      <4>2. own[k][index[k][n]] = n \/ \E d \in Clients : Between(d, k) /\ call[d].old = n
        BY <4>1 DEF KindInv, IndexInv
      <4> QED
        BY <1>1, <1>5, <1>9, <4>1, <4>2
    <3> QED
      BY <3>1, <3>2
  <2> QED
    BY <2>1, <2>2 DEF IndexInv
<1>15. CallInv(k)'
  <2> SUFFICES ASSUME NEW d \in Clients, Runs(d, k)', NEW q, q = call'[d] PROVE CallFacts(k, q)'
    BY DEF CallInv
  <2>1. CASE d = c
    <3>1. Unused(k, r.old)'
      BY <1>3, <1>5 DEF Unused
    <3>2. r.old \notin DOMAIN index'[k] /\ r.new \in DOMAIN index'[k]
      BY <1>3, <1>8
    <3> QED
      BY <1>3, <1>5, <1>6, <1>8, <1>9, <2>1, <3>1, <3>2 DEF CallFacts, At
  <2>2. CASE d # c
    <3>1. CallFacts(k, q) /\ q.new # r.new /\ q.new # r.old /\ q.old # r.new /\ q.old # r.old
      BY <1>9, <1>11, <2>2 DEF KindInv, CallInv
    <3>2. /\ \A p : At(k, q.old, p) => At(k, q.old, p)'
          /\ \A p : At(k, q.new, p) => At(k, q.new, p)'
          /\ q.new \notin DOMAIN index[k] => q.new \notin DOMAIN index'[k]
          /\ q.old \notin DOMAIN index[k] => q.old \notin DOMAIN index'[k]
      BY <1>8, <3>1 DEF At
    <3> QED
      BY <1>5, <3>1, <3>2 DEF CallFacts, Unused
  <2> QED
    BY <2>1, <2>2
<1>16. KindInv(k)'
  BY <1>12, <1>13, <1>14, <1>15 DEF KindInv
<1>17. ASSUME KindInv(id), EntryInv(k) PROVE EntryInv(k)'
  <2>1. \A p \in Peers : \E n \in DOMAIN index'[id] : index'[id][n] = p
    <3>1. CASE id = k
      <4>1. KindInv(id)'
        BY <1>16, <3>1
      <4> TAKE p \in Peers
      <4>2. CASE own'[id][p] \in DOMAIN index'[id] /\ index'[id][own'[id][p]] = p
        BY <4>2
      <4>3. CASE \E d \in Clients : Between(d, id)' /\ call'[d].peer = p
        BY <4>1, <4>3 DEF KindInv, CallInv, CallFacts, Between, At
      <4> QED
        BY <4>1, <4>2, <4>3 DEF KindInv, IndexInv
    <3>2. CASE id # k
      <4>1. index'[id] = index[id]
        BY <1>7, <3>2
      <4> QED
        BY <1>17, <4>1, Found
    <3> QED
      BY <3>1, <3>2
  <2>2. Peers \subseteq told
    BY <1>4, <2>1
  <2>3. Links \subseteq Peers \X Peers
    BY DEF Links
  <2> SUFFICES ASSUME NEW l \in Links
               PROVE  \/ entry'[k][l] = own'[k][l[2]]
                      \/ \E d \in Clients :
                           /\ Runs(d, k)' /\ call'[d].peer = l[2] /\ entry'[k][l] = call'[d].old
                           /\ call'[d].at \in {"find", "move"} \/ (call'[d].at = "tell" /\ l[1] \in call'[d].left)
    BY DEF EntryInv
  <2>4. CASE entry[k][l] = own[k][l[2]]
    BY <1>5, <2>4
  <2>5. ASSUME NEW d \in Clients, Runs(d, k), call[d].peer = l[2], entry[k][l] = call[d].old,
               call[d].at \in {"find", "move"} \/ (call[d].at = "tell" /\ l[1] \in call[d].left)
        PROVE  /\ Runs(d, k)' /\ call'[d].peer = l[2] /\ entry'[k][l] = call'[d].old
               /\ call'[d].at \in {"find", "move"} \/ (call'[d].at = "tell" /\ l[1] \in call'[d].left)
    <3>1. CASE d # c
      BY <1>5, <1>9, <2>5, <3>1
    <3>2. CASE d = c
      <4>1. s # Resting
        <5>1. s \in Renames(k)
          <6>1. told \in SUBSET Peers
            BY <1>4, <1>8, <1>2, <1>7 DEF CentralType
          <6> QED
            BY <1>2, <6>1 DEF Renames, s
        <5> QED
          BY <5>1, CentralAssumption
      <4> QED
        BY <1>1, <1>5, <1>6, <1>9, <2>2, <2>3, <2>5, <3>2, <4>1 DEF Runs
    <3> QED
      BY <3>1, <3>2
  <2> QED
    BY <1>17, <2>4, <2>5 DEF EntryInv
<1> QED
  BY <1>16, <1>17

LEMMA TellStep ==
  ASSUME CentralType, NEW c \in Clients, UpdatePeer(c), NEW k \in Kinds, k = call[c].kind, KindInv(k)
  PROVE  KindInv(k)' /\ (EntryInv(k) => EntryInv(k)')
<1>1. PICK r : r = call[c]
  BY ZenonT(30)
<1>2. /\ r # Resting /\ r.at = "tell" /\ r.kind = k /\ Runs(c, k) /\ r \in Renames(k)
      /\ r.left \in SUBSET Peers
  BY <1>1, CallForm DEF UpdatePeer, Step, Runs
<1>3. CallFacts(k, r) /\ own[k][r.peer] = r.new /\ Unused(k, r.old)
  BY <1>1, <1>2 DEF KindInv, CallInv, CallFacts
<1>4. PICK p : p = CHOOSE q \in r.left : TRUE
  BY ZenonT(30)
<1> DEFINE s == [r EXCEPT !.left = @ \ {p}]
           noted == [l \in Links |-> IF l[1] = p /\ entry[k][l] = r.old THEN r.new ELSE entry[k][l]]
<1>5. /\ call' = [call EXCEPT ![c] = s] /\ entry' = [entry EXCEPT ![k] = noted]
      /\ index' = index /\ own' = own
  BY <1>1, <1>4 DEF UpdatePeer, CentralType
<1>6. s \in Renames(k) /\ s # Resting
  BY <1>2, CentralAssumption DEF Renames
<1>7. s.at = "tell" /\ s.kind = k /\ s.peer = r.peer /\ s.old = r.old /\ s.new = r.new /\ s.left = r.left \ {p}
  BY <1>2 DEF Renames
<1>8. entry'[k] = noted
  BY <1>5 DEF CentralType
<1>9. \A l \in Links : entry'[k][l] = IF l[1] = p /\ entry[k][l] = r.old THEN r.new ELSE entry[k][l]
  BY <1>8
<1> HIDE DEF s, noted
<1>10. /\ call'[c] = s
       /\ \A d \in Clients : d # c => /\ call'[d] = call[d] /\ (Runs(d, k)' <=> Runs(d, k))
                                      /\ (Between(d, k)' <=> Between(d, k))
  BY <1>5, OneCall
<1>11. Runs(c, k)' /\ ~Between(c, k) /\ ~Between(c, k)'
  BY <1>1, <1>2, <1>6, <1>7, <1>10 DEF Runs, Between
<1>12. AloneInv(k)'
  BY <1>1, <1>2, <1>7, <1>10 DEF KindInv, AloneInv
<1>13. OwnInv(k)'
  BY <1>5 DEF KindInv, OwnInv
<1>14. IndexInv(k)'
  BY <1>5, <1>10, <1>11 DEF KindInv, IndexInv
<1>15. CallInv(k)'
  <2> SUFFICES ASSUME NEW d \in Clients, Runs(d, k)', NEW q, q = call'[d] PROVE CallFacts(k, q)'
    BY DEF CallInv
  <2>1. CallFacts(k, q)
    <3>1. CASE d = c
      BY <1>2, <1>3, <1>7, <1>10, <3>1 DEF CallFacts
    <3>2. CASE d # c
      BY <1>10, <3>2 DEF KindInv, CallInv
    <3> QED
      BY <3>1, <3>2
  <2> QED
    BY <1>5, <2>1 DEF CallFacts, Unused, At
<1>16. ASSUME EntryInv(k) PROVE EntryInv(k)'
  <2> SUFFICES ASSUME NEW l \in Links
               PROVE  \/ entry'[k][l] = own'[k][l[2]]
                      \/ \E d \in Clients :
                           /\ Runs(d, k)' /\ call'[d].peer = l[2] /\ entry'[k][l] = call'[d].old
                           /\ call'[d].at \in {"find", "move"} \/ (call'[d].at = "tell" /\ l[1] \in call'[d].left)
    BY DEF EntryInv
  <2>1. l[2] \in Peers
    BY DEF Links
  <2>2. CASE entry[k][l] = own[k][l[2]]
    <3>1. entry[k][l] # r.old
      BY <1>3, <2>1, <2>2 DEF Unused
    <3> QED
      BY <1>5, <1>9, <2>2, <3>1
  <2>3. ASSUME NEW d \in Clients, Runs(d, k), call[d].peer = l[2], entry[k][l] = call[d].old,
               call[d].at \in {"find", "move"} \/ (call[d].at = "tell" /\ l[1] \in call[d].left)
        PROVE  \/ entry'[k][l] = own'[k][l[2]]
               \/ /\ Runs(d, k)' /\ call'[d].peer = l[2] /\ entry'[k][l] = call'[d].old
                  /\ call'[d].at \in {"find", "move"} \/ (call'[d].at = "tell" /\ l[1] \in call'[d].left)
    <3>1. CASE d = c /\ l[1] = p
      BY <1>1, <1>3, <1>5, <1>9, <2>3, <3>1
    <3>2. CASE d = c /\ l[1] # p
      BY <1>1, <1>2, <1>7, <1>9, <1>10, <1>11, <2>3, <3>2
    <3>3. CASE d # c
      <4>1. entry[k][l] # r.old
        BY <1>1, <1>2, <2>3, <3>3 DEF KindInv, AloneInv
      <4> QED
        BY <1>9, <1>10, <2>3, <3>3, <4>1
    <3> QED
      BY <3>1, <3>2, <3>3
  <2> QED
    BY <1>16, <2>2, <2>3 DEF EntryInv
<1> QED
  BY <1>12, <1>13, <1>14, <1>15, <1>16 DEF KindInv

LEMMA EndStep ==
  ASSUME CentralType, NEW c \in Clients, RenameEnd(c), NEW k \in Kinds, k = call[c].kind, KindInv(k)
  PROVE  KindInv(k)' /\ (EntryInv(k) => EntryInv(k)')
<1>1. PICK r : r = call[c]
  BY ZenonT(30)
<1>2. r # Resting /\ r.at = "tell" /\ r.left = {} /\ call' = [call EXCEPT ![c] = Resting]
  BY <1>1 DEF RenameEnd, Step, Done
<1>3. index' = index /\ own' = own /\ entry' = entry
  BY DEF RenameEnd
<1>4. /\ call'[c] = Resting
      /\ \A d \in Clients : d # c => /\ call'[d] = call[d] /\ (Runs(d, k)' <=> Runs(d, k))
                                     /\ (Between(d, k)' <=> Between(d, k))
  BY <1>2, OneCall
<1>5. ~Runs(c, k)' /\ ~Between(c, k) /\ ~Between(c, k)'
  BY <1>1, <1>2, <1>4 DEF Runs, Between
<1>6. AloneInv(k)'
  BY <1>4, <1>5 DEF KindInv, AloneInv
<1>7. OwnInv(k)'
  BY <1>3 DEF KindInv, OwnInv
<1>8. IndexInv(k)'
  BY <1>3, <1>4, <1>5 DEF KindInv, IndexInv
<1>9. CallInv(k)'
  <2> SUFFICES ASSUME NEW d \in Clients, Runs(d, k)', NEW q, q = call'[d] PROVE CallFacts(k, q)'
    BY DEF CallInv
  <2>1. CallFacts(k, q)
    BY <1>4, <1>5 DEF KindInv, CallInv
  <2> QED
    BY <1>3, <2>1 DEF CallFacts, Unused, At
<1>10. EntryInv(k) => EntryInv(k)'
  BY <1>1, <1>2, <1>3, <1>4 DEF EntryInv
<1> QED
  BY <1>6, <1>7, <1>8, <1>9, <1>10 DEF KindInv

(* A rename that shares no name with one that runs finds the peer's own    *)
(* name in the map.                                                        *)
LEMMA BeginStep ==
  ASSUME CentralType, NEW c \in Clients, NEW k \in Kinds, NEW id \in Names["id"], NEW new \in Names[k],
         RenameBegin(c, k, id, new), k \notin overlapped', KindInv(k)
  PROVE  KindInv(k)' /\ (EntryInv(k) => EntryInv(k)')
<1>1. PICK p : p = index["id"][id]
  BY ZenonT(30)
<1>2. PICK old : old = IF k = "id" THEN id ELSE own[k][p]
  BY ZenonT(30)
<1> DEFINE s == [at |-> "check", kind |-> k, peer |-> p, old |-> old, new |-> new, left |-> {}]
<1>3. /\ call[c] = Resting /\ id \in DOMAIN index["id"]
      /\ call' = [call EXCEPT ![c] = s] /\ index' = index /\ own' = own /\ entry' = entry
  BY <1>1, <1>2 DEF RenameBegin, peerExists, getPeer
<1>4. \A d \in Clients : Runs(d, k) => {call[d].old, call[d].new} \cap {old, new} = {}
  BY <1>1, <1>2 DEF RenameBegin, Runs, getPeer
<1>5. "id" \in Kinds /\ p \in Peers
  BY <1>1, <1>3, CentralAssumption DEF CentralType
<1>6. old \in Names[k]
  BY <1>2, <1>5 DEF CentralType
<1>7. s \in Renames(k) /\ s # Resting
  BY <1>5, <1>6, CentralAssumption DEF Renames
<1>8. s.at = "check" /\ s.kind = k /\ s.peer = p /\ s.old = old /\ s.new = new
  OBVIOUS
<1> HIDE DEF s
<1>9. /\ call'[c] = s
      /\ \A d \in Clients : d # c => /\ call'[d] = call[d] /\ (Runs(d, k)' <=> Runs(d, k))
                                     /\ (Between(d, k)' <=> Between(d, k))
  BY <1>3, OneCall
<1>10. Runs(c, k)' /\ ~Runs(c, k) /\ ~Between(c, k) /\ ~Between(c, k)'
  BY <1>3, <1>7, <1>8, <1>9 DEF Runs, Between
<1>11. own[k][p] = old /\ At(k, old, p)
  <2>1. CASE k = "id"
    <3>1. own[k][p] = old
      BY <1>1, <1>2, <1>3, <1>4, <2>1 DEF KindInv, IndexInv, Between
    <3> QED
      BY <1>1, <1>2, <1>3, <2>1, <3>1 DEF At
  <2>2. CASE k # "id"
    <3>1. own[k][p] = old
      BY <1>2, <2>2
    <3>2. ASSUME NEW d \in Clients, Between(d, k), call[d].peer = p PROVE FALSE
      <4>1. own[k][p] = call[d].new
        BY <3>2 DEF KindInv, CallInv, CallFacts, Between
      <4> QED
        BY <1>4, <3>1, <3>2, <4>1 DEF Between
    <3> QED
      BY <1>5, <3>1, <3>2 DEF KindInv, IndexInv, At
  <2> QED
    BY <2>1, <2>2
<1>12. AloneInv(k)'
  BY <1>4, <1>8, <1>9, <1>10 DEF KindInv, AloneInv
<1>13. OwnInv(k)'
  BY <1>3 DEF KindInv, OwnInv
<1>14. IndexInv(k)'
  BY <1>3, <1>9, <1>10 DEF KindInv, IndexInv
<1>15. CallInv(k)'
  <2> SUFFICES ASSUME NEW d \in Clients, Runs(d, k)', NEW q, q = call'[d] PROVE CallFacts(k, q)'
    BY DEF CallInv
  <2>1. CallFacts(k, q)
    <3>1. CASE d = c
      BY <1>8, <1>9, <1>11, <3>1 DEF CallFacts
    <3>2. CASE d # c
      BY <1>9, <3>2 DEF KindInv, CallInv
    <3> QED
      BY <3>1, <3>2
  <2> QED
    BY <1>3, <2>1 DEF CallFacts, Unused, At
<1>16. EntryInv(k) => EntryInv(k)'
  BY <1>3, <1>9, <1>10 DEF EntryInv
<1> QED
  BY <1>12, <1>13, <1>14, <1>15, <1>16 DEF KindInv

(* Names are of their kind, whatever is renamed.                           *)
LEMMA TypeStep ==
  ASSUME CentralType, NEW c \in Clients, NEW k \in Kinds, NEW s, s = Resting \/ s \in Renames(k),
         call' = [call EXCEPT ![c] = s],
         index' = index \/ \E now : /\ index' = [index EXCEPT ![k] = now]
                                    /\ DOMAIN now \subseteq Names[k] /\ \A n \in DOMAIN now : now[n] \in Peers,
         own' = own \/ \E p \in Peers, new \in Names[k] : own' = [own EXCEPT ![k][p] = new],
         peerRow' = own',
         entry' = entry \/ \E noted : entry' = [entry EXCEPT ![k] = noted] /\ DOMAIN noted = Links
  PROVE  CentralType'
<1>1. DOMAIN index' = Kinds /\ DOMAIN own' = Kinds /\ DOMAIN entry' = Kinds /\ DOMAIN call' = Clients
  BY DEF CentralType
<1>2. ASSUME NEW j \in Kinds PROVE own'[j] \in [Peers -> Names[j]]
  <2>1. own[j] \in [Peers -> Names[j]]
    BY DEF CentralType
  <2>2. CASE own' = own
    BY <2>1, <2>2
  <2>3. ASSUME NEW p \in Peers, NEW new \in Names[k], own' = [own EXCEPT ![k][p] = new]
        PROVE  own'[j] \in [Peers -> Names[j]]
    <3>1. own'[j] = IF j = k THEN [own[k] EXCEPT ![p] = new] ELSE own[j]
      BY <2>3 DEF CentralType
    <3> QED
      BY <2>1, <3>1
  <2> QED
    BY <2>2, <2>3
<1>3. ASSUME NEW j \in Kinds
      PROVE  DOMAIN index'[j] \subseteq Names[j] /\ \A n \in DOMAIN index'[j] : index'[j][n] \in Peers
  <2>1. DOMAIN index[j] \subseteq Names[j] /\ \A n \in DOMAIN index[j] : index[j][n] \in Peers
    BY DEF CentralType
  <2>2. CASE index' = index
    BY <2>1, <2>2
  <2>3. ASSUME NEW now, index' = [index EXCEPT ![k] = now],
               DOMAIN now \subseteq Names[k], \A n \in DOMAIN now : now[n] \in Peers
        PROVE  DOMAIN index'[j] \subseteq Names[j] /\ \A n \in DOMAIN index'[j] : index'[j][n] \in Peers
    <3>1. index'[j] = IF j = k THEN now ELSE index[j]
      BY <2>3 DEF CentralType
    <3> QED
      BY <2>1, <2>3, <3>1
  <2> QED
    BY <2>2, <2>3
<1>4. ASSUME NEW j \in Kinds PROVE DOMAIN entry'[j] = Links
  BY DEF CentralType
<1>5. ASSUME NEW d \in Clients PROVE call'[d] = Resting \/ \E j \in Kinds : call'[d] \in Renames(j)
  BY DEF CentralType
<1> QED
  BY <1>1, <1>2, <1>3, <1>4, <1>5 DEF CentralType

LEMMA TypeBegin ==
  ASSUME CentralType, NEW c \in Clients, NEW k \in Kinds, NEW id \in Names["id"], NEW new \in Names[k],
         RenameBegin(c, k, id, new)
  PROVE  CentralType'
<1>1. PICK p : p = index["id"][id]
  BY ZenonT(30)
<1>2. PICK old : old = IF k = "id" THEN id ELSE own[k][p]
  BY ZenonT(30)
<1> DEFINE s == [at |-> "check", kind |-> k, peer |-> p, old |-> old, new |-> new, left |-> {}]
<1>3. /\ id \in DOMAIN index["id"]
      /\ call' = [call EXCEPT ![c] = s] /\ index' = index /\ own' = own /\ entry' = entry /\ peerRow' = own'
  BY <1>1, <1>2 DEF RenameBegin, peerExists, getPeer, CentralType
<1>4. p \in Peers
  BY <1>1, <1>3, CentralAssumption DEF CentralType
<1>5. old \in Names[k]
  BY <1>2, <1>4 DEF CentralType
<1>6. s = Resting \/ s \in Renames(k)
  BY <1>4, <1>5 DEF Renames
<1>7. call' = [call EXCEPT ![c] = s]
  BY <1>3
<1>8. index' = index /\ own' = own /\ entry' = entry /\ peerRow' = own'
  BY <1>3
<1> HIDE DEF s
<1> QED
  BY <1>6, <1>7, <1>8, TypeStep

LEMMA TypeGoesOn ==
  ASSUME CentralType, NEW c \in Clients,
         Check(c) \/ Store(c) \/ FindAgain(c) \/ Move(c) \/ UpdatePeer(c) \/ RenameEnd(c)
  PROVE  CentralType'
<1>1. PICK r, k : r = call[c] /\ k = call[c].kind
  BY ZenonT(30)
<1>2. /\ r # Resting /\ k \in Kinds /\ r \in Renames(k) /\ r.peer \in Peers /\ r.old \in Names[k]
      /\ r.new \in Names[k] /\ r.left \in SUBSET Peers /\ r.kind = k
  BY <1>1, CallForm DEF Check, Store, FindAgain, Move, UpdatePeer, RenameEnd, Step
<1>3. /\ \A at \in {"store", "find", "move"} : [r EXCEPT !.at = at] \in Renames(k)
      /\ \A p \in Peers : [r EXCEPT !.at = "move", !.peer = p] \in Renames(k)
      /\ \A told \in SUBSET Peers : /\ [r EXCEPT !.at = "tell", !.left = told] \in Renames(k)
                                    /\ [r EXCEPT !.left = told] \in Renames(k)
  BY <1>2 DEF Renames
<1>4. peerRow = own /\ DOMAIN call = Clients
  BY DEF CentralType
<1>5. Done(c) => call' = [call EXCEPT ![c] = Resting]
  BY DEF Done
<1>6. ASSUME Check(c) PROVE CentralType'
  <2>1. PICK s : call' = [call EXCEPT ![c] = s] /\ (s = Resting \/ s = [r EXCEPT !.at = "store"])
    BY <1>1, <1>4, <1>5, <1>6 DEF Check
  <2>2. s = Resting \/ s \in Renames(k)
    BY <1>3, <2>1
  <2>3. index' = index /\ own' = own /\ entry' = entry /\ peerRow' = own'
    BY <1>4, <1>6 DEF Check
  <2> QED
    BY <1>2, <2>1, <2>2, <2>3, TypeStep
<1>7. ASSUME Store(c) PROVE CentralType'
  <2>1. CASE Done(c) /\ UNCHANGED <<peerRow, own>>
    <3>1. index' = index /\ own' = own /\ entry' = entry /\ peerRow' = own'
      BY <1>4, <1>7, <2>1 DEF Store
    <3> QED
      BY <1>2, <1>5, <2>1, <3>1, TypeStep
  <2>2. CASE /\ peerRow' = [peerRow EXCEPT ![k][r.peer] = r.new]
             /\ own' = [own EXCEPT ![k][r.peer] = r.new]
             /\ call' = [call EXCEPT ![c].at = "find"]
    <3>1. index' = index /\ entry' = entry /\ peerRow' = own'
      BY <1>4, <1>7, <2>2 DEF Store
    <3>2. call' = [call EXCEPT ![c] = [r EXCEPT !.at = "find"]]
      BY <1>1, <1>4, <2>2
    <3>3. [r EXCEPT !.at = "find"] \in Renames(k)
      BY <1>3
    <3> QED
      BY <1>2, <2>2, <3>1, <3>2, <3>3, TypeStep
  <2> QED
    BY <1>1, <1>7, <2>1, <2>2 DEF Store
<1>8. ASSUME FindAgain(c) PROVE CentralType'
  <2>1. index' = index /\ own' = own /\ entry' = entry /\ peerRow' = own'
    BY <1>4, <1>8 DEF FindAgain
  <2>2. CASE Done(c)
    BY <1>2, <1>5, <2>1, <2>2, TypeStep
  <2>3. CASE /\ r.old \in DOMAIN index[k]
             /\ call' = [call EXCEPT ![c].at = "move", ![c].peer = index[k][r.old]]
    <3>1. PICK p : p = index[k][r.old]
      BY ZenonT(30)
    <3>2. p \in Peers
      BY <1>2, <2>3, <3>1 DEF CentralType
    <3>3. call' = [call EXCEPT ![c] = [r EXCEPT !.at = "move", !.peer = p]]
      BY <1>1, <1>4, <2>3, <3>1
    <3>4. [r EXCEPT !.at = "move", !.peer = p] \in Renames(k)
      BY <1>3, <3>2
    <3> QED
      BY <1>2, <2>1, <3>3, <3>4, TypeStep
  <2> QED
    BY <1>1, <1>8, <2>2, <2>3 DEF FindAgain, peerExists, getPeer
<1>9. ASSUME Move(c) PROVE CentralType'
  <2> DEFINE names == (DOMAIN index[k] \ {r.old}) \cup {r.new}
             now == [n \in names |-> IF n = r.new THEN r.peer ELSE index[k][n]]
  <2>1. PICK told : told = {index'["id"][n] : n \in DOMAIN index'["id"]}
    BY ZenonT(30)
  <2>2. index' = [index EXCEPT ![k] = now] /\ own' = own /\ entry' = entry /\ peerRow' = own'
    BY <1>1, <1>4, <1>9 DEF Move
  <2>3. DOMAIN now \subseteq Names[k] /\ \A n \in DOMAIN now : now[n] \in Peers
    BY <1>2 DEF CentralType
  <2> HIDE DEF now
  <2>4. \A n \in DOMAIN index'["id"] : index'["id"][n] \in Peers
    <3>1. \A n \in DOMAIN index["id"] : index["id"][n] \in Peers
      BY CentralAssumption DEF CentralType
    <3>2. index'["id"] = IF k = "id" THEN now ELSE index["id"]
      BY <1>2, <2>2, CentralAssumption DEF CentralType
    <3> QED
      BY <2>3, <3>1, <3>2
  <2>5. told \in SUBSET Peers
    BY <2>1, <2>4
  <2>6. call' = [call EXCEPT ![c] = [r EXCEPT !.at = "tell", !.left = told]]
    BY <1>1, <1>4, <1>9, <2>1 DEF Move
  <2>7. [r EXCEPT !.at = "tell", !.left = told] \in Renames(k)
    BY <1>3, <2>5
  <2> QED
    BY <1>2, <2>2, <2>3, <2>6, <2>7, TypeStep
<1>10. ASSUME UpdatePeer(c) PROVE CentralType'
  <2>1. PICK p : p = CHOOSE q \in r.left : TRUE
    BY ZenonT(30)
  <2> DEFINE noted == [l \in Links |-> IF l[1] = p /\ entry[k][l] = r.old THEN r.new ELSE entry[k][l]]
  <2>2. /\ call' = [call EXCEPT ![c] = [r EXCEPT !.left = r.left \ {p}]]
        /\ entry' = [entry EXCEPT ![k] = noted] /\ DOMAIN noted = Links
    BY <1>1, <1>4, <1>10, <2>1 DEF UpdatePeer
  <2>3. [r EXCEPT !.left = r.left \ {p}] \in Renames(k)
    BY <1>2, <1>3
  <2>4. index' = index /\ own' = own /\ peerRow' = own'
    BY <1>4, <1>10 DEF UpdatePeer
  <2> HIDE DEF noted
  <2> QED
    BY <1>2, <2>2, <2>3, <2>4, TypeStep
<1>11. ASSUME RenameEnd(c) PROVE CentralType'
  <2>1. index' = index /\ own' = own /\ entry' = entry /\ peerRow' = own'
    BY <1>4, <1>11 DEF RenameEnd
  <2>2. call' = [call EXCEPT ![c] = Resting]
    BY <1>5, <1>11 DEF RenameEnd
  <2> QED
    BY <1>2, <2>1, <2>2, TypeStep
<1> QED
  BY <1>6, <1>7, <1>8, <1>9, <1>10, <1>11

(* A step of a rename of one kind leaves the other kinds alone.            *)
LEMMA OthersRest ==
  ASSUME CentralType, NEW c \in Clients, NEW j \in Kinds, NEW k \in Kinds, k # j, KindInv(k),
         \/ /\ call[c].kind = j /\ call[c] # Resting
            /\ Check(c) \/ Store(c) \/ FindAgain(c) \/ Move(c) \/ UpdatePeer(c) \/ RenameEnd(c)
         \/ \E id \in Names["id"], new \in Names[j] : RenameBegin(c, j, id, new)
  PROVE  KindInv(k)' /\ (EntryInv(k) => EntryInv(k)')
<1>1. index'[k] = index[k]
  BY DEF Check, Store, FindAgain, Move, UpdatePeer, RenameEnd, RenameBegin, CentralType
<1>2. own'[k] = own[k]
  BY DEF Check, Store, FindAgain, Move, UpdatePeer, RenameEnd, RenameBegin, CentralType
<1>3. entry'[k] = entry[k]
  BY DEF Check, Store, FindAgain, Move, UpdatePeer, RenameEnd, RenameBegin, CentralType
<1>4. ~Runs(c, k)
  BY DEF Runs, RenameBegin
<1>5. ~Runs(c, k)' /\ \A d \in Clients : d # c => call'[d] = call[d]
  <2>0. DOMAIN call = Clients
    BY DEF CentralType
  <2>1. ASSUME NEW id, NEW new, RenameBegin(c, j, id, new)
        PROVE  ~Runs(c, k)' /\ \A d \in Clients : d # c => call'[d] = call[d]
    BY <2>0, <2>1 DEF RenameBegin, Runs
  <2>2. ASSUME call[c].kind = j, call[c] # Resting, Done(c)
        PROVE  ~Runs(c, k)' /\ \A d \in Clients : d # c => call'[d] = call[d]
    BY <2>0, <2>2 DEF Done, Runs
  <2>3. ASSUME call[c].kind = j, call[c] # Resting,
               Check(c) \/ Store(c) \/ FindAgain(c) \/ Move(c) \/ UpdatePeer(c), ~Done(c)
        PROVE  ~Runs(c, k)' /\ \A d \in Clients : d # c => call'[d] = call[d]
    <3>1. call[c] \in Renames(j)
      BY <2>3, CallForm
    <3>2. "kind" \in DOMAIN call[c]
      BY <3>1 DEF Renames
    <3>3. call'[c].kind = j
      BY <2>0, <2>3, <3>2 DEF Check, Store, FindAgain, Move, UpdatePeer
    <3>4. \A d \in Clients : d # c => call'[d] = call[d]
      BY <2>0, <2>3 DEF Check, Store, FindAgain, Move, UpdatePeer
    <3> QED
      BY <3>3, <3>4 DEF Runs
  <2> QED
    BY <2>1, <2>2, <2>3 DEF RenameEnd
<1>6. \A d \in Clients : (Runs(d, k)' <=> Runs(d, k)) /\ (Runs(d, k) => call'[d] = call[d])
  BY <1>4, <1>5 DEF Runs
<1> QED
  BY <1>1, <1>2, <1>3, <1>6, OtherKind

LEMMA CentralStep == CentralInv /\ CentralNext => CentralInv'
<1> SUFFICES ASSUME CentralInv, CentralNext PROVE CentralInv'
  OBVIOUS
<1>0. CentralType
  BY DEF CentralInv
<1>1. ASSUME NEW c \in Clients, NEW j \in Kinds, NEW id \in Names["id"], NEW new \in Names[j],
             RenameBegin(c, j, id, new)
      PROVE  CentralInv'
  <2>1. CentralType'
    BY <1>0, <1>1, TypeBegin
  <2>2. overlapped \subseteq overlapped'
    BY <1>1 DEF RenameBegin
  <2>3. ASSUME NEW k \in Kinds \ overlapped' PROVE KindInv(k)' /\ (EntryInv(k) => EntryInv(k)')
    <3>1. KindInv(k)
      BY <2>2 DEF CentralInv
    <3>2. CASE k = j
      BY <1>0, <1>1, <3>1, <3>2, BeginStep
    <3>3. CASE k # j
      BY <1>0, <1>1, <3>1, <3>3, OthersRest
    <3> QED
      BY <3>2, <3>3
  <2>4. \A k \in Kinds \ overlapped' : "id" \notin overlapped' => EntryInv(k)
    BY <2>2 DEF CentralInv
  <2> QED
    BY <2>1, <2>3, <2>4 DEF CentralInv
<1>2. ASSUME NEW c \in Clients,
             Check(c) \/ Store(c) \/ FindAgain(c) \/ Move(c) \/ UpdatePeer(c) \/ RenameEnd(c)
      PROVE  CentralInv'
  <2>1. CentralType'
    BY <1>0, <1>2, TypeGoesOn
  <2>2. overlapped' = overlapped
    <3>1. Check(c) \/ Store(c) => overlapped' = overlapped
      BY DEF Check, Store
    <3>2. FindAgain(c) \/ Move(c) => overlapped' = overlapped
      BY DEF FindAgain, Move
    <3>3. UpdatePeer(c) \/ RenameEnd(c) => overlapped' = overlapped
      BY DEF UpdatePeer, RenameEnd
    <3> QED
      BY <1>2, <3>1, <3>2, <3>3
  <2>3. PICK j : j = call[c].kind
    BY ZenonT(30)
  <2>4. call[c] # Resting /\ j \in Kinds
    BY <1>0, <1>2, <2>3, CallForm DEF Check, Store, FindAgain, Move, UpdatePeer, RenameEnd, Step
  <2>5. PICK id : id = "id"
    BY ZenonT(30)
  <2>6. ASSUME NEW k \in Kinds \ overlapped
        PROVE  KindInv(k)' /\ (KindInv(id) /\ EntryInv(k) => EntryInv(k)')
    <3>1. KindInv(k) /\ id \in Kinds
      BY <2>5, CentralAssumption DEF CentralInv
    <3>2. CASE k = j
      <4>1. Check(c) \/ Store(c) \/ FindAgain(c) => KindInv(k)' /\ (EntryInv(k) => EntryInv(k)')
        BY <1>0, <2>3, <3>1, <3>2, CheckStep, StoreStep, FindStep
      <4>2. UpdatePeer(c) \/ RenameEnd(c) => KindInv(k)' /\ (EntryInv(k) => EntryInv(k)')
        BY <1>0, <2>3, <3>1, <3>2, TellStep, EndStep
      <4>3. Move(c) => KindInv(k)' /\ (KindInv(id) /\ EntryInv(k) => EntryInv(k)')
        BY <1>0, <2>3, <2>5, <3>1, <3>2, MoveStep
      <4> QED
        BY <1>2, <4>1, <4>2, <4>3
    <3>3. CASE k # j
      BY <1>0, <1>2, <2>3, <2>4, <3>1, <3>3, OthersRest
    <3> QED
      BY <3>2, <3>3
  <2>7. id \notin overlapped => KindInv(id) /\ \A k \in Kinds \ overlapped : EntryInv(k)
    BY <2>5, CentralAssumption DEF CentralInv
  <2> QED
    BY <2>1, <2>2, <2>5, <2>6, <2>7 DEF CentralInv
<1> QED
  BY <1>1, <1>2 DEF CentralNext

LEMMA InitCentral == Init => CentralInv
<1> SUFFICES ASSUME Init PROVE CentralInv
  OBVIOUS
<1>1. /\ index = [k \in Kinds |-> [n \in {FirstName[k][p] : p \in Peers} |->
                                     CHOOSE p \in Peers : FirstName[k][p] = n]]
      /\ own = FirstName /\ peerRow = FirstName
      /\ entry = [k \in Kinds |-> [l \in Links |-> FirstName[k][l[2]]]]
      /\ call = [c \in Clients |-> Resting] /\ overlapped = {}
  BY DEF Init, CentralInit
<1>2. ASSUME NEW k \in Kinds
      PROVE  /\ FirstName[k] \in [Peers -> Names[k]]
             /\ DOMAIN index[k] = {FirstName[k][p] : p \in Peers}
             /\ \A p \in Peers : index[k][FirstName[k][p]] = p
  <2>1. /\ FirstName[k] \in [Peers -> Names[k]]
        /\ \A p, q \in Peers : FirstName[k][p] = FirstName[k][q] => p = q
    BY CentralAssumption
  <2>2. DOMAIN index[k] = {FirstName[k][p] : p \in Peers}
    BY <1>1
  <2>3. ASSUME NEW p \in Peers PROVE index[k][FirstName[k][p]] = p
    <3>1. index[k][FirstName[k][p]] = CHOOSE q \in Peers : FirstName[k][q] = FirstName[k][p]
      BY <1>1
    <3> QED
      BY <2>1, <3>1
  <2> QED
    BY <2>1, <2>2, <2>3
<1>3. CentralType
  <2>1. DOMAIN index = Kinds /\ DOMAIN entry = Kinds /\ DOMAIN call = Clients
        /\ DOMAIN own = Kinds /\ peerRow = own
    BY <1>1, CentralAssumption
  <2>2. ASSUME NEW k \in Kinds
        PROVE  /\ own[k] \in [Peers -> Names[k]]
               /\ DOMAIN index[k] \subseteq Names[k] /\ \A n \in DOMAIN index[k] : index[k][n] \in Peers
               /\ DOMAIN entry[k] = Links
    <3>1. own[k] \in [Peers -> Names[k]] /\ DOMAIN entry[k] = Links
      BY <1>1, <1>2
    <3>2. \A n \in DOMAIN index[k] : n \in Names[k] /\ index[k][n] \in Peers
      BY <1>2
    <3> QED
      BY <3>1, <3>2
  <2> QED
    BY <1>1, <2>1, <2>2 DEF CentralType
<1>4. ASSUME NEW k \in Kinds PROVE KindInv(k) /\ EntryInv(k)
  <2>1. \A c \in Clients : ~Runs(c, k)
    BY <1>1 DEF Runs
  <2>2. AloneInv(k) /\ CallInv(k)
    BY <2>1 DEF AloneInv, CallInv
  <2>3. OwnInv(k)
    BY <1>1, CentralAssumption DEF OwnInv
  <2>4. IndexInv(k)
    BY <1>1, <1>2 DEF IndexInv
  <2>5. EntryInv(k)
    BY <1>1 DEF EntryInv
  <2> QED
    BY <2>2, <2>3, <2>4, <2>5 DEF KindInv
<1> QED
  BY <1>3, <1>4 DEF CentralInv

LEMMA StepCentral == CentralInv /\ [Next]_vars => CentralInv'
<1> SUFFICES ASSUME CentralInv, [Next]_vars PROVE CentralInv'
  OBVIOUS
<1>1. ASSUME UNCHANGED centralVars PROVE CentralInv'
  <2>1. index' = index /\ own' = own /\ peerRow' = peerRow /\ entry' = entry /\ call' = call /\ overlapped' = overlapped
    BY <1>1 DEF centralVars
  <2> QED
    BY <2>1 DEF CentralInv, CentralType, KindInv, AloneInv, OwnInv, IndexInv, CallInv, CallFacts, EntryInv,
                Runs, Between, Unused, At
<1> QED
  BY <1>1, CentralStep DEF Next, AclsNext, PlacementNext, vars

(* Peers and names correspond one to one, once nobody renames.             *)
LEMMA AsManyNames ==
  ASSUME NEW k \in Kinds, CentralType, OwnInv(k),
         \A p \in Peers : own[k][p] \in DOMAIN index[k] /\ index[k][own[k][p]] = p,
         \A n \in DOMAIN index[k] : own[k][index[k][n]] = n
  PROVE  Cardinality(DOMAIN index[k]) = Cardinality(Peers)
<1>1. DOMAIN own[k] = Peers /\ \A n \in DOMAIN index[k] : index[k][n] \in Peers
  BY DEF CentralType
<1> DEFINE N == DOMAIN index[k]
           f == [p \in Peers |-> own[k][p]]
<1>2. f \in Bijection(Peers, N)
  <2>1. f \in [Peers -> N]
    OBVIOUS
  <2>2. \A p, q \in Peers : f[p] = f[q] => p = q
    BY DEF OwnInv
  <2>3. \A n \in N : \E p \in Peers : f[p] = n
    BY <1>1
  <2> QED
    BY <2>1, <2>2, <2>3 DEF Bijection, Injection, Surjection, IsInjective
<1>3. ExistsBijection(Peers, N)
  BY <1>2 DEF ExistsBijection
<1> HIDE DEF N, f
<1>4. IsFiniteSet(Peers)
  BY CentralAssumption
<1>5. Cardinality(Peers) = Cardinality(N)
  BY <1>3, <1>4, FS_Bijection
<1> QED
  BY <1>5 DEF N

(* A peer has one name of each kind, is found by it, and rows and partners *)
(* have the same, whatever clients rename at a time, as long as no two of  *)
(* them share a name.                                                      *)
THEOREM NamesAgreeCorrect == Spec => []NamesAgree
<1>1. CentralInv => NamesAgree
  <2> SUFFICES ASSUME CentralInv, NEW k \in Kinds \ overlapped
               PROVE  /\ \A p \in Peers : \E n \in DOMAIN index[k] : index[k][n] = p
                      /\ (\A c \in Clients : call[c] = Resting) =>
                           /\ \A p \in Peers : own[k][p] \in DOMAIN index[k] /\ index[k][own[k][p]] = p
                           /\ Cardinality(DOMAIN index[k]) = Cardinality(Peers)
                           /\ peerRow[k] = own[k]
                           /\ "id" \in overlapped \/ \A l \in Links : entry[k][l] = own[k][l[2]]
    BY DEF NamesAgree
  <2>1. CentralType /\ KindInv(k) /\ ("id" \notin overlapped => EntryInv(k))
    BY DEF CentralInv
  <2>2. \A p \in Peers : \E n \in DOMAIN index[k] : index[k][n] = p
    BY <2>1, Found
  <2>3. ASSUME \A c \in Clients : call[c] = Resting
        PROVE  /\ \A p \in Peers : own[k][p] \in DOMAIN index[k] /\ index[k][own[k][p]] = p
               /\ Cardinality(DOMAIN index[k]) = Cardinality(Peers)
               /\ peerRow[k] = own[k]
               /\ "id" \in overlapped \/ \A l \in Links : entry[k][l] = own[k][l[2]]
    <3>1. \A c \in Clients : ~Runs(c, k) /\ ~Between(c, k)
      BY <2>3 DEF Runs, Between
    <3>2. /\ \A p \in Peers : own[k][p] \in DOMAIN index[k] /\ index[k][own[k][p]] = p
          /\ \A n \in DOMAIN index[k] : own[k][index[k][n]] = n
      BY <2>1, <3>1 DEF KindInv, IndexInv
    <3>3. Cardinality(DOMAIN index[k]) = Cardinality(Peers)
      BY <2>1, <3>2, AsManyNames DEF KindInv
    <3>4. peerRow[k] = own[k]
      BY <2>1 DEF CentralType
    <3>5. "id" \notin overlapped => \A l \in Links : entry[k][l] = own[k][l[2]]
      BY <2>1, <3>1 DEF EntryInv
    <3> QED
      BY <3>2, <3>3, <3>4, <3>5
  <2> QED
    BY <2>2, <2>3
<1> QED
  BY InitCentral, StepCentral, <1>1, PTL DEF Spec

-----------------------------------------------------------------------------
(* Decisions.  They only see places that are not 0.                        *)
LEMMA PlacedSame ==
  ASSUME NEW acl, NEW list, NEW s, NEW t, s \ {0} = t \ {0}
  PROVE  Placed(acl, list, s) = Placed(acl, list, t)
<1>1. s \subseteq {0} <=> t \subseteq {0}
  OBVIOUS
<1>2. (IF s \subseteq {0} THEN {0} ELSE s \ {0}) = (IF t \subseteq {0} THEN {0} ELSE t \ {0})
  BY <1>1
<1> HIDE DEF Opinion
<1> QED
  BY <1>2 DEF Placed

SameDevice(peer, other) ==
  /\ peer # NoPeer /\ other # NoPeer /\ peer.id = other.id
  /\ peer.rooms \ {0} = other.rooms \ {0} /\ peer.parts \ {0} = other.parts \ {0} /\ peer.cats = other.cats

LEMMA DeviceSame ==
  ASSUME NEW acl, NEW dir, NEW peer, NEW other, SameDevice(peer, other)
  PROVE  checkDeviceAccess(acl, dir, peer) = checkDeviceAccess(acl, dir, other)
<1>1. \A list : /\ Placed(acl, list, peer.rooms) = Placed(acl, list, other.rooms)
                /\ Placed(acl, list, peer.parts) = Placed(acl, list, other.parts)
                /\ Placed(acl, list, peer.cats) = Placed(acl, list, other.cats)
                /\ First(acl, list, peer.id, 0) = First(acl, list, other.id, 0)
  BY PlacedSame DEF SameDevice
<1>2. peer # NoPeer /\ other # NoPeer
  BY DEF SameDevice
<1> QED
  BY <1>1, <1>2 DEF checkDeviceAccess

LEMMA VariableSame ==
  ASSUME NEW acl, NEW dir, NEW peer, NEW other, SameDevice(peer, other), NEW channel, NEW name,
         Placement(peer, channel, name) = Placement(other, channel, name)
  PROVE  checkVariableAccess(acl, dir, peer, channel, name) = checkVariableAccess(acl, dir, other, channel, name)
<1>1. VariableAspects(acl, dir, peer, channel, name) = VariableAspects(acl, dir, other, channel, name)
  BY DEF VariableAspects, SameDevice
<1>2. peer # NoPeer /\ other # NoPeer
  BY DEF SameDevice
<1> QED
  BY <1>1, <1>2, DeviceSame DEF checkVariableAccess

(* What the checks see after a restart.                                    *)
LEMMA ViewTyped ==
  ASSUME NEW id \in Names["id"], NEW place, Shape(place), ChannelsType(place), VarsType(place)
  PROVE  ViewOf(id, place) \in Views
<1>1. /\ ValuesOf(place.rooms) \in SUBSET ({0} \cup Rooms) /\ ValuesOf(place.parts) \in SUBSET ({0} \cup Parts)
      /\ UNION ValuesOf(place.cats) \in SUBSET Cats
  BY DEF ChannelsType
<1>2. [v \in Vars |-> [room |-> place.vars[v].room, part |-> place.vars[v].part,
                       cats |-> place.vars[v].cats, roles |-> DOMAIN place.vars[v].roles]]
      \in [Vars -> [room : {0} \cup Rooms, part : {0} \cup Parts, cats : SUBSET Cats, roles : SUBSET Roles]]
  BY DEF VarsType
<1> QED
  BY <1>1, <1>2 DEF ViewOf, Views

LEMMA LoadedForms ==
  ASSUME PlacementInv
  PROVE  /\ Shape(Loaded(db)) /\ ChannelsType(Loaded(db)) /\ VarsType(Loaded(db))
         /\ Loaded(db).rooms = NonZero(db.rooms) /\ Loaded(db).parts = NonZero(db.parts)
         /\ Loaded(db).cats = db.cats
         /\ \A v \in Vars :
              /\ Loaded(db).vars[v].room = db.vars[v].room /\ Loaded(db).vars[v].part = db.vars[v].part
              /\ Loaded(db).vars[v].cats = db.vars[v].cats
              /\ DOMAIN Loaded(db).vars[v].roles =
                   IF DOMAIN db.vars[v].roles = {} THEN Described[v] ELSE DOMAIN db.vars[v].roles
<1>0. /\ DOMAIN db = {"rooms", "parts", "cats", "vars"} /\ DOMAIN db.vars = Vars
      /\ \A v \in Vars : DOMAIN db.vars[v] = {"room", "part", "cats", "roles"}
      /\ VarsType(db) /\ ChannelsType(db)
  BY DEF PlacementInv, PlacementType, Shape
<1> DEFINE now == [v \in Vars |-> IF DOMAIN db.vars[v].roles = {}
                                  THEN [db.vars[v] EXCEPT !.roles = DescribedRoles(v)] ELSE db.vars[v]]
<1>1. PICK place : place = Loaded(db)
  BY ZenonT(30)
<1>2. place = [db EXCEPT !.rooms = NonZero(@), !.parts = NonZero(@), !.vars = now]
  BY <1>0, <1>1 DEF Loaded
<1>3. /\ place.rooms = NonZero(db.rooms) /\ place.parts = NonZero(db.parts) /\ place.cats = db.cats
      /\ place.vars = now /\ DOMAIN place = DOMAIN db
  BY <1>0, <1>2
<1>4. /\ DOMAIN now = Vars
      /\ \A v \in Vars :
           /\ DOMAIN now[v] = {"room", "part", "cats", "roles"}
           /\ now[v].room = db.vars[v].room /\ now[v].part = db.vars[v].part /\ now[v].cats = db.vars[v].cats
           /\ now[v].roles = IF DOMAIN db.vars[v].roles = {} THEN DescribedRoles(v) ELSE db.vars[v].roles
  BY <1>0
<1> HIDE DEF now
<1>5. \A v \in Vars : /\ DOMAIN now[v].roles = IF DOMAIN db.vars[v].roles = {} THEN Described[v]
                                                                               ELSE DOMAIN db.vars[v].roles
                      /\ DOMAIN now[v].roles \subseteq Roles
  BY <1>0, <1>4, DescribedDomain DEF VarsType
<1>6. Shape(place)
  BY <1>0, <1>3, <1>4 DEF Shape
<1>7. ChannelsType(place)
  BY <1>0, <1>3, NonZeroValues DEF ChannelsType
<1>8. VarsType(place)
  BY <1>0, <1>3, <1>4, <1>5 DEF VarsType
<1> QED
  BY <1>1, <1>3, <1>4, <1>5, <1>6, <1>7, <1>8

LEMMA ViewsSame ==
  ASSUME PlacementInv, CentralType
  PROVE  SameDevice(View, ViewAfterRestart)
<1>1. PICK id : id = own["id"][ThePeer]
  BY ZenonT(30)
<1>2. id \in Names["id"] /\ peerRow["id"][ThePeer] = id
  BY <1>1, CentralAssumption, RightsAssumption DEF CentralType
<1>3. View = ViewOf(id, mem) /\ ViewAfterRestart = ViewOf(id, Loaded(db))
  BY <1>1, <1>2 DEF View, ViewAfterRestart, IdOf
<1>4. View # NoPeer /\ ViewAfterRestart # NoPeer
  <2>1. View \in Views
    BY <1>2, <1>3, ViewTyped DEF PlacementInv, PlacementType
  <2>2. ViewAfterRestart \in Views
    BY <1>2, <1>3, ViewTyped, LoadedForms
  <2> QED
    BY <2>1, <2>2, RightsAssumption
<1>5. \A place : /\ ViewOf(id, place).id = id /\ ViewOf(id, place).rooms = ValuesOf(place.rooms)
                 /\ ViewOf(id, place).parts = ValuesOf(place.parts)
                 /\ ViewOf(id, place).cats = UNION ValuesOf(place.cats)
  BY DEF ViewOf
<1>6. /\ Loaded(db).rooms = NonZero(db.rooms) /\ Loaded(db).parts = NonZero(db.parts) /\ Loaded(db).cats = db.cats
  BY LoadedForms
<1>7. ValuesOf(mem.rooms) \ {0} = ValuesOf(Loaded(db).rooms) \ {0}
  BY <1>6, NonZeroValues DEF PlacementInv, ChannelsInv
<1>8. ValuesOf(mem.parts) \ {0} = ValuesOf(Loaded(db).parts) \ {0}
  BY <1>6, NonZeroValues DEF PlacementInv, ChannelsInv
<1>9. mem.cats = Loaded(db).cats
  BY <1>6 DEF PlacementInv, ChannelsInv
<1> QED
  BY <1>3, <1>4, <1>5, <1>7, <1>8, <1>9 DEF SameDevice

LEMMA PlacementsSame ==
  ASSUME PlacementInv, CentralType, \A c \in Callers : job[c] = Idle, NEW v \in Vars, ~Suspect(v)
  PROVE  Placement(View, v[1], v[2]) = Placement(ViewAfterRestart, v[1], v[2])
<1>1. PICK id, row_ : id = own["id"][ThePeer] /\ row_ = peerRow["id"][ThePeer]
  BY ZenonT(30)
<1>2. View = ViewOf(id, mem) /\ ViewAfterRestart = ViewOf(row_, Loaded(db))
  BY <1>1 DEF View, ViewAfterRestart, IdOf
<1> DEFINE seen(place) == [room |-> place.vars[v].room, part |-> place.vars[v].part,
                           cats |-> place.vars[v].cats, roles |-> DOMAIN place.vars[v].roles]
<1>3. <<v[1], v[2]>> = v
  BY PlacementAssumption
<1>4. \A name, place : /\ DOMAIN ViewOf(name, place).vars = Vars
                       /\ ViewOf(name, place).vars[v] = seen(place)
  BY DEF ViewOf
<1> HIDE DEF seen
<1>5. \A name, place : Placement(ViewOf(name, place), v[1], v[2]) = seen(place)
  BY <1>3, <1>4 DEF Placement
<1>6. \A c \in Callers : \A f : ~Sends(c, v, f)
  BY DEF Sends
<1>7. VarInv(v) /\ <<v, "room">> \notin stale /\ <<v, "part">> \notin stale
  BY DEF PlacementInv, Suspect
<1>8. /\ mem.vars[v].room = db.vars[v].room /\ mem.vars[v].part = db.vars[v].part
      /\ mem.vars[v].cats = db.vars[v].cats /\ DOMAIN mem.vars[v].roles = DOMAIN db.vars[v].roles
  BY <1>6, <1>7 DEF VarInv, FieldInv
<1>9. DOMAIN mem.vars[v].roles # {} \/ Described[v] = {}
  BY DEF Suspect
<1>10. seen(mem) = seen(Loaded(db))
  BY <1>8, <1>9, LoadedForms DEF seen
<1> QED
  BY <1>2, <1>5, <1>10

(* The decisions about the peer and its variables are those after a        *)
(* restart, wherever and by however many callers they were placed.         *)
THEOREM DecisionsSurviveRestartCorrect == Spec => []DecisionsSurviveRestart
<1>1. PlacementInv /\ CentralInv => DecisionsSurviveRestart
  <2> SUFFICES ASSUME PlacementInv, CentralType, Quiet, NEW dir \in Dirs
               PROVE  /\ deviceAccess(dir, View) = deviceAccess(dir, ViewAfterRestart)
                      /\ \A v \in Vars : Suspect(v) \/
                           variableAccess(dir, View, v[1], v[2]) = variableAccess(dir, ViewAfterRestart, v[1], v[2])
    BY DEF DecisionsSurviveRestart, CentralInv
  <2>1. PICK now, after : now = View /\ after = ViewAfterRestart
    BY ZenonT(30)
  <2>2. SameDevice(now, after) /\ now # NoPeer /\ after # NoPeer
    BY <2>1, ViewsSame DEF SameDevice
  <2>3. deviceAccess(dir, now) = deviceAccess(dir, after)
    <3>1. {checkDeviceAccess(acls[i], dir, now) : i \in DOMAIN acls}
          = {checkDeviceAccess(acls[i], dir, after) : i \in DOMAIN acls}
      BY <2>2, DeviceSame
    <3> QED
      BY <2>2, <3>1 DEF deviceAccess, Granted
  <2>4. ASSUME NEW v \in Vars, ~Suspect(v)
        PROVE  variableAccess(dir, now, v[1], v[2]) = variableAccess(dir, after, v[1], v[2])
    <3>1. Placement(now, v[1], v[2]) = Placement(after, v[1], v[2])
      BY <2>1, <2>4, PlacementsSame DEF Quiet
    <3>2. {checkVariableAccess(acls[i], dir, now, v[1], v[2]) : i \in DOMAIN acls}
          = {checkVariableAccess(acls[i], dir, after, v[1], v[2]) : i \in DOMAIN acls}
      BY <2>2, <3>1, VariableSame
    <3> QED
      BY <2>2, <3>2 DEF variableAccess, Granted
  <2> QED
    BY <2>1, <2>3, <2>4
<1> QED
  BY InitPlacement, StepPlacement, InitCentral, StepCentral, <1>1, PTL DEF Spec

-----------------------------------------------------------------------------
(* Reading.  At rest every peer is found by its names.                     *)
AtRest ==
  /\ getPeers = Peers /\ ThePeer \in Peers
  /\ \A k \in {"id", "serial"} :
       /\ \A p \in Peers : peerExists(k, own[k][p]) /\ getPeer(k, own[k][p]) = p
       /\ \A p, q \in Peers : own[k][p] = own[k][q] => p = q
       /\ \A l \in Links : entry[k][l] = own[k][l[2]]

LEMMA RestNames ==
  ASSUME CentralInv, \A c \in Clients : call[c] = Resting, overlapped = {}, NEW k \in Kinds
  PROVE  /\ \A p \in Peers : peerExists(k, own[k][p]) /\ getPeer(k, own[k][p]) = p
         /\ \A n \in DOMAIN index[k] : index[k][n] \in Peers
         /\ \A p, q \in Peers : own[k][p] = own[k][q] => p = q
         /\ \A l \in Links : entry[k][l] = own[k][l[2]]
<1>1. KindInv(k) /\ EntryInv(k) /\ CentralType
  BY DEF CentralInv
<1>2. \A c \in Clients : ~Runs(c, k) /\ ~Between(c, k)
  BY DEF Runs, Between
<1>3. \A p \in Peers : own[k][p] \in DOMAIN index[k] /\ index[k][own[k][p]] = p
  BY <1>1, <1>2 DEF KindInv, IndexInv
<1>4. \A p \in Peers : peerExists(k, own[k][p]) /\ getPeer(k, own[k][p]) = p
  BY <1>3 DEF peerExists, getPeer
<1>5. \A p, q \in Peers : own[k][p] = own[k][q] => p = q
  BY <1>1 DEF KindInv, OwnInv
<1>6. \A l \in Links : entry[k][l] = own[k][l[2]]
  BY <1>1, <1>2 DEF EntryInv
<1>7. \A n \in DOMAIN index[k] : index[k][n] \in Peers
  BY <1>1 DEF CentralType
<1> QED
  BY <1>4, <1>5, <1>6, <1>7

LEMMA ComesToRest == CentralInv /\ Quiet /\ overlapped = {} => AtRest
<1> SUFFICES ASSUME CentralInv, Quiet, overlapped = {} PROVE AtRest
  OBVIOUS
<1>1. \A c \in Clients : call[c] = Resting
  BY DEF Quiet
<1>2. \A k \in {"id", "serial"} : k \in Kinds
  BY CentralAssumption
<1>3. getPeers = Peers
  <2>1. PICK k : k = "id"
    BY ZenonT(30)
  <2>2. /\ \A p \in Peers : peerExists(k, own[k][p]) /\ getPeer(k, own[k][p]) = p
        /\ \A n \in DOMAIN index[k] : index[k][n] \in Peers
    BY <1>1, <1>2, <2>1, RestNames
  <2>3. \A p \in Peers : \E n \in DOMAIN index[k] : index[k][n] = p
    BY <2>2 DEF peerExists, getPeer
  <2> QED
    BY <2>1, <2>2, <2>3 DEF getPeers
<1>4. ThePeer \in Peers
  BY RightsAssumption
<1> QED
  BY <1>1, <1>2, <1>3, <1>4, RestNames DEF AtRest

LEMMA IfMembers ==
  ASSUME NEW condition, NEW members
  PROVE  /\ condition => If(condition, members) = members
         /\ ~condition => DOMAIN If(condition, members) = {}
  BY DEF If

(* The peer is asked by its names.                                         *)
LEMMA OneAnswers ==
  ASSUME AtRest, NEW kind \in {"id", "serial"}, NEW answer
  PROVE  AskOne(kind, own[kind][ThePeer], answer) = answer
<1>1. peerExists(kind, own[kind][ThePeer]) /\ getPeer(kind, own[kind][ThePeer]) = ThePeer
  BY DEF AtRest
<1> QED
  BY <1>1 DEF AskOne

LEMMA AllAnswer ==
  ASSUME AtRest, NEW checkAcls, NEW answer
  PROVE  /\ IdOf(ThePeer) \in DOMAIN AskAll(checkAcls, answer) <=> ThePeer \in Asked(checkAcls)
         /\ ThePeer \in Asked(checkAcls) => AskAll(checkAcls, answer)[IdOf(ThePeer)] = answer
<1>1. Asked(checkAcls) \subseteq Peers
  BY DEF Asked, AtRest
<1>2. \A p \in Peers : IdOf(p) = IdOf(ThePeer) => p = ThePeer
  BY DEF AtRest, IdOf
<1>3. IdOf(ThePeer) \in {IdOf(p) : p \in Asked(checkAcls)} <=> ThePeer \in Asked(checkAcls)
  BY <1>1, <1>2
<1> HIDE DEF IdOf, Asked
<1> QED
  BY <1>3 DEF AskAll

LEMMA AllAsked == ASSUME AtRest PROVE Asked(FALSE) = Peers
  BY DEF AtRest, Asked

(* What a variable description may have.                                   *)
LEMMA BoundsMembers == ASSUME NEW p PROVE DOMAIN Bounds(p) \subseteq {"MIN", "MAX", "SPECIAL"}
<1>1. DOMAIN If(p.type \in {"INTEGER", "INTEGER64", "ENUM", "FLOAT"}, [MIN |-> p.minimum, MAX |-> p.maximum])
      \subseteq {"MIN", "MAX"}
  BY DEF If
<1>2. DOMAIN If(p.type # "ENUM" /\ p.specialValues # {}, [SPECIAL |-> p.specialValues]) \subseteq {"SPECIAL"}
  BY DEF If
<1> HIDE DEF If
<1> QED
  BY <1>1, <1>2 DEF Bounds, ++

LEMMA PlacementMembers ==
  ASSUME NEW v
  PROVE  DOMAIN PlacementOf(v) \subseteq {"ROOM", "CATEGORIES", "BUILDING_PART", "ROLES"}
<1>1. PICK place : place = mem.vars[v]
  BY ZenonT(30)
<1>2. /\ DOMAIN If(place.room # 0, [ROOM |-> place.room]) \subseteq {"ROOM"}
      /\ DOMAIN If(place.cats # {}, [CATEGORIES |-> place.cats]) \subseteq {"CATEGORIES"}
      /\ DOMAIN If(place.part # 0, [BUILDING_PART |-> place.part]) \subseteq {"BUILDING_PART"}
      /\ DOMAIN If(DOMAIN place.roles # {}, [ROLES |-> RoleList(v)]) \subseteq {"ROLES"}
  BY DEF If
<1> HIDE DEF If
<1> QED
  BY <1>1, <1>2 DEF PlacementOf, RoomAndCategories, ++

(* Whether a description fails.                                            *)
LEMMA DescriptionForm ==
  ASSUME NEW client, NEW p, NEW placement,
         DOMAIN placement \subseteq {"ROOM", "CATEGORIES", "BUILDING_PART", "ROLES"}
  PROVE  LET d == VariableDescription(client, p, placement)
             shown == Has(p, "visible") /\ ForCcu2(client, p) /\ Supported(client, p)
         IN  /\ ~Failed(d) <=> shown
             /\ shown => d = Bounds(p) ++ [TYPE |-> p.type, OPERATIONS |-> Operations(p)] ++ placement
<1>1. PICK d : d = VariableDescription(client, p, placement)
  BY ZenonT(30)
<1>2. CASE Has(p, "visible") /\ ForCcu2(client, p) /\ Supported(client, p)
  <2>1. d = Bounds(p) ++ [TYPE |-> p.type, OPERATIONS |-> Operations(p)] ++ placement
    BY <1>1, <1>2 DEF VariableDescription
  <2>2. "error" \notin DOMAIN (Bounds(p) ++ [TYPE |-> p.type, OPERATIONS |-> Operations(p)])
    BY BoundsMembers DEF ++
  <2>3. "error" \notin DOMAIN d
    BY <2>1, <2>2 DEF ++
  <2> QED
    BY <1>1, <1>2, <2>1, <2>3 DEF Failed
<1>3. CASE ~(Has(p, "visible") /\ ForCcu2(client, p) /\ Supported(client, p))
  <2>1. d = Error(-5)
    BY <1>1, <1>3 DEF VariableDescription
  <2>2. Failed(d)
    BY <2>1 DEF Error, Failed
  <2> QED
    BY <1>1, <1>3, <2>2
<1> QED
  BY <1>2, <1>3

(* The descriptions and values of a channel, one name at a time.           *)
LEMMA ConfigDescribed ==
  ASSUME NEW client, NEW c \in DOMAIN Functions, NEW d,
         d = getParamsetDescription(client, c, "config", FALSE)
  PROVE  /\ \A name \in DOMAIN d :
              LET k == <<c, name>>
              IN  /\ k \in DOMAIN ConfigOf /\ Offered(ConfigOf[k], Functions[c].config)
                  /\ ~Failed(VariableDescription(client, ConfigOf[k], <<>>))
                  /\ d[name] = VariableDescription(client, ConfigOf[k], <<>>)
<1> DEFINE inUse == {k \in ConfigsOf(c) : Offered(ConfigOf[k], Functions[c].config)}
           described(k) == VariableDescription(client, ConfigOf[k], <<>>)
           names == {k[2] : k \in {k \in inUse : ~Failed(described(k))}}
<1>1. d = [name \in names |-> described(<<c, name>>)]
  BY DEF getParamsetDescription, GroupOf
<1>2. \A name \in names : <<c, name>> \in inUse /\ ~Failed(described(<<c, name>>))
  <2>1. ASSUME NEW k \in inUse, ~Failed(described(k))
        PROVE  <<c, k[2]>> = k
    BY PeerRpcAssumption DEF ConfigsOf
  <2> HIDE DEF inUse, described
  <2> QED
    BY <2>1
<1>3. \A name \in DOMAIN d : name \in names /\ d[name] = described(<<c, name>>)
  BY <1>1
<1> HIDE DEF names
<1> QED
  BY <1>2, <1>3 DEF ConfigsOf

LEMMA ConfigTold ==
  ASSUME NEW client, NEW c \in Existing, NEW name, NEW k, k = <<c, name>>,
         k \in DOMAIN ConfigOf, Offered(ConfigOf[k], Functions[c].config), Supported(client, ConfigOf[k])
  PROVE  /\ name \in DOMAIN getAllConfig(client)[c]
         /\ getAllConfig(client)[c][name] = ConfigElement(client, ConfigOf[k])
<1> DEFINE offered == {x \in ConfigsOf(c) : Offered(ConfigOf[x], Functions[c].config) /\ Supported(client, ConfigOf[x])}
<1>1. getAllConfig(client)[c] = [n \in KeysOf(offered) |-> ConfigElement(client, ConfigOf[<<c, n>>])]
  BY DEF getAllConfig
<1>2. k \in offered
  BY DEF ConfigsOf
<1>3. name \in KeysOf(offered)
  BY <1>2 DEF KeysOf
<1> QED
  BY <1>1, <1>3

LEMMA ConfigElementForm ==
  ASSUME NEW client, NEW p, NEW e, e = ConfigElement(client, p)
  PROVE  /\ "VALUE" \in DOMAIN e <=> Has(p, "readable")
         /\ "TYPE" \in DOMAIN e <=> p.type # "ACTION"
         /\ "TYPE" \in DOMAIN e => e["TYPE"] = p.type
         /\ \A n \in Common \ {"TYPE"} : n \in DOMAIN e <=> n \in DOMAIN Bounds(p)
         /\ \A n \in DOMAIN Bounds(p) : e[n] = Bounds(p)[n]
<1>1. PICK b : b = Bounds(p)
  BY ZenonT(30)
<1>2. DOMAIN b \subseteq {"MIN", "MAX", "SPECIAL"}
  BY <1>1, BoundsMembers
<1>3. PICK f : f = If(Has(p, "readable"), [VALUE |-> Shown(client, p)])
  BY ZenonT(30)
<1>4. PICK g : g = If(p.type # "ACTION", [TYPE |-> p.type])
  BY ZenonT(30)
<1>5. /\ DOMAIN f \subseteq {"VALUE"} /\ ("VALUE" \in DOMAIN f <=> Has(p, "readable"))
      /\ DOMAIN g \subseteq {"TYPE"} /\ ("TYPE" \in DOMAIN g <=> p.type # "ACTION")
      /\ p.type # "ACTION" => g["TYPE"] = p.type
  BY <1>3, <1>4 DEF If
<1>6. e = f ++ g ++ b
  BY <1>1, <1>3, <1>4 DEF ConfigElement
<1>7. PICK fg : fg = f ++ g
  BY ZenonT(30)
<1>8. /\ DOMAIN fg = DOMAIN f \cup DOMAIN g
      /\ "TYPE" \in DOMAIN g => fg["TYPE"] = g["TYPE"]
  BY <1>5, <1>7 DEF ++
<1>9. e = fg ++ b
  BY <1>6, <1>7
<1>10. /\ DOMAIN e = DOMAIN fg \cup DOMAIN b
       /\ \A n \in DOMAIN fg : e[n] = fg[n]
       /\ \A n \in DOMAIN b : n \notin DOMAIN fg => e[n] = b[n]
  BY <1>9 DEF ++
<1> QED
  BY <1>1, <1>2, <1>5, <1>8, <1>10 DEF Common

DescribedAs(d, p, placement) ==
  /\ DOMAIN d = DOMAIN Bounds(p) \cup {"TYPE", "OPERATIONS"} \cup DOMAIN placement
  /\ d["TYPE"] = p.type /\ d["OPERATIONS"] = Operations(p)
  /\ \A n \in DOMAIN Bounds(p) : d[n] = Bounds(p)[n]
  /\ \A n \in DOMAIN placement : d[n] = placement[n]

LEMMA DescribedForm ==
  ASSUME NEW client, NEW p, NEW placement, ~Failed(VariableDescription(client, p, placement)),
         DOMAIN placement \subseteq {"ROOM", "CATEGORIES", "BUILDING_PART", "ROLES"}
  PROVE  DescribedAs(VariableDescription(client, p, placement), p, placement)
<1>0. PICK d : d = VariableDescription(client, p, placement)
  BY ZenonT(30)
<1>1. PICK b, t : b = Bounds(p) /\ t = [TYPE |-> p.type, OPERATIONS |-> Operations(p)]
  BY ZenonT(30)
<1>2. DOMAIN b \subseteq {"MIN", "MAX", "SPECIAL"}
  BY <1>1, BoundsMembers
<1>3. DOMAIN t = {"TYPE", "OPERATIONS"} /\ t["TYPE"] = p.type /\ t["OPERATIONS"] = Operations(p)
  BY <1>1
<1>4. PICK bt : bt = b ++ t
  BY ZenonT(30)
<1>5. d = bt ++ placement
  BY <1>0, <1>1, <1>4, DescriptionForm
<1>6. /\ DOMAIN bt = DOMAIN b \cup DOMAIN t
      /\ \A n \in DOMAIN b : bt[n] = b[n]
      /\ \A n \in DOMAIN t : n \notin DOMAIN b => bt[n] = t[n]
  BY <1>4 DEF ++
<1>7. /\ DOMAIN d = DOMAIN bt \cup DOMAIN placement
      /\ \A n \in DOMAIN bt : d[n] = bt[n]
      /\ \A n \in DOMAIN placement : n \notin DOMAIN bt => d[n] = placement[n]
  BY <1>5 DEF ++
<1> QED
  BY <1>0, <1>1, <1>2, <1>3, <1>6, <1>7 DEF DescribedAs

LEMMA PartsSame ==
  ASSUME NEW e, NEW d, NEW names, \A n \in names : n \in DOMAIN e <=> n \in DOMAIN d,
         \A n \in names : n \in DOMAIN e => e[n] = d[n]
  PROVE  Part(e, names) = Part(d, names)
<1>1. names \cap DOMAIN e = names \cap DOMAIN d
  OBVIOUS
<1> QED
  BY <1>1 DEF Part

LEMMA ConfigSame == ASSUME AtRest, NEW client PROVE SameConfig(client)
<1> SUFFICES ASSUME NEW c \in Existing,
                    NEW name \in DOMAIN ParamsetDescription("id", IdOf(ThePeer), client, c, "config", FALSE)
             PROVE  LET told == AllConfigs(client, FALSE)[IdOf(ThePeer)]
                        d == ParamsetDescription("id", IdOf(ThePeer), client, c, "config", FALSE)
                        common == IF ConfigOf[<<c, name>>].type = "ACTION" THEN Common \ {"TYPE"} ELSE Common
                    IN  /\ name \in DOMAIN told[c] /\ Part(told[c][name], common) = Part(d[name], common)
                        /\ ("VALUE" \in DOMAIN told[c][name])
                           = ~Failed(ConfigParameter("id", IdOf(ThePeer), client, c, name))
  BY DEF SameConfig
<1>1. PICK id : id = IdOf(ThePeer)
  BY ZenonT(30)
<1>2. PICK told : told = getAllConfig(client)
  BY ZenonT(30)
<1>3. AllConfigs(client, FALSE)[id] = told
  BY <1>1, <1>2, AllAnswer, AllAsked DEF AllConfigs, AtRest
<1>4. ASSUME NEW answer PROVE AskOne("id", id, answer) = answer
  BY <1>1, OneAnswers DEF IdOf
<1>5. PICK d : d = getParamsetDescription(client, c, "config", FALSE)
  BY ZenonT(30)
<1>6. d = ParamsetDescription("id", id, client, c, "config", FALSE)
  BY <1>4, <1>5 DEF ParamsetDescription
<1>7. ConfigParameter("id", id, client, c, name) = getConfigParameter(client, c, name)
  BY <1>4 DEF ConfigParameter
<1>8. name \in DOMAIN d
  BY <1>1, <1>6
<1>9. /\ name \in DOMAIN told[c]
             /\ LET common == IF ConfigOf[<<c, name>>].type = "ACTION" THEN Common \ {"TYPE"} ELSE Common
                IN  Part(told[c][name], common) = Part(d[name], common)
             /\ ("VALUE" \in DOMAIN told[c][name]) = ~Failed(getConfigParameter(client, c, name))
  <2>0. c \in DOMAIN Functions
    BY DEF Existing
  <2>1. PICK k, p : k = <<c, name>> /\ p = ConfigOf[k]
    BY ZenonT(30)
  <2>20. PICK none : none = <<>>
    BY ZenonT(30)
  <2>2. PICK x : x = VariableDescription(client, p, none)
    BY ZenonT(30)
  <2>3. k \in DOMAIN ConfigOf /\ Offered(p, Functions[c].config) /\ ~Failed(x) /\ d[name] = x
    BY <1>5, <1>8, <2>0, <2>1, <2>2, <2>20, ConfigDescribed
  <2>4. DOMAIN none \subseteq {"ROOM", "CATEGORIES", "BUILDING_PART", "ROLES"} /\ DOMAIN none = {}
    BY <2>20
  <2>5. Supported(client, p)
    BY <2>2, <2>3, <2>4, DescriptionForm
  <2>6. name \in DOMAIN told[c] /\ told[c][name] = ConfigElement(client, p)
    BY <1>2, <2>1, <2>3, <2>5, ConfigTold
  <2>7. PICK e : e = ConfigElement(client, p)
    BY ZenonT(30)
  <2>8. /\ DOMAIN x = DOMAIN Bounds(p) \cup {"TYPE", "OPERATIONS"} \cup DOMAIN none
        /\ x["TYPE"] = p.type
        /\ \A n \in DOMAIN Bounds(p) : x[n] = Bounds(p)[n]
    <3>1. ~Failed(VariableDescription(client, p, none))
      BY <2>2, <2>3
    <3>2. DOMAIN none \subseteq {"ROOM", "CATEGORIES", "BUILDING_PART", "ROLES"}
      BY <2>4
    <3>3. DescribedAs(x, p, none)
      BY <2>2, <3>1, <3>2, DescribedForm
    <3> QED
      BY <3>3 DEF DescribedAs
  <2>9. /\ "VALUE" \in DOMAIN e <=> Has(p, "readable")
        /\ "TYPE" \in DOMAIN e <=> p.type # "ACTION"
        /\ "TYPE" \in DOMAIN e => e["TYPE"] = p.type
        /\ \A n \in Common \ {"TYPE"} : n \in DOMAIN e <=> n \in DOMAIN Bounds(p)
        /\ \A n \in DOMAIN Bounds(p) : e[n] = Bounds(p)[n]
    BY <2>7, ConfigElementForm
  <2>10. PICK common : common = IF p.type = "ACTION" THEN Common \ {"TYPE"} ELSE Common
    BY ZenonT(30)
  <2>11. \A n \in common : n \in DOMAIN e <=> n \in DOMAIN x
    BY <2>4, <2>8, <2>9, <2>10 DEF Common
  <2>12. \A n \in common : n \in DOMAIN e => e[n] = x[n]
    BY <2>8, <2>9, <2>10
  <2>13. Part(e, common) = Part(x, common)
    BY <2>11, <2>12, PartsSame
  <2>14. Failed(getConfigParameter(client, c, name)) <=> ~Has(p, "readable")
    <3>1. k \in ConfigsOf(c)
      BY <2>1, <2>3 DEF ConfigsOf
    <3>2. getConfigParameter(client, c, name) =
            IF Has(p, "readable") THEN [value |-> Shown(client, p)] ELSE Error(-6)
      BY <2>0, <2>1, <2>3, <3>1 DEF getConfigParameter
    <3> QED
      BY <3>2 DEF Error, Failed
  <2>15. ("VALUE" \in DOMAIN e) = ~Failed(getConfigParameter(client, c, name))
    BY <2>9, <2>14 DEF Failed
  <2> QED
    BY <2>1, <2>3, <2>6, <2>7, <2>10, <2>13, <2>15
<1> QED
  BY <1>1, <1>3, <1>6, <1>7, <1>9

Kept(client, v) ==
  Offered(Parameters[v], Functions[v[1]].variables) /\ ForCcu2(client, Parameters[v]) /\ Supported(client, Parameters[v])

ToldOf(client, checkAcls, c, told) ==
  /\ \A name : name \in DOMAIN told <=>
       <<c, name>> \in Vars /\ MayRead(checkAcls, <<c, name>>) /\ Kept(client, <<c, name>>)
  /\ \A name \in DOMAIN told : told[name] = ValueElement(client, <<c, name>>)

LEMMA ValuesTold ==
  ASSUME NEW client, NEW checkAcls, NEW c \in Existing
  PROVE  ToldOf(client, checkAcls, c, getAllValues(client, TRUE, checkAcls)[c].PARAMSET)
<1>0. PICK told : told = getAllValues(client, TRUE, checkAcls)[c].PARAMSET
  BY ZenonT(30)
<1> DEFINE set(x) == {v \in VarsOf(x) :
                        LET p == Parameters[v]
                        IN  /\ MayRead(checkAcls, v)
                            /\ Offered(p, Functions[x].variables)
                            /\ Has(p, "readable") \/ Has(p, "transmitted") \/ TRUE
                            /\ ForCcu2(client, p) /\ Supported(client, p)}
           element(x) == [name \in KeysOf(set(x)) |-> ValueElement(client, <<x, name>>)]
<1>1. told = element(c)
  BY <1>0 DEF getAllValues, ++
<1>2. \A v \in set(c) : v = <<c, v[2]>>
  BY PlacementAssumption DEF VarsOf
<1>3. \A v : v \in set(c) <=> v \in Vars /\ v[1] = c /\ MayRead(checkAcls, v) /\ Kept(client, v)
  BY DEF VarsOf, Kept
<1>4. DOMAIN told = KeysOf(set(c)) /\ \A name \in DOMAIN told : told[name] = ValueElement(client, <<c, name>>)
  BY <1>1
<1> HIDE DEF set
<1>5. \A name : name \in KeysOf(set(c)) <=> <<c, name>> \in set(c)
  BY <1>2 DEF KeysOf
<1>6. ToldOf(client, checkAcls, c, told)
  BY <1>3, <1>4, <1>5 DEF ToldOf
<1> QED
  BY <1>0, <1>6

LEMMA VariablesDescribed ==
  ASSUME NEW client, NEW checkAcls, NEW c \in Existing, NEW d,
         d = getParamsetDescription(client, c, "variables", checkAcls)
  PROVE  /\ \A name : name \in DOMAIN d <=>
              <<c, name>> \in Vars /\ MayRead(checkAcls, <<c, name>>) /\ Kept(client, <<c, name>>)
         /\ \A name \in DOMAIN d :
              LET k == <<c, name>>
              IN  d[name] = VariableDescription(client, Parameters[k], PlacementOf(k))
<1> DEFINE inUse == {v \in VarsOf(c) : Offered(Parameters[v], Functions[c].variables) /\ MayRead(checkAcls, v)}
           described(k) == VariableDescription(client, Parameters[k], PlacementOf(k))
           shown == {k \in inUse : ~Failed(described(k))}
           names == {k[2] : k \in shown}
<1>1. d = [name \in names |-> described(<<c, name>>)]
  BY DEF getParamsetDescription, GroupOf, Existing
<1>2. \A v \in shown : v = <<c, v[2]>>
  BY PlacementAssumption DEF VarsOf
<1>3. \A k \in inUse : ~Failed(described(k)) <=>
                         ForCcu2(client, Parameters[k]) /\ Supported(client, Parameters[k])
  <2> SUFFICES ASSUME NEW k \in inUse
               PROVE  ~Failed(described(k)) <=> ForCcu2(client, Parameters[k]) /\ Supported(client, Parameters[k])
    OBVIOUS
  <2>1. Has(Parameters[k], "visible")
    BY DEF Offered
  <2>2. DOMAIN PlacementOf(k) \subseteq {"ROOM", "CATEGORIES", "BUILDING_PART", "ROLES"}
    BY PlacementMembers
  <2> QED
    BY <2>1, <2>2, DescriptionForm
<1>4. \A v : v \in shown <=> v \in Vars /\ v[1] = c /\ MayRead(checkAcls, v) /\ Kept(client, v)
  BY <1>3 DEF VarsOf, Kept
<1>5. DOMAIN d = names /\ \A name \in DOMAIN d : d[name] = described(<<c, name>>)
  BY <1>1
<1> HIDE DEF shown
<1>6. \A name : name \in names <=> <<c, name>> \in shown
  BY <1>2
<1> QED
  BY <1>4, <1>5, <1>6

LEMMA ParamsetNames ==
  ASSUME NEW client, NEW checkAcls, NEW c \in Existing, NEW name,
         <<c, name>> \in Vars, MayRead(checkAcls, <<c, name>>), Kept(client, <<c, name>>)
  PROVE  name \in DOMAIN getParamset(client, c, "variables", checkAcls)
<1> DEFINE v == <<c, name>>
           inUse == {u \in VarsOf(c) : Offered(Parameters[u], Functions[c].variables) /\ MayRead(checkAcls, u)}
           names == {k[2] : k \in {k \in inUse : ForCcu2(client, Parameters[k])}}
<1>1. DOMAIN getParamset(client, c, "variables", checkAcls) = names
  BY DEF getParamset, GroupOf, Existing
<1>2. v \in inUse /\ ForCcu2(client, Parameters[v]) /\ v[2] = name
  BY DEF Kept, VarsOf
<1> HIDE DEF v, inUse
<1> QED
  BY <1>1, <1>2

ToldAs(e, v) ==
  LET p == Parameters[v]
  IN  /\ DOMAIN e = {"TYPE", "READABLE", "WRITEABLE", "TRANSMITTED"} \cup DOMAIN Bounds(p) \cup DOMAIN PlacementOf(v)
                    \cup (IF Has(p, "readable") \/ Has(p, "transmitted") THEN {"VALUE"} ELSE {})
      /\ e["TYPE"] = p.type /\ e["READABLE"] = Has(p, "readable")
      /\ e["WRITEABLE"] = Has(p, "writeable") /\ e["TRANSMITTED"] = Has(p, "transmitted")
      /\ \A n \in DOMAIN Bounds(p) : e[n] = Bounds(p)[n]
      /\ \A n \in DOMAIN PlacementOf(v) : e[n] = PlacementOf(v)[n]

LEMMA ValueForm == ASSUME NEW client, NEW v PROVE ToldAs(ValueElement(client, v), v)
<1>1. PICK p, b, w, e : p = Parameters[v] /\ b = Bounds(p) /\ w = PlacementOf(v) /\ e = ValueElement(client, v)
  BY ZenonT(30)
<1>2. DOMAIN b \subseteq {"MIN", "MAX", "SPECIAL"} /\ DOMAIN w \subseteq {"ROOM", "CATEGORIES", "BUILDING_PART", "ROLES"}
  BY <1>1, BoundsMembers, PlacementMembers
<1>3. PICK f : f = If(Has(p, "readable") \/ Has(p, "transmitted"), [VALUE |-> Shown(client, p)])
  BY ZenonT(30)
<1>4. DOMAIN f = IF Has(p, "readable") \/ Has(p, "transmitted") THEN {"VALUE"} ELSE {}
  BY <1>3 DEF If
<1>5. PICK t : t = [TYPE |-> p.type, READABLE |-> Has(p, "readable"), WRITEABLE |-> Has(p, "writeable"),
                    TRANSMITTED |-> Has(p, "transmitted")]
  BY ZenonT(30)
<1>6. /\ DOMAIN t = {"TYPE", "READABLE", "WRITEABLE", "TRANSMITTED"}
      /\ t["TYPE"] = p.type /\ t["READABLE"] = Has(p, "readable")
      /\ t["WRITEABLE"] = Has(p, "writeable") /\ t["TRANSMITTED"] = Has(p, "transmitted")
  BY <1>5
<1>7. e = f ++ b ++ w ++ t
  BY <1>1, <1>3, <1>5 DEF ValueElement
<1>8. PICK fb : fb = f ++ b
  BY ZenonT(30)
<1>9. PICK fbw : fbw = fb ++ w
  BY ZenonT(30)
<1>10. e = fbw ++ t
  BY <1>7, <1>8, <1>9
<1>11. DOMAIN fb = DOMAIN f \cup DOMAIN b /\ \A n \in DOMAIN b : fb[n] = b[n]
  BY <1>2, <1>4, <1>8 DEF ++
<1>12. /\ DOMAIN fbw = DOMAIN fb \cup DOMAIN w
       /\ \A n \in DOMAIN b : fbw[n] = b[n]
       /\ \A n \in DOMAIN w : fbw[n] = w[n]
  BY <1>2, <1>4, <1>9, <1>11 DEF ++
<1>13. /\ DOMAIN e = DOMAIN fbw \cup DOMAIN t
       /\ \A n \in DOMAIN fbw : e[n] = fbw[n]
       /\ \A n \in DOMAIN t : n \notin DOMAIN fbw => e[n] = t[n]
  BY <1>10 DEF ++
<1>14. DOMAIN fbw \cap DOMAIN t = {}
  BY <1>2, <1>4, <1>6, <1>11, <1>12
<1>15. /\ DOMAIN e = {"TYPE", "READABLE", "WRITEABLE", "TRANSMITTED"} \cup DOMAIN b \cup DOMAIN w \cup DOMAIN f
       /\ \A n \in DOMAIN b : e[n] = b[n]
       /\ \A n \in DOMAIN w : e[n] = w[n]
       /\ \A n \in DOMAIN t : e[n] = t[n]
  BY <1>6, <1>11, <1>12, <1>13, <1>14
<1>16. /\ e["TYPE"] = p.type /\ e["READABLE"] = Has(p, "readable")
       /\ e["WRITEABLE"] = Has(p, "writeable") /\ e["TRANSMITTED"] = Has(p, "transmitted")
  BY <1>6, <1>15
<1> QED
  BY <1>1, <1>4, <1>15, <1>16 DEF ToldAs

LEMMA ElementsSame ==
  ASSUME NEW v, NEW e, NEW d, ToldAs(e, v), DescribedAs(d, Parameters[v], PlacementOf(v))
  PROVE  Part(e, Common) = Part(d, Common) /\ OperationsOf(e) = d.OPERATIONS
<1>1. PICK p, b, w : p = Parameters[v] /\ b = Bounds(p) /\ w = PlacementOf(v)
  BY ZenonT(30)
<1>2. DOMAIN b \subseteq {"MIN", "MAX", "SPECIAL"} /\ DOMAIN w \subseteq {"ROOM", "CATEGORIES", "BUILDING_PART", "ROLES"}
  BY <1>1, BoundsMembers, PlacementMembers
<1>3. \A n \in Common : n \in DOMAIN e <=> n \in DOMAIN d
  BY <1>1, <1>2 DEF ToldAs, DescribedAs, Common
<1>4. \A n \in Common : n \in DOMAIN e => e[n] = d[n]
  <2>1. \A n \in DOMAIN b \cup DOMAIN w \cup {"TYPE"} : e[n] = d[n]
    BY <1>1 DEF ToldAs, DescribedAs
  <2>2. \A n \in Common : n \in DOMAIN e => n \in DOMAIN b \cup DOMAIN w \cup {"TYPE"}
    BY <1>1, <1>2 DEF ToldAs, Common
  <2> QED
    BY <2>1, <2>2
<1>5. Part(e, Common) = Part(d, Common)
  BY <1>3, <1>4, PartsSame
<1>6. OperationsOf(e) = Operations(p)
  BY <1>1 DEF ToldAs, OperationsOf, Operations
<1>7. d.OPERATIONS = Operations(p)
  BY <1>1 DEF DescribedAs
<1> QED
  BY <1>5, <1>6, <1>7

LEMMA VariablesSame == ASSUME AtRest, NEW client, NEW checkAcls \in BOOLEAN PROVE SameVariables(client, checkAcls)
<1> SUFFICES ASSUME IdOf(ThePeer) \in DOMAIN AllValues(client, TRUE, checkAcls), NEW c \in Existing
             PROVE  LET told == AllValues(client, TRUE, checkAcls)[IdOf(ThePeer)][c].PARAMSET
                        d == ParamsetDescription("id", IdOf(ThePeer), client, c, "variables", checkAcls)
                    IN  /\ DOMAIN told = DOMAIN d
                        /\ DOMAIN told \subseteq DOMAIN Paramset("id", IdOf(ThePeer), client, c, "variables", checkAcls)
                        /\ \A name \in DOMAIN told :
                             /\ Part(told[name], Common) = Part(d[name], Common)
                             /\ OperationsOf(told[name]) = d[name].OPERATIONS
                             /\ DescriptionOfVariable(IdOf(ThePeer), client, c, name) = d[name]
                             /\ ("VALUE" \in DOMAIN told[name]) = ~Failed(Value("id", IdOf(ThePeer), client, c, name))
  BY DEF SameVariables
<1>1. PICK id : id = IdOf(ThePeer)
  BY ZenonT(30)
<1>2. ASSUME NEW answer PROVE AskOne("id", id, answer) = answer
  BY <1>1, OneAnswers DEF IdOf
<1>3. ASSUME id \in DOMAIN AllValues(client, TRUE, checkAcls)
      PROVE  AllValues(client, TRUE, checkAcls)[id] = getAllValues(client, TRUE, checkAcls)
  BY <1>1, <1>3, AllAnswer DEF AllValues
<1>4. PICK told, d : /\ told = getAllValues(client, TRUE, checkAcls)[c].PARAMSET
                     /\ d = getParamsetDescription(client, c, "variables", checkAcls)
  BY ZenonT(30)
<1>5. /\ DOMAIN told = DOMAIN d
      /\ DOMAIN told \subseteq DOMAIN getParamset(client, c, "variables", checkAcls)
      /\ \A name \in DOMAIN told :
           /\ Part(told[name], Common) = Part(d[name], Common)
           /\ OperationsOf(told[name]) = d[name].OPERATIONS
           /\ getVariableDescription(client, c, name) = d[name]
           /\ ("VALUE" \in DOMAIN told[name]) = ~Failed(getValue(client, c, name))
  <2>1. /\ \A name : name \in DOMAIN told <=>
             <<c, name>> \in Vars /\ MayRead(checkAcls, <<c, name>>) /\ Kept(client, <<c, name>>)
        /\ \A name \in DOMAIN told : told[name] = ValueElement(client, <<c, name>>)
    <3>1. ToldOf(client, checkAcls, c, told)
      BY <1>4, ValuesTold
    <3> QED
      BY <3>1 DEF ToldOf
  <2>2. /\ \A name : name \in DOMAIN d <=>
             <<c, name>> \in Vars /\ MayRead(checkAcls, <<c, name>>) /\ Kept(client, <<c, name>>)
        /\ \A name \in DOMAIN d :
             d[name] = VariableDescription(client, Parameters[<<c, name>>], PlacementOf(<<c, name>>))
    BY <1>4, VariablesDescribed
  <2>3. \A name : name \in DOMAIN told <=> name \in DOMAIN d
    BY <2>1, <2>2
  <2>4. DOMAIN told = DOMAIN d
    <3>1. \E S, T : S = DOMAIN told /\ T = DOMAIN d
      BY ZenonT(30)
    <3> QED
      BY <2>3
  <2>5. DOMAIN told \subseteq DOMAIN getParamset(client, c, "variables", checkAcls)
    BY <2>1, ParamsetNames
  <2>6. ASSUME NEW name \in DOMAIN told
        PROVE  /\ Part(told[name], Common) = Part(d[name], Common)
               /\ OperationsOf(told[name]) = d[name].OPERATIONS
               /\ getVariableDescription(client, c, name) = d[name]
               /\ ("VALUE" \in DOMAIN told[name]) = ~Failed(getValue(client, c, name))
    <3>1. PICK v, p, w : v = <<c, name>> /\ p = Parameters[v] /\ w = PlacementOf(v)
      BY ZenonT(30)
    <3>2. v \in Vars /\ Kept(client, v) /\ v \in VarsOf(c) /\ c \in DOMAIN Functions
      BY <2>1, <3>1 DEF VarsOf, Existing
    <3>3. PICK e, x : e = told[name] /\ x = d[name]
      BY ZenonT(30)
    <3>4. x = VariableDescription(client, p, w)
      BY <2>2, <2>3, <3>1, <3>3
    <3>5. ToldAs(e, v)
      BY <2>1, <3>1, <3>3, ValueForm
    <3>6. DOMAIN w \subseteq {"ROOM", "CATEGORIES", "BUILDING_PART", "ROLES"}
      BY <3>1, PlacementMembers
    <3>7. ~Failed(VariableDescription(client, p, w))
      <4>1. Has(p, "visible") /\ ForCcu2(client, p) /\ Supported(client, p)
        BY <3>1, <3>2 DEF Kept, Offered
      <4> QED
        BY <3>6, <4>1, DescriptionForm
    <3>8. DescribedAs(x, p, w)
      BY <3>4, <3>6, <3>7, DescribedForm
    <3>9. Part(e, Common) = Part(x, Common) /\ OperationsOf(e) = x.OPERATIONS
      BY <3>1, <3>5, <3>8, ElementsSame
    <3>10. getVariableDescription(client, c, name) = x
      BY <3>1, <3>2, <3>4 DEF getVariableDescription
    <3>11. ("VALUE" \in DOMAIN e) <=> Has(p, "readable") \/ Has(p, "transmitted")
      <4>1. "VALUE" \notin DOMAIN Bounds(p) /\ "VALUE" \notin DOMAIN w
        BY <3>6, BoundsMembers
      <4> QED
        BY <3>1, <3>5, <4>1 DEF ToldAs
    <3>12. Failed(getValue(client, c, name)) <=> ~(Has(p, "readable") \/ Has(p, "transmitted"))
      <4>1. getValue(client, c, name) =
              IF {"readable", "transmitted"} \cap p.flags = {} THEN Error(-6) ELSE [value |-> Shown(client, p)]
        BY <3>1, <3>2 DEF getValue
      <4>2. {"readable", "transmitted"} \cap p.flags = {} <=> ~(Has(p, "readable") \/ Has(p, "transmitted"))
        BY DEF Has
      <4> QED
        BY <4>1, <4>2 DEF Error, Failed
    <3>13. ("VALUE" \in DOMAIN e) = ~Failed(getValue(client, c, name))
      BY <3>11, <3>12 DEF Failed
    <3> QED
      BY <3>3, <3>9, <3>10, <3>13
  <2> QED
    BY <2>4, <2>5, <2>6
<1>6. AllValues(client, TRUE, checkAcls)[id][c].PARAMSET = told
  BY <1>1, <1>3, <1>4
<1>7. ParamsetDescription("id", id, client, c, "variables", checkAcls) = d
  BY <1>2, <1>4 DEF ParamsetDescription
<1>8. Paramset("id", id, client, c, "variables", checkAcls) = getParamset(client, c, "variables", checkAcls)
  BY <1>2 DEF Paramset
<1>9. \A name : /\ DescriptionOfVariable(id, client, c, name) = getVariableDescription(client, c, name)
                /\ Value("id", id, client, c, name) = getValue(client, c, name)
  BY <1>2 DEF DescriptionOfVariable, Value
<1>10. /\ AllValues(client, TRUE, checkAcls)[IdOf(ThePeer)][c].PARAMSET = told
       /\ ParamsetDescription("id", IdOf(ThePeer), client, c, "variables", checkAcls) = d
  BY <1>1, <1>6, <1>7
<1>11. DOMAIN told \subseteq DOMAIN Paramset("id", IdOf(ThePeer), client, c, "variables", checkAcls)
  BY <1>1, <1>5, <1>8
<1>12. ASSUME NEW name \in DOMAIN told
       PROVE  /\ Part(told[name], Common) = Part(d[name], Common)
              /\ OperationsOf(told[name]) = d[name].OPERATIONS
              /\ DescriptionOfVariable(IdOf(ThePeer), client, c, name) = d[name]
              /\ ("VALUE" \in DOMAIN told[name]) = ~Failed(Value("id", IdOf(ThePeer), client, c, name))
  BY <1>1, <1>5, <1>9
<1>13. DOMAIN told = DOMAIN d
  BY <1>5
<1> QED
  BY <1>10, <1>11, <1>12, <1>13, ZenonT(30)

(* What the lists tell.                                                    *)
LEMMA WhichListed ==
  ASSUME NEW checkAcls, NEW S, ThePeer \in Asked(checkAcls)
  PROVE  ListedBy(AskWhich(checkAcls, S)) = S
<1>1. CASE S = {}
  BY <1>1 DEF ListedBy, AskWhich, If
<1>2. CASE S # {}
  <2>1. AskWhich(checkAcls, S) = [id \in {IdOf(ThePeer)} |-> S]
    BY <1>2 DEF AskWhich, If
  <2> QED
    BY <2>1 DEF ListedBy
<1> QED
  BY <1>1, <1>2

LEMMA NoneListed ==
  ASSUME NEW checkAcls, NEW S, ThePeer \notin Asked(checkAcls)
  PROVE  ListedBy(AskWhich(checkAcls, S)) = {}
  BY DEF ListedBy, AskWhich, If

LEMMA SomeListed ==
  ASSUME NEW checkAcls, NEW f
  PROVE  NamesIn(AskSome(checkAcls, f)) = IF ThePeer \in Asked(checkAcls) THEN DOMAIN f ELSE {}
<1>1. CASE ThePeer \in Asked(checkAcls) /\ DOMAIN f # {}
  <2>1. AskSome(checkAcls, f) = [id \in {IdOf(ThePeer)} |-> f]
    BY <1>1 DEF AskSome, If
  <2> QED
    BY <1>1, <2>1 DEF NamesIn
<1>2. CASE ~(ThePeer \in Asked(checkAcls) /\ DOMAIN f # {})
  <2>1. DOMAIN AskSome(checkAcls, f) = {}
    BY <1>2 DEF AskSome, If
  <2> QED
    BY <1>2, <2>1 DEF NamesIn
<1> QED
  BY <1>1, <1>2

PlacedAs(w, place) ==
  /\ "ROOM" \in DOMAIN w <=> place.room # 0
  /\ "BUILDING_PART" \in DOMAIN w <=> place.part # 0
  /\ "CATEGORIES" \in DOMAIN w <=> place.cats # {}
  /\ "ROLES" \in DOMAIN w <=> DOMAIN place.roles # {}
  /\ place.room # 0 => w.ROOM = place.room
  /\ place.part # 0 => w.BUILDING_PART = place.part
  /\ place.cats # {} => w.CATEGORIES = place.cats
  /\ DOMAIN place.roles # {} => DOMAIN w.ROLES = DOMAIN place.roles

LEMMA PlacementForm == ASSUME NEW v PROVE PlacedAs(PlacementOf(v), mem.vars[v])
<1>1. PICK place, w : place = mem.vars[v] /\ w = PlacementOf(v)
  BY ZenonT(30)
<1>2. PICK f, g, h, i :
        /\ f = If(place.room # 0, [ROOM |-> place.room]) /\ g = If(place.cats # {}, [CATEGORIES |-> place.cats])
        /\ h = If(place.part # 0, [BUILDING_PART |-> place.part])
        /\ i = If(DOMAIN place.roles # {}, [ROLES |-> RoleList(v)])
  BY ZenonT(30)
<1>3. /\ DOMAIN f = (IF place.room # 0 THEN {"ROOM"} ELSE {}) /\ (place.room # 0 => f["ROOM"] = place.room)
      /\ DOMAIN g = (IF place.cats # {} THEN {"CATEGORIES"} ELSE {}) /\ (place.cats # {} => g["CATEGORIES"] = place.cats)
  BY <1>2 DEF If
<1>4. /\ DOMAIN h = (IF place.part # 0 THEN {"BUILDING_PART"} ELSE {})
      /\ place.part # 0 => h["BUILDING_PART"] = place.part
  BY <1>2 DEF If
<1>5. /\ DOMAIN i = (IF DOMAIN place.roles # {} THEN {"ROLES"} ELSE {})
      /\ DOMAIN place.roles # {} => DOMAIN i["ROLES"] = DOMAIN place.roles
  BY <1>1, <1>2 DEF If, RoleList
<1>6. w = f ++ g ++ h ++ i
  BY <1>1, <1>2 DEF PlacementOf, RoomAndCategories
<1>7. PICK fg, fgh : fg = f ++ g /\ fgh = fg ++ h
  BY ZenonT(30)
<1>8. w = fgh ++ i
  BY <1>6, <1>7
<1>9. /\ DOMAIN fg = DOMAIN f \cup DOMAIN g
      /\ \A n \in DOMAIN f : fg[n] = f[n]
      /\ \A n \in DOMAIN g : n \notin DOMAIN f => fg[n] = g[n]
  BY <1>7 DEF ++
<1>10. /\ DOMAIN fgh = DOMAIN fg \cup DOMAIN h
       /\ \A n \in DOMAIN fg : fgh[n] = fg[n]
       /\ \A n \in DOMAIN h : n \notin DOMAIN fg => fgh[n] = h[n]
  BY <1>7 DEF ++
<1>11. /\ DOMAIN w = DOMAIN fgh \cup DOMAIN i
       /\ \A n \in DOMAIN fgh : w[n] = fgh[n]
       /\ \A n \in DOMAIN i : n \notin DOMAIN fgh => w[n] = i[n]
  BY <1>8 DEF ++
<1>12. DOMAIN w = DOMAIN f \cup DOMAIN g \cup DOMAIN h \cup DOMAIN i
  BY <1>9, <1>10, <1>11
<1>13. /\ "ROOM" \in DOMAIN f => w["ROOM"] = f["ROOM"]
       /\ "CATEGORIES" \in DOMAIN g => w["CATEGORIES"] = g["CATEGORIES"]
  BY <1>3, <1>9, <1>10, <1>11
<1>14. "BUILDING_PART" \in DOMAIN h => w["BUILDING_PART"] = h["BUILDING_PART"]
  BY <1>3, <1>4, <1>9, <1>10, <1>11
<1>15. "ROLES" \in DOMAIN i => w["ROLES"] = i["ROLES"]
  BY <1>3, <1>4, <1>5, <1>9, <1>10, <1>11
<1>16. PlacedAs(w, place)
  <2>1. /\ "ROOM" \in DOMAIN w <=> place.room # 0
        /\ "BUILDING_PART" \in DOMAIN w <=> place.part # 0
        /\ "CATEGORIES" \in DOMAIN w <=> place.cats # {}
        /\ "ROLES" \in DOMAIN w <=> DOMAIN place.roles # {}
    BY <1>3, <1>4, <1>5, <1>12
  <2> QED
    BY <1>3, <1>4, <1>5, <1>13, <1>14, <1>15, <2>1 DEF PlacedAs
<1> QED
  BY <1>1, <1>16

LEMMA VariablePlacesSame ==
  ASSUME PlacementInv, NEW checkAcls \in BOOLEAN PROVE SameVariablePlaces(checkAcls)
<1> SUFFICES ASSUME NEW v \in Vars, ThePeer \in Asked(checkAcls), MayRead(checkAcls, v)
             PROVE  LET where == [ROOM |-> 0, BUILDING_PART |-> 0, CATEGORIES |-> {}, ROLES |-> <<>>]
                        said == [n \in DOMAIN where |-> IF n \in DOMAIN PlacementOf(v) THEN PlacementOf(v)[n] ELSE where[n]]
                    IN  /\ {r \in Rooms : v \in ListedBy(VariablesInRoom(r, FALSE, checkAcls))} = {said.ROOM} \ {0}
                        /\ {b \in Parts : v \in ListedBy(VariablesInBuildingPart(b, FALSE, checkAcls))}
                           = {said.BUILDING_PART} \ {0}
                        /\ {k \in Cats : v \in ListedBy(VariablesInCategory(k, checkAcls))} = said.CATEGORIES
                        /\ {r \in Roles : v \in NamesIn(VariablesInRole(r, checkAcls))} = DOMAIN said.ROLES
  BY DEF SameVariablePlaces
<1>1. PICK place, w : place = mem.vars[v] /\ w = PlacementOf(v)
  BY ZenonT(30)
<1>2. PICK where : where = [ROOM |-> 0, BUILDING_PART |-> 0, CATEGORIES |-> {}, ROLES |-> <<>>]
  BY ZenonT(30)
<1>3. PICK said : said = [n \in DOMAIN where |-> IF n \in DOMAIN w THEN w[n] ELSE where[n]]
  BY ZenonT(30)
<1>4. PlacedAs(w, place)
  BY <1>1, PlacementForm
<1>5. /\ place.room \in {0} \cup Rooms /\ place.part \in {0} \cup Parts
      /\ place.cats \subseteq Cats /\ DOMAIN place.roles \subseteq Roles
  BY <1>1 DEF PlacementInv, PlacementType, VarsType
<1>6. /\ said.ROOM = place.room /\ said.BUILDING_PART = place.part
      /\ said.CATEGORIES = place.cats /\ DOMAIN said.ROLES = DOMAIN place.roles
  <2>1. /\ said.ROOM = IF "ROOM" \in DOMAIN w THEN w.ROOM ELSE 0
        /\ said.BUILDING_PART = IF "BUILDING_PART" \in DOMAIN w THEN w.BUILDING_PART ELSE 0
        /\ said.CATEGORIES = IF "CATEGORIES" \in DOMAIN w THEN w.CATEGORIES ELSE {}
        /\ DOMAIN said.ROLES = IF "ROLES" \in DOMAIN w THEN DOMAIN w.ROLES ELSE {}
    <3>1. /\ DOMAIN where = {"ROOM", "BUILDING_PART", "CATEGORIES", "ROLES"}
          /\ where.ROOM = 0 /\ where.BUILDING_PART = 0 /\ where.CATEGORIES = {} /\ DOMAIN where.ROLES = {}
      BY <1>2
    <3> QED
      BY <1>3, <3>1
  <2>2. said.ROOM = place.room /\ said.BUILDING_PART = place.part
    BY <1>4, <2>1 DEF PlacedAs
  <2>3. said.CATEGORIES = place.cats
    BY <1>4, <2>1 DEF PlacedAs
  <2>4. DOMAIN said.ROLES = DOMAIN place.roles
    BY <1>4, <2>1 DEF PlacedAs
  <2> QED
    BY <2>2, <2>3, <2>4
<1>7. {r \in Rooms : v \in ListedBy(VariablesInRoom(r, FALSE, checkAcls))} = {said.ROOM} \ {0}
  <2>1. \A r : ListedBy(VariablesInRoom(r, FALSE, checkAcls)) = getVariablesInRoom(r, FALSE, checkAcls)
    BY WhichListed DEF VariablesInRoom
  <2>2. \A r : v \in getVariablesInRoom(r, FALSE, checkAcls) <=> place.room # 0 /\ place.room = r
    BY <1>1 DEF getVariablesInRoom
  <2> QED
    BY <1>5, <1>6, <2>1, <2>2, PlacementAssumption
<1>8. {b \in Parts : v \in ListedBy(VariablesInBuildingPart(b, FALSE, checkAcls))} = {said.BUILDING_PART} \ {0}
  <2>1. \A b : ListedBy(VariablesInBuildingPart(b, FALSE, checkAcls)) = getVariablesInBuildingPart(b, FALSE, checkAcls)
    BY WhichListed DEF VariablesInBuildingPart
  <2>2. \A b : v \in getVariablesInBuildingPart(b, FALSE, checkAcls) <=> place.part # 0 /\ place.part = b
    BY <1>1 DEF getVariablesInBuildingPart
  <2> QED
    BY <1>5, <1>6, <2>1, <2>2, PlacementAssumption
<1>9. {k \in Cats : v \in ListedBy(VariablesInCategory(k, checkAcls))} = said.CATEGORIES
  <2>1. \A k : ListedBy(VariablesInCategory(k, checkAcls)) = getVariablesInCategory(k, checkAcls)
    BY WhichListed DEF VariablesInCategory
  <2>2. \A k : v \in getVariablesInCategory(k, checkAcls) <=> k \in place.cats
    BY <1>1 DEF getVariablesInCategory
  <2> QED
    BY <1>5, <1>6, <2>1, <2>2
<1>10. {r \in Roles : v \in NamesIn(VariablesInRole(r, checkAcls))} = DOMAIN said.ROLES
  <2>1. \A r : NamesIn(VariablesInRole(r, checkAcls)) = DOMAIN getVariablesInRole(r, checkAcls)
    BY SomeListed DEF VariablesInRole
  <2>2. \A r : v \in DOMAIN getVariablesInRole(r, checkAcls) <=> r \in DOMAIN place.roles
    BY <1>1 DEF getVariablesInRole
  <2> QED
    BY <1>5, <1>6, <2>1, <2>2
<1> QED
  BY <1>1, <1>2, <1>3, <1>7, <1>8, <1>9, <1>10

LEMMA RolesSame == ASSUME NEW checkAcls \in BOOLEAN PROVE SameRoles(checkAcls)
<1> SUFFICES ASSUME NEW r \in Rooms
             PROVE  NamesIn(RolesInRoom(r, checkAcls))
                    = ListedBy(VariablesInRoom(r, TRUE, checkAcls)) \cap DOMAIN getRolesInDevice(checkAcls)
  BY DEF SameRoles
<1>1. PICK roles : roles = getRolesInDevice(checkAcls)
  BY ZenonT(30)
<1>2. \A v \in DOMAIN roles : v \in Vars /\ MayRead(checkAcls, v)
  BY <1>1 DEF getRolesInDevice
<1>3. DOMAIN getRolesInRoom(r, checkAcls) = {u \in DOMAIN roles : RoomOf(u) # 0 /\ RoomOf(u) = r}
  BY <1>1 DEF getRolesInRoom
<1>4. \A v : v \in getVariablesInRoom(r, TRUE, checkAcls) <=> v \in Vars /\ MayRead(checkAcls, v) /\ RoomOf(v) = r
  BY DEF getVariablesInRoom
<1>5. r # 0
  BY PlacementAssumption
<1>6. DOMAIN getRolesInRoom(r, checkAcls) = getVariablesInRoom(r, TRUE, checkAcls) \cap DOMAIN roles
  BY <1>2, <1>3, <1>4, <1>5
<1>7. CASE ThePeer \in Asked(checkAcls)
  BY <1>1, <1>6, <1>7, WhichListed, SomeListed DEF RolesInRoom, VariablesInRoom
<1>8. CASE ThePeer \notin Asked(checkAcls)
  BY <1>8, NoneListed, SomeListed DEF RolesInRoom, VariablesInRoom
<1> QED
  BY <1>7, <1>8

(* Where a device or channel says it is.                                   *)
WhereIs(x, c) ==
  /\ "ROOM" \in DOMAIN x <=> getRoom(c) # 0
  /\ "BUILDING_PART" \in DOMAIN x <=> getBuildingPart(c) # 0
  /\ "CATEGORIES" \in DOMAIN x <=> getCategories(c) # {}
  /\ getRoom(c) # 0 => x.ROOM = getRoom(c)
  /\ getBuildingPart(c) # 0 => x.BUILDING_PART = getBuildingPart(c)
  /\ getCategories(c) # {} => x.CATEGORIES = getCategories(c)

LEMMA WhereOfForm == ASSUME NEW c PROVE WhereIs(WhereOf(c, Places), c)
<1>1. PICK room, part, cats : room = getRoom(c) /\ part = getBuildingPart(c) /\ cats = getCategories(c)
  BY ZenonT(30)
<1>2. PICK f, g, h : /\ f = If(room # 0, [ROOM |-> room]) /\ g = If(cats # {}, [CATEGORIES |-> cats])
                     /\ h = If(part # 0, [BUILDING_PART |-> part])
  BY ZenonT(30)
<1>3. /\ DOMAIN f = (IF room # 0 THEN {"ROOM"} ELSE {}) /\ (room # 0 => f["ROOM"] = room)
      /\ DOMAIN g = (IF cats # {} THEN {"CATEGORIES"} ELSE {}) /\ (cats # {} => g["CATEGORIES"] = cats)
      /\ DOMAIN h = (IF part # 0 THEN {"BUILDING_PART"} ELSE {}) /\ (part # 0 => h["BUILDING_PART"] = part)
  BY <1>2 DEF If
<1>4. PICK w : w = WhereOf(c, Places)
  BY ZenonT(30)
<1>5. w = f ++ g ++ h
  <2>1. Wanted(Places, "ROOM") /\ "CATEGORIES" \in Places /\ "BUILDING_PART" \in Places
    BY DEF Wanted, Places
  <2> QED
    BY <1>1, <1>2, <1>4, <2>1 DEF WhereOf, If
<1>6. PICK fg : fg = f ++ g
  BY ZenonT(30)
<1>7. w = fg ++ h
  BY <1>5, <1>6
<1>8. /\ DOMAIN fg = DOMAIN f \cup DOMAIN g
      /\ \A n \in DOMAIN f : fg[n] = f[n]
      /\ \A n \in DOMAIN g : n \notin DOMAIN f => fg[n] = g[n]
  BY <1>6 DEF ++
<1>9. /\ DOMAIN w = DOMAIN fg \cup DOMAIN h
      /\ \A n \in DOMAIN fg : w[n] = fg[n]
      /\ \A n \in DOMAIN h : n \notin DOMAIN fg => w[n] = h[n]
  BY <1>7 DEF ++
<1>10. WhereIs(w, c)
  <2>1. /\ "ROOM" \in DOMAIN w <=> room # 0
        /\ "BUILDING_PART" \in DOMAIN w <=> part # 0
        /\ "CATEGORIES" \in DOMAIN w <=> cats # {}
    BY <1>3, <1>8, <1>9
  <2>2. room # 0 => w["ROOM"] = room
    BY <1>3, <1>8, <1>9
  <2>3. part # 0 => w["BUILDING_PART"] = part
    BY <1>3, <1>8, <1>9
  <2>4. cats # {} => w["CATEGORIES"] = cats
    BY <1>3, <1>8, <1>9
  <2> QED
    BY <1>1, <2>1, <2>2, <2>3, <2>4 DEF WhereIs
<1> QED
  BY <1>4, <1>10

LEMMA NothingBefore ==
  ASSUME NEW f, NEW g, NEW c, DOMAIN f = {}, WhereIs(g, c)
  PROVE  WhereIs(f ++ g, c)
<1>1. PICK h : h = f ++ g
  BY ZenonT(30)
<1>2. DOMAIN h = DOMAIN g /\ \A n \in DOMAIN g : h[n] = g[n]
  BY <1>1 DEF ++
<1>3. WhereIs(h, c)
  BY <1>2 DEF WhereIs
<1> QED
  BY <1>1, <1>3

LEMMA NotWanted ==
  ASSUME NEW name, name \notin Places, NEW condition, NEW members
  PROVE  DOMAIN If(Wanted(Places, name) /\ condition, members) = {} /\ DOMAIN If(Wanted(Places, name), members) = {}
  BY DEF If, Wanted, Places

LEMMA DescriptionPlaced ==
  ASSUME NEW c \in {-1} \cup Existing, getDeviceDescription(c, Places) # <<>>
  PROVE  WhereIs(getDeviceDescription(c, Places), c)
<1>1. PICK w : w = WhereOf(c, Places)
  BY ZenonT(30)
<1>2. WhereIs(w, c)
  BY <1>1, WhereOfForm
<1>3. CASE c = -1
  <2>1. PICK f, g, h :
          /\ f = If(Wanted(Places, "CHANNELS"), [CHANNELS |-> {d \in Existing : Has(Functions[d], "visible")}])
          /\ g = If(Wanted(Places, "FLAGS"), [FLAGS |-> UiFlags(Device, ~Has(Device, "deletable"))])
          /\ h = If(Wanted(Places, "PARAMSETS"), [PARAMSETS |-> {"MASTER"}])
    BY ZenonT(30)
  <2>2. "CHANNELS" \notin Places /\ "FLAGS" \notin Places /\ "PARAMSETS" \notin Places
    BY DEF Places
  <2>3. DOMAIN f = {} /\ DOMAIN g = {} /\ DOMAIN h = {}
    BY <2>1, <2>2, NotWanted
  <2>4. DOMAIN (f ++ g ++ h) = {}
    BY <2>3 DEF ++
  <2>5. getDeviceDescription(c, Places) = f ++ g ++ h ++ w
    BY <1>1, <1>3, <2>1 DEF getDeviceDescription, DeviceDescription
  <2> QED
    BY <1>2, <2>4, <2>5, NothingBefore
<1>4. CASE c \in Existing
  <2>1. c \in DOMAIN Functions /\ IsThere(c) /\ c # -1
    BY <1>4, PeerRpcAssumption DEF Existing
  <2>2. getDeviceDescription(c, Places) = IF Has(Functions[c], "visible") THEN ChannelDescription(c, Places) ELSE <<>>
    BY <1>4, <2>1 DEF getDeviceDescription
  <2>3. getDeviceDescription(c, Places) = ChannelDescription(c, Places)
    BY <2>2
  <2> DEFINE f == Functions[c]
             sets == {s \in {<<"MASTER", f.config>>, <<"VALUES", f.variables>>, <<"LINK", f.links>>} : s[2] # {}}
  <2>4. PICK d, g, h, i, j :
          /\ d = If(Wanted(Places, "DIRECTION"), [DIRECTION |-> DirectionOf(f, LinkTypes[<<ThePeer, c>>])])
          /\ g = If(Wanted(Places, "FLAGS"), [FLAGS |-> UiFlags(f, Has(f, "deletable"))])
          /\ h = If(Wanted(Places, "GROUP") /\ f.groupedWith > -1, [GROUP |-> f.groupedWith])
          /\ i = If(Wanted(Places, "INDEX"), [INDEX |-> c])
          /\ j = If(Wanted(Places, "PARAMSETS"), [PARAMSETS |-> {s[1] : s \in sets}])
    BY ZenonT(30)
  <2>5. \A n \in {"DIRECTION", "FLAGS", "GROUP", "INDEX", "PARAMSETS"} : n \notin Places
    BY DEF Places
  <2>6. DOMAIN d = {} /\ DOMAIN g = {} /\ DOMAIN h = {} /\ DOMAIN i = {} /\ DOMAIN j = {}
    BY <2>4, <2>5, NotWanted
  <2>7. DOMAIN (d ++ g ++ h ++ i ++ j) = {}
    BY <2>6 DEF ++
  <2>8. getDeviceDescription(c, Places) = d ++ g ++ h ++ i ++ j ++ w
    BY <1>1, <2>3, <2>4 DEF ChannelDescription
  <2> QED
    BY <1>2, <2>7, <2>8, NothingBefore
<1> QED
  BY <1>3, <1>4

LEMMA DevicesSame ==
  ASSUME AtRest, PlacementInv, NEW checkAcls \in BOOLEAN PROVE SameDevices(checkAcls)
<1>1. PICK id, devices : id = IdOf(ThePeer) /\ devices = listDevices(TRUE, Places, {}, checkAcls)
  BY ZenonT(30)
<1>2. \A p \in Peers : IdOf(p) = id => p = ThePeer
  BY <1>1 DEF AtRest, IdOf
<1>3. Asked(checkAcls) \subseteq Peers /\ getPeers = Peers /\ ThePeer \in Peers
  BY DEF AtRest, Asked
<1>4. /\ id \in DOMAIN devices <=> ThePeer \in Asked(checkAcls)
      /\ id \in DOMAIN devices => devices[id] = getDeviceDescriptions(TRUE, Places)
  <2>1. devices = [i \in {IdOf(p) : p \in Asked(checkAcls)} |->
                     IF i = id THEN getDeviceDescriptions(TRUE, Places) ELSE <<>>]
    BY <1>1 DEF listDevices
  <2>2. id \in {IdOf(p) : p \in Asked(checkAcls)} <=> ThePeer \in Asked(checkAcls)
    BY <1>1, <1>2, <1>3
  <2> QED
    BY <2>1, <2>2
<1>5. ASSUME id \in DOMAIN devices, NEW c \in DOMAIN devices[id], NEW told,
             told = Part(Description("id", id, c, Places), Places)
      PROVE  /\ told = Part(devices[id][c], Places)
             /\ \A r \in Rooms : (c \in ListedBy(ChannelsInRoom(r, checkAcls)))
                                 = ("ROOM" \in DOMAIN told /\ (told["ROOM"] = r))
             /\ \A b \in Parts : (c \in ListedBy(ChannelsInBuildingPart(b, checkAcls)))
                                 = ("BUILDING_PART" \in DOMAIN told /\ (told["BUILDING_PART"] = b))
             /\ \A k \in Cats : (c \in ListedBy(ChannelsInCategory(k, checkAcls)))
                                = ("CATEGORIES" \in DOMAIN told /\ k \in told.CATEGORIES)
             /\ c = -1 =>
                  /\ \A r \in Rooms : (id \in DevicesInRoom(r)) = ("ROOM" \in DOMAIN told /\ (told["ROOM"] = r))
                  /\ \A b \in Parts : (id \in DevicesInBuildingPart(b))
                                      = ("BUILDING_PART" \in DOMAIN told /\ (told["BUILDING_PART"] = b))
                  /\ \A k \in Cats : (id \in DevicesInCategory(k))
                                     = ("CATEGORIES" \in DOMAIN told /\ k \in told.CATEGORIES)
  <2>1. PICK x : x = getDeviceDescription(c, Places)
    BY ZenonT(30)
  <2>2. c \in {-1} \cup Existing /\ x # <<>> /\ devices[id][c] = x
    BY <1>4, <1>5, <2>1 DEF getDeviceDescriptions
  <2>3. Description("id", id, c, Places) = x
    BY <1>1, <2>1, OneAnswers DEF Description, IdOf
  <2>4. told = Part(devices[id][c], Places)
    BY <1>5, <2>2, <2>3
  <2>5. WhereIs(x, c)
    BY <2>1, <2>2, DescriptionPlaced
  <2>6. /\ DOMAIN told = Places \cap DOMAIN x
        /\ \A n \in DOMAIN told : told[n] = x[n]
    BY <1>5, <2>3 DEF Part
  <2>7. WhereIs(told, c)
    <3>1. /\ "ROOM" \in DOMAIN told <=> "ROOM" \in DOMAIN x
          /\ "BUILDING_PART" \in DOMAIN told <=> "BUILDING_PART" \in DOMAIN x
          /\ "CATEGORIES" \in DOMAIN told <=> "CATEGORIES" \in DOMAIN x
      BY <2>6 DEF Places
    <3> QED
      BY <2>5, <2>6, <3>1 DEF WhereIs
  <2>8. ThePeer \in Asked(checkAcls)
    BY <1>4, <1>5
  <2>9. ASSUME NEW r \in Rooms
        PROVE  ("ROOM" \in DOMAIN told /\ told["ROOM"] = r) <=> getRoom(c) = r
    <3>1. r # 0
      BY PlacementAssumption
    <3> QED
      BY <2>7, <3>1 DEF WhereIs
  <2>10. ASSUME NEW b \in Parts
         PROVE  ("BUILDING_PART" \in DOMAIN told /\ told["BUILDING_PART"] = b) <=> getBuildingPart(c) = b
    <3>1. b # 0
      BY PlacementAssumption
    <3> QED
      BY <2>7, <3>1 DEF WhereIs
  <2>11. ASSUME NEW k \in Cats
         PROVE  ("CATEGORIES" \in DOMAIN told /\ k \in told.CATEGORIES) <=> k \in getCategories(c)
    BY <2>7 DEF WhereIs
  <2>12. ASSUME NEW r \in Rooms PROVE c \in ListedBy(ChannelsInRoom(r, checkAcls)) <=> getRoom(c) = r
    <3>1. r # 0
      BY PlacementAssumption
    <3>2. ListedBy(ChannelsInRoom(r, checkAcls)) = getChannelsInRoom(r)
      BY <2>8, WhichListed DEF ChannelsInRoom
    <3> QED
      BY <3>1, <3>2 DEF getChannelsInRoom, getRoom
  <2>13. ASSUME NEW b \in Parts
         PROVE  c \in ListedBy(ChannelsInBuildingPart(b, checkAcls)) <=> getBuildingPart(c) = b
    <3>1. b # 0
      BY PlacementAssumption
    <3>2. ListedBy(ChannelsInBuildingPart(b, checkAcls)) = getChannelsInBuildingPart(b)
      BY <2>8, WhichListed DEF ChannelsInBuildingPart
    <3> QED
      BY <3>1, <3>2 DEF getChannelsInBuildingPart, getBuildingPart
  <2>14. ASSUME NEW k \in Cats
         PROVE  c \in ListedBy(ChannelsInCategory(k, checkAcls)) <=> k \in getCategories(c)
    <3>1. ListedBy(ChannelsInCategory(k, checkAcls)) = getChannelsInCategory(k)
      BY <2>8, WhichListed DEF ChannelsInCategory
    <3> QED
      BY <3>1 DEF getChannelsInCategory, getCategories
  <2>15. ASSUME NEW r \in Rooms PROVE id \in DevicesInRoom(r) <=> getRoom(-1) = r
    <3>1. r # 0
      BY PlacementAssumption
    <3>2. \A q \in getPeers : r = (IF q = ThePeer THEN getRoom(-1) ELSE 0) <=> q = ThePeer /\ getRoom(-1) = r
      BY <3>1
    <3>3. DevicesInRoom(r) = {IdOf(p) : p \in {q \in Peers : q = ThePeer /\ getRoom(-1) = r}}
      BY <1>3, <3>2 DEF DevicesInRoom
    <3> QED
      BY <1>1, <1>3, <3>3
  <2>16. ASSUME NEW b \in Parts PROVE id \in DevicesInBuildingPart(b) <=> getBuildingPart(-1) = b
    <3>1. b # 0
      BY PlacementAssumption
    <3>2. \A q \in getPeers : b = (IF q = ThePeer THEN getBuildingPart(-1) ELSE 0)
                              <=> q = ThePeer /\ getBuildingPart(-1) = b
      BY <3>1
    <3>3. DevicesInBuildingPart(b) = {IdOf(p) : p \in {q \in Peers : q = ThePeer /\ getBuildingPart(-1) = b}}
      BY <1>3, <3>2 DEF DevicesInBuildingPart
    <3> QED
      BY <1>1, <1>3, <3>3
  <2>17. ASSUME NEW k \in Cats PROVE id \in DevicesInCategory(k) <=> k \in getCategories(-1)
    <3>1. k # 0
      BY PlacementAssumption
    <3>2. DevicesInCategory(k) = {IdOf(p) : p \in {q \in Peers : q = ThePeer /\ k \in getCategories(-1)}}
      BY <1>3, <3>1 DEF DevicesInCategory, hasCategory
    <3> QED
      BY <1>1, <1>3, <3>2
  <2> QED
    BY <2>4, <2>9, <2>10, <2>11, <2>12, <2>13, <2>14, <2>15, <2>16, <2>17
<1>6. (IdOf(ThePeer) \in DOMAIN listDevices(TRUE, Places, {}, checkAcls)) = (ThePeer \in Asked(checkAcls))
  <2>1. (id \in DOMAIN devices) = (ThePeer \in Asked(checkAcls))
    BY <1>4
  <2> QED
    BY <1>1, <2>1, Zenon
<1>7. SUFFICES ASSUME IdOf(ThePeer) \in DOMAIN listDevices(TRUE, Places, {}, checkAcls),
                      NEW c \in DOMAIN listDevices(TRUE, Places, {}, checkAcls)[IdOf(ThePeer)]
               PROVE  LET told == Part(Description("id", IdOf(ThePeer), c, Places), Places)
                          within(name, x) == name \in DOMAIN told /\ (told[name] = x)
                          has(k) == "CATEGORIES" \in DOMAIN told /\ k \in told.CATEGORIES
                          id_ == IdOf(ThePeer)
                      IN  /\ told = Part(listDevices(TRUE, Places, {}, checkAcls)[id_][c], Places)
                          /\ \A r \in Rooms : (c \in ListedBy(ChannelsInRoom(r, checkAcls))) = within("ROOM", r)
                          /\ \A b \in Parts :
                               (c \in ListedBy(ChannelsInBuildingPart(b, checkAcls))) = within("BUILDING_PART", b)
                          /\ \A k \in Cats : (c \in ListedBy(ChannelsInCategory(k, checkAcls))) = has(k)
                          /\ c = -1 =>
                               /\ \A r \in Rooms : (id_ \in DevicesInRoom(r)) = within("ROOM", r)
                               /\ \A b \in Parts : (id_ \in DevicesInBuildingPart(b)) = within("BUILDING_PART", b)
                               /\ \A k \in Cats : (id_ \in DevicesInCategory(k)) = has(k)
  BY <1>6 DEF SameDevices
<1>8. PICK told : told = Part(Description("id", id, c, Places), Places)
  BY ZenonT(30)
<1>9. id \in DOMAIN devices /\ c \in DOMAIN devices[id]
  BY <1>1, <1>7
<1>10. /\ told = Part(devices[id][c], Places)
       /\ \A r \in Rooms : (c \in ListedBy(ChannelsInRoom(r, checkAcls)))
                           = ("ROOM" \in DOMAIN told /\ (told["ROOM"] = r))
       /\ \A b \in Parts : (c \in ListedBy(ChannelsInBuildingPart(b, checkAcls)))
                           = ("BUILDING_PART" \in DOMAIN told /\ (told["BUILDING_PART"] = b))
       /\ \A k \in Cats : (c \in ListedBy(ChannelsInCategory(k, checkAcls)))
                          = ("CATEGORIES" \in DOMAIN told /\ k \in told.CATEGORIES)
       /\ c = -1 =>
            /\ \A r \in Rooms : (id \in DevicesInRoom(r)) = ("ROOM" \in DOMAIN told /\ (told["ROOM"] = r))
            /\ \A b \in Parts : (id \in DevicesInBuildingPart(b))
                                = ("BUILDING_PART" \in DOMAIN told /\ (told["BUILDING_PART"] = b))
            /\ \A k \in Cats : (id \in DevicesInCategory(k))
                               = ("CATEGORIES" \in DOMAIN told /\ k \in told.CATEGORIES)
  BY <1>5, <1>8, <1>9
<1> QED
  BY <1>1, <1>8, <1>10, Zenon

LEMMA PlacesSame == ASSUME AtRest, PlacementInv, NEW checkAcls \in BOOLEAN PROVE SamePlaces(checkAcls)
  BY VariablePlacesSame, RolesSame, DevicesSame DEF SamePlaces

LEMMA PeersSame == ASSUME AtRest PROVE SamePeers
<1> SUFFICES ASSUME NEW p \in Peers, NEW channel
             PROVE  /\ Description("id", IdOf(p), channel, {}) = Description("serial", own["serial"][p], channel, {})
                    /\ getPeerId(own["serial"][p], FALSE) = {IdOf(p)}
  BY DEF SamePeers
<1>1. /\ peerExists("id", IdOf(p)) /\ getPeer("id", IdOf(p)) = p
      /\ peerExists("serial", own["serial"][p]) /\ getPeer("serial", own["serial"][p]) = p
  BY DEF AtRest, IdOf
<1>2. ASSUME NEW answer PROVE AskOne("id", IdOf(p), answer) = AskOne("serial", own["serial"][p], answer)
  <2>1. AskOne("id", IdOf(p), answer) = IF p = ThePeer THEN answer ELSE Elsewhere(p)
    BY <1>1 DEF AskOne
  <2>2. AskOne("serial", own["serial"][p], answer) = IF p = ThePeer THEN answer ELSE Elsewhere(p)
    BY <1>1 DEF AskOne
  <2> QED
    BY <2>1, <2>2
<1>3. {q \in Asked(FALSE) : peerExists("serial", own["serial"][p]) /\ getPeer("serial", own["serial"][p]) = q} = {p}
  <2>1. PICK all : all = Asked(FALSE)
    BY ZenonT(30)
  <2>2. all = Peers
    BY <2>1, AllAsked
  <2>3. {q \in all : peerExists("serial", own["serial"][p]) /\ getPeer("serial", own["serial"][p]) = q} = {p}
    BY <1>1, <2>2
  <2> QED
    BY <2>1, <2>3
<1>4. getPeerId(own["serial"][p], FALSE) = {IdOf(p)}
  BY <1>3 DEF getPeerId
<1> QED
  BY <1>2, <1>4 DEF Description

(* Links.  At rest the entry of a link leads to the other end.             *)
LEMMA LinkForm ==
  ASSUME NEW x \in DOMAIN LinksOf, NEW i \in DOMAIN LinksOf[x]
  PROVE  /\ x = <<x[1], x[2]>> /\ x[1] \in Peers
         /\ LinksOf[x][i] \in [to : Peers, channel : Int, sender : BOOLEAN]
         /\ <<x[1], LinksOf[x][i].to>> \in Links
         /\ i \in Nat \ {0} /\ \A j \in 1..i : j \in DOMAIN LinksOf[x]
<1>1. /\ x = <<x[1], x[2]>> /\ x[1] \in Peers
      /\ LinksOf[x] \in Seq([to : Peers, channel : Int, sender : BOOLEAN])
      /\ LinksOf[x][i].to \in LinkedTo[x[1]]
  BY CentralRpcAssumption
<1>2. /\ LinksOf[x][i] \in [to : Peers, channel : Int, sender : BOOLEAN]
      /\ i \in Nat \ {0} /\ \A j \in 1..i : j \in DOMAIN LinksOf[x]
  <2>1. PICK s : s = LinksOf[x]
    BY ZenonT(30)
  <2>2. PICK T : T = [to : Peers, channel : Int, sender : BOOLEAN]
    BY ZenonT(30)
  <2>3. s \in Seq(T) /\ i \in DOMAIN s
    BY <1>1, <2>1, <2>2
  <2>4. s[i] \in T /\ i \in Nat \ {0} /\ \A j \in 1..i : j \in DOMAIN s
    BY <2>3
  <2> QED
    BY <2>1, <2>2, <2>4
<1>3. LinksOf[x][i].to \in Peers
  BY <1>2
<1>4. <<x[1], LinksOf[x][i].to>> \in Links
  BY <1>1, <1>3 DEF Links
<1> QED
  BY <1>1, <1>2, <1>4

LeadsTo(p, link) ==
  /\ entry["id"][<<p, link.to>>] = IdOf(link.to) /\ entry["serial"][<<p, link.to>>] = own["serial"][link.to]
  /\ Known(p, link) /\ Remote(p, link) = link.to
LEMMA LinkLeads ==
  ASSUME AtRest, NEW x \in DOMAIN LinksOf, NEW i \in DOMAIN LinksOf[x] PROVE LeadsTo(x[1], LinksOf[x][i])
<1>0. PICK p, link : p = x[1] /\ link = LinksOf[x][i]
  BY ZenonT(30)
<1>1. <<p, link.to>> \in Links /\ link.to \in Peers
  BY <1>0, LinkForm
<1>2. /\ entry["id"][<<p, link.to>>] = IdOf(link.to) /\ entry["serial"][<<p, link.to>>] = own["serial"][link.to]
  <2>1. <<p, link.to>>[2] = link.to
    OBVIOUS
  <2> QED
    BY <1>1, <2>1 DEF AtRest, IdOf
<1>3. peerExists("id", IdOf(link.to)) /\ getPeer("id", IdOf(link.to)) = link.to
  BY <1>1 DEF AtRest, IdOf
<1>4. LeadsTo(p, link)
  BY <1>2, <1>3 DEF LeadsTo, Known, Remote
<1> QED
  BY <1>0, <1>4

End(p, c) == [id |-> IdOf(p), serial |-> own["serial"][p], channel |-> c]
LEMMA EndsDiffer ==
  ASSUME AtRest, NEW p \in Peers, NEW q \in Peers, NEW c, NEW d, End(p, c) = End(q, d)
  PROVE  p = q /\ c = d
<1>1. IdOf(p) = IdOf(q) /\ c = d
  BY DEF End
<1> QED
  BY <1>1 DEF AtRest, IdOf

LEMMA ElementForm ==
  ASSUME AtRest, NEW x \in DOMAIN LinksOf, NEW i \in DOMAIN LinksOf[x], NEW link, link = LinksOf[x][i]
  PROVE  LinkElement(x[1], x[2], link) =
           IF link.sender THEN [SENDER |-> End(x[1], x[2]), RECEIVER |-> End(link.to, link.channel)]
                          ELSE [SENDER |-> End(link.to, link.channel), RECEIVER |-> End(x[1], x[2])]
<1>1. Remote(x[1], link) = link.to
  BY LinkLeads DEF LeadsTo
<1> QED
  BY <1>1 DEF LinkElement, End

Stops(x, j) ==
  Known(x[1], LinksOf[x][j]) /\ ~LinksOf[x][j].sender /\ KnowsMe(x[1], x[2], LinksOf[x][j])

LEMMA LinksTold ==
  ASSUME AtRest, NEW x \in DOMAIN LinksOf, NEW avoid \in BOOLEAN
  PROVE  /\ \A i : i \in DOMAIN getLink(x[1], x[2], avoid) <=>
              /\ i \in DOMAIN LinksOf[x] /\ LinkTypes[x] # {}
              /\ \A j \in 1..i : ~(avoid /\ Stops(x, j))
         /\ \A i \in DOMAIN getLink(x[1], x[2], avoid) :
              getLink(x[1], x[2], avoid)[i] = LinkElement(x[1], x[2], LinksOf[x][i])
<1>1. PICK p, c : p = x[1] /\ c = x[2]
  BY ZenonT(30)
<1>2. <<p, c>> = x
  BY <1>1, CentralRpcAssumption
<1> DEFINE stops(j) == avoid /\ Known(p, LinksOf[x][j]) /\ ~LinksOf[x][j].sender /\ KnowsMe(p, c, LinksOf[x][j])
           told == {i \in DOMAIN LinksOf[x] : Known(p, LinksOf[x][i]) /\ \A j \in 1..i : ~stops(j)}
<1>3. getLink(p, c, avoid) =
        [i \in IF LinkTypes[x] = {} THEN {} ELSE told |-> LinkElement(p, c, LinksOf[x][i])]
  BY <1>2 DEF getLink
<1>4. \A j : stops(j) <=> avoid /\ Stops(x, j)
  BY <1>1 DEF Stops
<1>5. \A i \in DOMAIN LinksOf[x] : Known(p, LinksOf[x][i])
  BY <1>1, LinkLeads DEF LeadsTo
<1> HIDE DEF stops
<1>6. \A i : i \in told <=> i \in DOMAIN LinksOf[x] /\ \A j \in 1..i : ~(avoid /\ Stops(x, j))
  BY <1>4, <1>5
<1> HIDE DEF told
<1> QED
  BY <1>1, <1>3, <1>6

(* A receiver does not tell what the sender tells.                         *)
LEMMA SenderTells ==
  ASSUME AtRest, NEW a \in DOMAIN LinksOf, NEW b \in DOMAIN LinksOf,
         NEW i \in DOMAIN getLink(a[1], a[2], TRUE), NEW j \in DOMAIN getLink(b[1], b[2], TRUE),
         LinksOf[a][i].sender, ~LinksOf[b][j].sender
  PROVE  LinkElement(a[1], a[2], LinksOf[a][i]) # LinkElement(b[1], b[2], LinksOf[b][j])
<1> SUFFICES ASSUME LinkElement(a[1], a[2], LinksOf[a][i]) = LinkElement(b[1], b[2], LinksOf[b][j])
             PROVE  FALSE
  OBVIOUS
<1>1. i \in DOMAIN LinksOf[a] /\ j \in DOMAIN LinksOf[b] /\ \A k \in 1..j : ~Stops(b, k)
  BY LinksTold
<1>2. PICK s, r : s = LinksOf[a][i] /\ r = LinksOf[b][j]
  BY ZenonT(30)
<1>3. PICK p, c, q, d : p = a[1] /\ c = a[2] /\ q = b[1] /\ d = b[2]
  BY ZenonT(30)
<1>4. a = <<p, c>> /\ b = <<q, d>> /\ p \in Peers /\ q \in Peers /\ s.to \in Peers /\ r.to \in Peers /\ j \in Nat \ {0}
  BY <1>1, <1>2, <1>3, LinkForm
<1>5. LinkElement(p, c, s) = [SENDER |-> End(p, c), RECEIVER |-> End(s.to, s.channel)]
  BY <1>1, <1>2, <1>3, ElementForm
<1>6. LinkElement(q, d, r) = [SENDER |-> End(r.to, r.channel), RECEIVER |-> End(q, d)]
  BY <1>1, <1>2, <1>3, ElementForm
<1>7. End(p, c) = End(r.to, r.channel) /\ End(s.to, s.channel) = End(q, d)
  <2>1. LinkElement(p, c, s) = LinkElement(q, d, r)
    BY <1>2, <1>3
  <2>2. PICK e : e = LinkElement(p, c, s)
    BY ZenonT(30)
  <2>3. e.SENDER = End(p, c) /\ e.RECEIVER = End(s.to, s.channel)
    BY <1>5, <2>2
  <2>4. e.SENDER = End(r.to, r.channel) /\ e.RECEIVER = End(q, d)
    BY <1>6, <2>1, <2>2
  <2> QED
    BY <2>3, <2>4
<1>8. r.to = p /\ r.channel = c /\ s.to = q /\ s.channel = d
  BY <1>4, <1>7, EndsDiffer
<1>9. Known(q, r) /\ Remote(q, r) = p
  <2>1. LeadsTo(q, r)
    BY <1>1, <1>2, <1>3, LinkLeads
  <2> QED
    BY <1>8, <2>1 DEF LeadsTo
<1>10. entry["id"][<<p, s.to>>] = IdOf(q)
  <2>1. LeadsTo(p, s)
    BY <1>1, <1>2, <1>3, LinkLeads
  <2> QED
    BY <1>8, <2>1 DEF LeadsTo
<1>11. i \in EntryOf(p, c, IdOf(q), d)
  <2>1. c \in LinkedChannels(p)
    BY <1>3, <1>4 DEF LinkedChannels
  <2>2. LinksOf[<<p, c>>][i] = s /\ i \in DOMAIN LinksOf[<<p, c>>]
    BY <1>1, <1>2, <1>4
  <2> QED
    BY <1>8, <1>10, <2>1, <2>2 DEF EntryOf
<1>12. KnowsMe(q, d, r)
  BY <1>8, <1>9, <1>11 DEF KnowsMe
<1>13. Stops(b, j)
  BY <1>2, <1>3, <1>9, <1>12 DEF Stops
<1>14. j \in 1..j
  BY <1>4
<1> QED
  BY <1>1, <1>13, <1>14

(* No channel tells a link twice.                                          *)
LEMMA TellsOnce ==
  ASSUME LinksPaired, AtRest, NEW a \in DOMAIN LinksOf, NEW b \in DOMAIN LinksOf,
         NEW i \in DOMAIN LinksOf[a], NEW j \in DOMAIN LinksOf[b],
         LinksOf[a][i].sender = LinksOf[b][j].sender,
         LinkElement(a[1], a[2], LinksOf[a][i]) = LinkElement(b[1], b[2], LinksOf[b][j])
  PROVE  a = b /\ i = j
<1>1. PICK s, r : s = LinksOf[a][i] /\ r = LinksOf[b][j]
  BY ZenonT(30)
<1>2. PICK p, c, q, d : p = a[1] /\ c = a[2] /\ q = b[1] /\ d = b[2]
  BY ZenonT(30)
<1>3. PICK T : T = [to : Peers, channel : Int, sender : BOOLEAN]
  BY ZenonT(30)
<1>4. a = <<p, c>> /\ b = <<q, d>> /\ p \in Peers /\ q \in Peers /\ s \in T /\ r \in T
  BY <1>1, <1>2, <1>3, LinkForm
<1>5. s.to \in Peers /\ r.to \in Peers /\ s.sender = r.sender
  BY <1>1, <1>3, <1>4
<1>6. PICK e : e = LinkElement(p, c, s) /\ e = LinkElement(q, d, r)
  BY <1>1, <1>2
<1>7. e = IF s.sender THEN [SENDER |-> End(p, c), RECEIVER |-> End(s.to, s.channel)]
                      ELSE [SENDER |-> End(s.to, s.channel), RECEIVER |-> End(p, c)]
  BY <1>1, <1>2, <1>6, ElementForm
<1>8. e = IF r.sender THEN [SENDER |-> End(q, d), RECEIVER |-> End(r.to, r.channel)]
                      ELSE [SENDER |-> End(r.to, r.channel), RECEIVER |-> End(q, d)]
  BY <1>1, <1>2, <1>6, ElementForm
<1>9. End(p, c) = End(q, d) /\ End(s.to, s.channel) = End(r.to, r.channel)
  <2>1. CASE s.sender
    <3>1. e.SENDER = End(p, c) /\ e.RECEIVER = End(s.to, s.channel)
      BY <1>7, <2>1
    <3>2. e.SENDER = End(q, d) /\ e.RECEIVER = End(r.to, r.channel)
      BY <1>5, <1>8, <2>1
    <3> QED
      BY <3>1, <3>2
  <2>2. CASE ~s.sender
    <3>1. e.RECEIVER = End(p, c) /\ e.SENDER = End(s.to, s.channel)
      BY <1>7, <2>2
    <3>2. e.RECEIVER = End(q, d) /\ e.SENDER = End(r.to, r.channel)
      BY <1>5, <1>8, <2>2
    <3> QED
      BY <3>1, <3>2
  <2> QED
    BY <2>1, <2>2
<1>10. p = q /\ c = d
  BY <1>4, <1>9, EndsDiffer
<1>11. s.to = r.to /\ s.channel = r.channel
  BY <1>5, <1>9, EndsDiffer
<1>12. s = r
  BY <1>3, <1>4, <1>5, <1>11
<1>13. a = b
  BY <1>4, <1>10
<1> QED
  BY <1>1, <1>12, <1>13 DEF LinksPaired

Origin(links, z) ==
  \E x \in DOMAIN LinksOf : \E i \in DOMAIN getLink(x[1], x[2], TRUE) :
    z = <<x[1], x[2], i>> /\ links[z] = LinkElement(x[1], x[2], LinksOf[x][i])

LEMMA LinksListed ==
  ASSUME AtRest, NEW links, links = getLinks(FALSE)
  PROVE  /\ \A z \in DOMAIN links : Origin(links, z)
         /\ \A x \in DOMAIN LinksOf : \A i \in DOMAIN getLink(x[1], x[2], TRUE) :
              /\ <<x[1], x[2], i>> \in DOMAIN links
              /\ links[<<x[1], x[2], i>>] = LinkElement(x[1], x[2], LinksOf[x][i])
<1>1. \A x \in DOMAIN LinksOf : x[1] \in Asked(FALSE)
  <2>1. PICK all : all = Asked(FALSE)
    BY ZenonT(30)
  <2>2. all = Peers
    BY <2>1, AllAsked
  <2> QED
    BY <2>1, <2>2, CentralRpcAssumption
<1> DEFINE told(x) == getLink(x[1], x[2], TRUE)
           spots(x) == {<<x[1], x[2], i>> : i \in DOMAIN told(x)}
           places == UNION {spots(x) : x \in DOMAIN LinksOf}
<1>2. {x \in DOMAIN LinksOf : x[1] \in Asked(FALSE)} = DOMAIN LinksOf
  BY <1>1
<1>3. links = [z \in places |-> told(z)[z[3]]]
  BY <1>2 DEF getLinks
<1>4. ASSUME NEW x \in DOMAIN LinksOf, NEW i \in DOMAIN told(x), NEW z, z = <<x[1], x[2], i>>
      PROVE  z \in places /\ told(z)[z[3]] = LinkElement(x[1], x[2], LinksOf[x][i])
  <2>1. z \in places
    <3>1. z \in spots(x)
      BY <1>4
    <3> HIDE DEF spots
    <3> QED
      BY <3>1
  <2>2. z[1] = x[1] /\ z[2] = x[2] /\ z[3] = i
    BY <1>4
  <2>3. told(z)[z[3]] = told(x)[i]
    BY <2>2
  <2>4. told(x)[i] = LinkElement(x[1], x[2], LinksOf[x][i])
    BY LinksTold
  <2> QED
    BY <2>1, <2>3, <2>4
<1>5. ASSUME NEW z \in places PROVE \E x \in DOMAIN LinksOf : \E i \in DOMAIN told(x) : z = <<x[1], x[2], i>>
  OBVIOUS
<1>6. DOMAIN links = places /\ \A z \in places : links[z] = told(z)[z[3]]
  BY <1>3
<1> HIDE DEF places, told
<1>7. ASSUME NEW z \in DOMAIN links
      PROVE  \E x \in DOMAIN LinksOf : \E i \in DOMAIN told(x) :
               z = <<x[1], x[2], i>> /\ links[z] = LinkElement(x[1], x[2], LinksOf[x][i])
  <2>0. PICK x \in DOMAIN LinksOf : \E i \in DOMAIN told(x) : z = <<x[1], x[2], i>>
    BY <1>5, <1>6
  <2>1. PICK i \in DOMAIN told(x) : z = <<x[1], x[2], i>>
    BY <2>0
  <2>2. links[z] = LinkElement(x[1], x[2], LinksOf[x][i])
    BY <1>4, <1>6, <2>1
  <2> QED
    BY <2>1, <2>2
<1>8. \A x \in DOMAIN LinksOf : \A i \in DOMAIN told(x) :
        /\ <<x[1], x[2], i>> \in DOMAIN links
        /\ links[<<x[1], x[2], i>>] = LinkElement(x[1], x[2], LinksOf[x][i])
  <2> SUFFICES ASSUME NEW x \in DOMAIN LinksOf, NEW i \in DOMAIN told(x)
               PROVE  /\ <<x[1], x[2], i>> \in DOMAIN links
                      /\ links[<<x[1], x[2], i>>] = LinkElement(x[1], x[2], LinksOf[x][i])
    OBVIOUS
  <2>1. PICK z : z = <<x[1], x[2], i>>
    BY ZenonT(30)
  <2>2. z \in places /\ told(z)[z[3]] = LinkElement(x[1], x[2], LinksOf[x][i])
    BY <1>4, <2>1
  <2>3. z \in DOMAIN links /\ links[z] = LinkElement(x[1], x[2], LinksOf[x][i])
    BY <1>6, <2>2
  <2> QED
    BY <2>1, <2>3
<1>9. \A z \in DOMAIN links : Origin(links, z)
  BY <1>7 DEF told, Origin
<1> QED
  BY <1>8, <1>9 DEF told

LEMMA EachOnce ==
  ASSUME LinksPaired, AtRest, NEW links, links = getLinks(FALSE),
         NEW y \in DOMAIN links, NEW z \in DOMAIN links, links[y] = links[z]
  PROVE  y = z
<1>1. PICK a \in DOMAIN LinksOf : \E i \in DOMAIN getLink(a[1], a[2], TRUE) :
        y = <<a[1], a[2], i>> /\ links[y] = LinkElement(a[1], a[2], LinksOf[a][i])
  <2>1. Origin(links, y)
    BY LinksListed
  <2> QED
    BY <2>1 DEF Origin
<1>2. PICK i \in DOMAIN getLink(a[1], a[2], TRUE) :
        y = <<a[1], a[2], i>> /\ links[y] = LinkElement(a[1], a[2], LinksOf[a][i])
  BY <1>1
<1>3. PICK b \in DOMAIN LinksOf : \E j \in DOMAIN getLink(b[1], b[2], TRUE) :
        z = <<b[1], b[2], j>> /\ links[z] = LinkElement(b[1], b[2], LinksOf[b][j])
  <2>1. Origin(links, z)
    BY LinksListed
  <2> QED
    BY <2>1 DEF Origin
<1>4. PICK j \in DOMAIN getLink(b[1], b[2], TRUE) :
        z = <<b[1], b[2], j>> /\ links[z] = LinkElement(b[1], b[2], LinksOf[b][j])
  BY <1>3
<1>5. LinkElement(a[1], a[2], LinksOf[a][i]) = LinkElement(b[1], b[2], LinksOf[b][j])
  BY <1>2, <1>4
<1>6. i \in DOMAIN LinksOf[a] /\ j \in DOMAIN LinksOf[b]
  BY LinksTold
<1>7. LinksOf[a][i].sender \in BOOLEAN /\ LinksOf[b][j].sender \in BOOLEAN
  BY <1>6, LinkForm
<1>8. LinksOf[a][i].sender = LinksOf[b][j].sender
  <2>1. ~(LinksOf[a][i].sender /\ ~LinksOf[b][j].sender)
    BY <1>5, SenderTells
  <2>2. ~(LinksOf[b][j].sender /\ ~LinksOf[a][i].sender)
    BY <1>5, SenderTells
  <2> QED
    BY <1>7, <2>1, <2>2
<1>9. a = b /\ i = j
  BY <1>5, <1>6, <1>8, TellsOnce
<1> QED
  BY <1>2, <1>4, <1>9

(* The link of a pair, as both of its ends tell it.                        *)
LEMMA PairTells ==
  ASSUME LinksPaired, AtRest, NEW l \in Links
  PROVE  \E x, y \in DOMAIN LinksOf :
           /\ {x[1], y[1]} = {l[1], l[2]}
           /\ \E i \in DOMAIN getLink(x[1], x[2], TRUE) :
                LinkElement(x[1], x[2], LinksOf[x][i]) = [SENDER |-> End(x[1], x[2]), RECEIVER |-> End(y[1], y[2])]
           /\ [SENDER |-> End(x[1], x[2]), RECEIVER |-> End(y[1], y[2])] \in getLinksOf(x[1]) \cap getLinksOf(y[1])
<1>1. PICK x, y \in DOMAIN LinksOf :
        /\ {x[1], y[1]} = {l[1], l[2]} /\ LinkTypes[x] # {} /\ LinkTypes[y] # {}
        /\ \E i \in DOMAIN LinksOf[x] : /\ LinksOf[x][i] = [to |-> y[1], channel |-> y[2], sender |-> TRUE]
                                        /\ \A j \in 1..i : LinksOf[x][j].sender
        /\ \E i \in DOMAIN LinksOf[y] : LinksOf[y][i] = [to |-> x[1], channel |-> x[2], sender |-> FALSE]
  BY DEF LinksPaired
<1>2. PICK i \in DOMAIN LinksOf[x] : /\ LinksOf[x][i] = [to |-> y[1], channel |-> y[2], sender |-> TRUE]
                                     /\ \A j \in 1..i : LinksOf[x][j].sender
  BY <1>1
<1>3. PICK k \in DOMAIN LinksOf[y] : LinksOf[y][k] = [to |-> x[1], channel |-> x[2], sender |-> FALSE]
  BY <1>1
<1>4. PICK e : e = [SENDER |-> End(x[1], x[2]), RECEIVER |-> End(y[1], y[2])]
  BY ZenonT(30)
<1>5. LinkElement(x[1], x[2], LinksOf[x][i]) = e
  <2>1. PICK s : s = LinksOf[x][i]
    BY ZenonT(30)
  <2>2. s.to = y[1] /\ s.channel = y[2] /\ s.sender = TRUE
    BY <1>2, <2>1
  <2>3. LinkElement(x[1], x[2], s) =
          IF s.sender THEN [SENDER |-> End(x[1], x[2]), RECEIVER |-> End(s.to, s.channel)]
                      ELSE [SENDER |-> End(s.to, s.channel), RECEIVER |-> End(x[1], x[2])]
    BY <2>1, ElementForm
  <2> QED
    BY <1>4, <2>1, <2>2, <2>3
<1>6. LinkElement(y[1], y[2], LinksOf[y][k]) = e
  <2>1. PICK s : s = LinksOf[y][k]
    BY ZenonT(30)
  <2>2. s.to = x[1] /\ s.channel = x[2] /\ s.sender = FALSE
    BY <1>3, <2>1
  <2>3. LinkElement(y[1], y[2], s) =
          IF s.sender THEN [SENDER |-> End(y[1], y[2]), RECEIVER |-> End(s.to, s.channel)]
                      ELSE [SENDER |-> End(s.to, s.channel), RECEIVER |-> End(y[1], y[2])]
    BY <2>1, ElementForm
  <2> QED
    BY <1>4, <2>1, <2>2, <2>3
<1>7. i \in DOMAIN getLink(x[1], x[2], TRUE)
  <2>1. \A j \in 1..i : ~Stops(x, j)
    BY <1>2 DEF Stops
  <2> QED
    BY <1>1, <2>1, LinksTold
<1>8. ASSUME NEW z \in DOMAIN LinksOf, LinkTypes[z] # {}, NEW j \in DOMAIN LinksOf[z],
             LinkElement(z[1], z[2], LinksOf[z][j]) = e
      PROVE  e \in getLinksOf(z[1])
  <2>1. PICK p, c : p = z[1] /\ c = z[2]
    BY ZenonT(30)
  <2>2. z = <<p, c>>
    BY <2>1, CentralRpcAssumption
  <2>3. PICK f : f = getLink(p, c, FALSE)
    BY ZenonT(30)
  <2>4. j \in DOMAIN f /\ f[j] = e
    <3>1. FALSE \in BOOLEAN
      OBVIOUS
    <3>2. j \in DOMAIN getLink(z[1], z[2], FALSE)
      BY <1>8, <3>1, LinksTold
    <3>3. getLink(z[1], z[2], FALSE)[j] = e
      BY <1>8, <3>1, <3>2, LinksTold
    <3> QED
      BY <2>1, <2>3, <3>2, <3>3
  <2>5. c \in LinkedChannels(p)
    BY <2>1, <2>2 DEF LinkedChannels
  <2>6. e \in {f[n] : n \in DOMAIN f}
    BY <2>4
  <2>7. e \in getLinksOf(p)
    <3> DEFINE of(d) == {getLink(p, d, FALSE)[n] : n \in DOMAIN getLink(p, d, FALSE)}
    <3>1. getLinksOf(p) = UNION {of(d) : d \in LinkedChannels(p)}
      BY DEF getLinksOf
    <3>2. e \in of(c)
      BY <2>3, <2>6
    <3> HIDE DEF of
    <3> QED
      BY <2>5, <3>1, <3>2
  <2> QED
    BY <2>1, <2>7
<1>9. e \in getLinksOf(x[1])
  BY <1>1, <1>5, <1>8
<1>10. e \in getLinksOf(y[1])
  BY <1>1, <1>6, <1>8
<1>11. \E n \in DOMAIN getLink(x[1], x[2], TRUE) :
         LinkElement(x[1], x[2], LinksOf[x][n]) = [SENDER |-> End(x[1], x[2]), RECEIVER |-> End(y[1], y[2])]
  BY <1>4, <1>5, <1>7
<1>12. [SENDER |-> End(x[1], x[2]), RECEIVER |-> End(y[1], y[2])] \in getLinksOf(x[1]) \cap getLinksOf(y[1])
  BY <1>4, <1>9, <1>10
<1> QED
  BY <1>1, <1>11, <1>12

LEMMA PartnersSame ==
  ASSUME AtRest, NEW x \in DOMAIN LinksOf, NEW partner \in getLinkPeers(x[1], x[2], TRUE)
  PROVE  \E other \in getLinkPeers(x[1], x[2], FALSE) :
           getPeer("id", partner[1]) = getPeer("serial", other[1]) /\ partner[2] = other[2]
<1>1. PICK p, c : p = x[1] /\ c = x[2]
  BY ZenonT(30)
<1>2. x = <<p, c>>
  BY <1>1, CentralRpcAssumption
<1>3. LinkTypes[x] # {}
  BY <1>1, <1>2 DEF getLinkPeers
<1>4. PICK i \in DOMAIN LinksOf[x] : partner = <<IdOf(Remote(p, LinksOf[x][i])), LinksOf[x][i].channel>>
  <2>1. partner \in {<<IdOf(Remote(p, LinksOf[x][i])), LinksOf[x][i].channel>> :
                       i \in {j \in DOMAIN LinksOf[x] : Known(p, LinksOf[x][j])}}
    BY <1>1, <1>2, <1>3 DEF getLinkPeers
  <2> QED
    BY <2>1
<1>5. PICK link : link = LinksOf[x][i]
  BY ZenonT(30)
<1>6. PICK other : other = <<entry["serial"][<<p, link.to>>], link.channel>>
  BY ZenonT(30)
<1>7. other \in getLinkPeers(p, c, FALSE)
  <2>1. getLinkPeers(p, c, FALSE) =
          {<<entry["serial"][<<p, LinksOf[x][n].to>>], LinksOf[x][n].channel>> : n \in DOMAIN LinksOf[x]}
    BY <1>2, <1>3 DEF getLinkPeers
  <2> QED
    BY <1>5, <1>6, <2>1
<1>8. LeadsTo(p, link) /\ link.to \in Peers
  BY <1>1, <1>5, LinkLeads, LinkForm
<1>9. partner[1] = IdOf(link.to) /\ partner[2] = link.channel
  BY <1>4, <1>5, <1>8 DEF LeadsTo
<1>10. other[1] = own["serial"][link.to] /\ other[2] = link.channel
  BY <1>6, <1>8 DEF LeadsTo
<1>11. getPeer("id", IdOf(link.to)) = link.to /\ getPeer("serial", own["serial"][link.to]) = link.to
  BY <1>8 DEF AtRest, IdOf
<1> QED
  BY <1>1, <1>7, <1>9, <1>10, <1>11

LEMMA LinksSame == ASSUME LinksPaired, AtRest PROVE SameLinks
<1>1. PICK links : links = getLinks(FALSE)
  BY ZenonT(30)
<1>2. \A y, z \in DOMAIN links : y # z => links[y] # links[z]
  BY <1>1, EachOnce
<1>3. ASSUME NEW l \in Links
      PROVE  /\ \E x \in DOMAIN links : {links[x].SENDER.id, links[x].RECEIVER.id} = {IdOf(l[1]), IdOf(l[2])}
             /\ getLinksOf(l[1]) \cap getLinksOf(l[2]) # {}
  <2>1. PICK x, y \in DOMAIN LinksOf :
          /\ {x[1], y[1]} = {l[1], l[2]}
          /\ \E i \in DOMAIN getLink(x[1], x[2], TRUE) :
               LinkElement(x[1], x[2], LinksOf[x][i]) = [SENDER |-> End(x[1], x[2]), RECEIVER |-> End(y[1], y[2])]
          /\ [SENDER |-> End(x[1], x[2]), RECEIVER |-> End(y[1], y[2])] \in getLinksOf(x[1]) \cap getLinksOf(y[1])
    BY <1>3, PairTells
  <2>2. PICK i \in DOMAIN getLink(x[1], x[2], TRUE) :
          LinkElement(x[1], x[2], LinksOf[x][i]) = [SENDER |-> End(x[1], x[2]), RECEIVER |-> End(y[1], y[2])]
    BY <2>1
  <2>3. PICK e, z : e = [SENDER |-> End(x[1], x[2]), RECEIVER |-> End(y[1], y[2])] /\ z = <<x[1], x[2], i>>
    BY ZenonT(30)
  <2>4. z \in DOMAIN links /\ links[z] = e
    <3>1. /\ <<x[1], x[2], i>> \in DOMAIN links
          /\ links[<<x[1], x[2], i>>] = LinkElement(x[1], x[2], LinksOf[x][i])
      BY <1>1, LinksListed
    <3> QED
      BY <2>2, <2>3, <3>1
  <2>5. e.SENDER.id = IdOf(x[1]) /\ e.RECEIVER.id = IdOf(y[1])
    BY <2>3 DEF End
  <2>6. (x[1] = l[1] /\ y[1] = l[2]) \/ (x[1] = l[2] /\ y[1] = l[1])
    BY <2>1
  <2>7. {links[z].SENDER.id, links[z].RECEIVER.id} = {IdOf(l[1]), IdOf(l[2])}
    BY <2>4, <2>5, <2>6
  <2>8. e \in getLinksOf(x[1]) /\ e \in getLinksOf(y[1])
    BY <2>1, <2>3
  <2>9. e \in getLinksOf(l[1]) /\ e \in getLinksOf(l[2])
    BY <2>6, <2>8
  <2> QED
    BY <2>4, <2>7, <2>9
<1>4. \A x \in DOMAIN LinksOf : \A partner \in getLinkPeers(x[1], x[2], TRUE) :
        \E other \in getLinkPeers(x[1], x[2], FALSE) :
          getPeer("id", partner[1]) = getPeer("serial", other[1]) /\ partner[2] = other[2]
  BY PartnersSame
<1> QED
  BY <1>1, <1>2, <1>3, <1>4 DEF SameLinks

(* All methods that read tell the same of the peers, whatever was placed,  *)
(* renamed or loaded before and for every kind of client, where the links  *)
(* are as devices have them.                                               *)
THEOREM ReadersAgreeCorrect == ASSUME LinksPaired PROVE Spec => []ReadersAgree
<1>1. PlacementInv /\ CentralInv => ReadersAgree
  <2> SUFFICES ASSUME PlacementInv, CentralInv, Quiet, overlapped = {}
               PROVE  /\ \A client \in ClientKinds :
                           SameConfig(client) /\ \A checkAcls \in BOOLEAN : SameVariables(client, checkAcls)
                      /\ \A checkAcls \in BOOLEAN : SamePlaces(checkAcls)
                      /\ SameLinks /\ SamePeers
    BY DEF ReadersAgree
  <2>1. AtRest
    BY ComesToRest
  <2>2. \A client \in ClientKinds :
          SameConfig(client) /\ \A checkAcls \in BOOLEAN : SameVariables(client, checkAcls)
    BY <2>1, ConfigSame, VariablesSame
  <2>3. \A checkAcls \in BOOLEAN : SamePlaces(checkAcls)
    BY <2>1, PlacesSame
  <2>4. SameLinks /\ SamePeers
    BY <2>1, LinksSame, PeersSame
  <2> QED
    BY <2>2, <2>3, <2>4
<1> QED
  BY InitPlacement, StepPlacement, InitCentral, StepCentral, <1>1, PTL DEF Spec
=============================================================================
