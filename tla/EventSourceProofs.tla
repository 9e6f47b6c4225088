--------------------------- MODULE EventSourceProofs ---------------------------
(***************************************************************************)
(* Proofs about event sources: EventHandlers, the handlers every source    *)
(* has and the loop that calls them, and SerialReaderWriter, the source    *)
(* whose threads come and go.                                              *)
(***************************************************************************)
EXTENDS EventHandlers, SerialReaderWriter, FiniteSetTheorems, TLAPS

(***************************************************************************)
(* EventHandlers, for any number of emitters, sinks, owners, threads and   *)
(* objects.  The use counts rest on who is between lock() and unlock();    *)
(* the agreement of maps and objects rests on HeldInv: what an owner holds *)
(* and still has a sink is what the map of its emitter has for that sink.  *)
(***************************************************************************)

States == {"idle", "loop", "check", "call", "inside", "unlock"}
Holdings == [emitter : Emitters \cup {Nowhere.emitter}, id : 0 .. created]

(* The types, what a removal has in its hands, and which thread is between *)
(* lock() and unlock().                                                    *)
RegistryType ==
  /\ created \in 0 .. MaxHandlers /\ copies \in Nat
  /\ eventHandlers \in [Emitters -> [Sinks -> 0 .. created]]
  /\ handler \in [Handlers -> Sinks \cup {NoSink}]
  /\ copied \in [Sinks -> 0 .. created]

OwnerType ==
  /\ held \in [Owners -> Holdings]
  /\ removal \in [Owners -> {"no", "look", "erase"}]
  /\ caller \in [Owners -> Dispatchers \cup {NoThread}]
  /\ \A o \in Owners : /\ held[o].id # 0 => held[o].emitter \in Emitters
                       /\ removal[o] # "no" => held[o].id # 0
  /\ gone \in [Dispatchers -> SUBSET (1 .. created)]

WalkType ==
  /\ useCount \in [Handlers -> Int] /\ leaked \in [Handlers -> Nat]
  /\ dispatcher \in [Dispatchers -> States]
  /\ todo \in [Dispatchers -> SUBSET (1 .. created)]
  /\ current \in [Dispatchers -> 0 .. created]
  /\ \A d \in Dispatchers : current[d] = 0 <=> dispatcher[d] \in {"idle", "loop"}

(* An entry is of an object that has the entry's sink or lost it.          *)
EntryInv ==
  \A e \in Emitters, s \in Sinks :
    LET h == eventHandlers[e][s] IN h # 0 => handler[h] \in {s, NoSink}

CopyInv ==
  /\ \A s \in Sinks : copied[s] # 0 => handler[copied[s]] \in {s, NoSink}
  /\ copies = 0 => copied = NoCopy

(* What an owner holds is in its emitter's map, as long as it has a sink.  *)
HeldInv ==
  \A o \in Owners :
    LET e == held[o].emitter  h == held[o].id
    IN  h # 0 /\ handler[h] # NoSink => eventHandlers[e][handler[h]] = h

(* Without copies an object is in one map only.                            *)
OneMapInv ==
  copies = 0 =>
    \A e, f \in Emitters, s, u \in Sinks :
      eventHandlers[e][s] # 0 /\ eventHandlers[e][s] = eventHandlers[f][u] => e = f

(* A callback that runs a removal does not return; what its thread removed *)
(* has no sink, and what the thread is about to call it did not remove.    *)
CallbackInv ==
  /\ \A o \in Owners : caller[o] # NoThread => Inside(caller[o])
  /\ \A d \in Dispatchers : /\ \A h \in gone[d] : handler[h] = NoSink
                            /\ dispatcher[d] = "call" => current[d] \notin gone[d]

TypeInv == RegistryType /\ OwnerType /\ WalkType
RegistryInv == EntryInv /\ CopyInv /\ HeldInv /\ OneMapInv /\ Registered

IInv == TypeInv /\ RegistryInv /\ CallbackInv /\ NoBadCall /\ UseCount /\ RemovalWaits
-----------------------------------------------------------------------------
(* Types                                                                   *)

LEMMA CreatedIsHandler == ASSUME RegistryType PROVE 1 .. created \subseteq Handlers /\ created \in Nat
  BY EventAssumption DEF RegistryType, Handlers

LEMMA InitInv == Init => IInv
<1> SUFFICES ASSUME Init PROVE IInv
  OBVIOUS
<1> USE EventAssumption
<1>1. RegistryType
  BY DEF Init, RegistryType, NoCopy
<1>2. OwnerType
  <2>1. Nowhere \in Holdings /\ Nowhere.id = 0
    BY DEF Nowhere, Holdings, Init
  <2> QED
    BY <2>1 DEF Init, OwnerType
<1>3. WalkType
  BY DEF Init, WalkType, States
<1>4. RegistryInv
  BY DEF Init, RegistryInv, EntryInv, CopyInv, HeldInv, OneMapInv, Registered, NoCopy, Nowhere
<1>5. UseCount
  <2> SUFFICES ASSUME NEW h \in Handlers PROVE useCount[h] = Cardinality(Users(h)) + leaked[h]
    BY DEF UseCount
  <2>1. Users(h) = {}
    BY DEF Init, Users, Handlers
  <2> QED
    BY <2>1, FS_EmptySet DEF Init
<1> QED
  BY <1>1, <1>2, <1>3, <1>4, <1>5
     DEF Init, IInv, TypeInv, CallbackInv, NoBadCall, RemovalWaits

(* Nothing that names an object is disturbed by a new one.                 *)
LEMMA StepType == IInv /\ [Next]_vars => TypeInv'
<1> SUFFICES ASSUME IInv, [Next]_vars PROVE TypeInv'
  OBVIOUS
<1> USE EventAssumption
<1>0. RegistryType /\ OwnerType /\ WalkType /\ created \in Nat /\ 1 .. created \subseteq Handlers
  BY CreatedIsHandler DEF IInv, TypeInv
<1>1. ASSUME NEW o \in Owners, NEW e \in Emitters, AddEventHandler(o, e) PROVE TypeInv'
  <2> DEFINE sink == SinkOf[o]
             entry == eventHandlers[e][sink]
  <2>1. /\ UNCHANGED <<copies, copied, useCount, removal, caller, gone, dispatcher, todo, current, leaked>>
        /\ held[o].id = 0 /\ sink \in Sinks
    BY <1>1 DEF AddEventHandler, dispatcherVars, walkVars
  <2>2. CASE entry # 0
    <3>1. /\ held' = [held EXCEPT ![o] = [emitter |-> e, id |-> entry]]
          /\ UNCHANGED <<eventHandlers, handler, created>> /\ entry \in 0 .. created
      BY <1>0, <1>1, <2>1, <2>2 DEF AddEventHandler, RegistryType
    <3>2. RegistryType' /\ WalkType'
      BY <1>0, <2>1, <3>1 DEF RegistryType, WalkType
    <3>3. OwnerType'
      BY <1>0, <2>1, <3>1 DEF OwnerType, Holdings
    <3> QED
      BY <3>2, <3>3 DEF TypeInv
  <2>3. CASE entry = 0
    <3> DEFINE h == created + 1
    <3>1. /\ created < MaxHandlers /\ created' = h
          /\ handler' = [handler EXCEPT ![h] = sink]
          /\ eventHandlers' = [eventHandlers EXCEPT ![e][sink] = h]
          /\ held' = [held EXCEPT ![o] = [emitter |-> e, id |-> h]]
      BY <1>1, <2>3 DEF AddEventHandler
    <3>2. 0 .. created \subseteq 0 .. h /\ 1 .. created \subseteq 1 .. h /\ h \in 0 .. h /\ h # 0
      BY <1>0
    <3>3. RegistryType'
      <4>1. created' \in 0 .. MaxHandlers
        BY <1>0, <3>1
      <4>2. copied' \in [Sinks -> 0 .. created']
        BY <1>0, <2>1, <3>1, <3>2 DEF RegistryType
      <4>3. handler' \in [Handlers -> Sinks \cup {NoSink}]
        BY <1>0, <2>1, <3>1 DEF RegistryType
      <4>4. \A f \in Emitters : eventHandlers[f] \in [Sinks -> 0 .. h]
        BY <1>0, <3>2 DEF RegistryType
      <4>5. eventHandlers' \in [Emitters -> [Sinks -> 0 .. created']]
        BY <1>0, <2>1, <3>1, <3>2, <4>4 DEF RegistryType
      <4> QED
        BY <1>0, <2>1, <4>1, <4>2, <4>3, <4>5 DEF RegistryType
    <3>4. WalkType'
      BY <1>0, <2>1, <3>1, <3>2 DEF WalkType
    <3>5. OwnerType'
      <4>1. held' \in [Owners -> Holdings']
        BY <1>0, <3>1, <3>2 DEF OwnerType, Holdings
      <4>2. gone' \in [Dispatchers -> SUBSET (1 .. created')]
        BY <1>0, <2>1, <3>1, <3>2 DEF OwnerType
      <4>3. \A q \in Owners : held'[q] = IF q = o THEN [emitter |-> e, id |-> h] ELSE held[q]
        BY <1>0, <3>1 DEF OwnerType
      <4> QED
        BY <1>0, <2>1, <3>2, <4>1, <4>2, <4>3 DEF OwnerType
    <3> QED
      BY <3>3, <3>4, <3>5 DEF TypeInv
  <2> QED
    BY <2>2, <2>3
<1>2. ASSUME NEW o \in Owners, NEW d \in Dispatchers \cup {NoThread}, RemoveBegin(o, d) PROVE TypeInv'
  BY <1>0, <1>2 DEF RemoveBegin, RegistryType, OwnerType, Holdings, WalkType, TypeInv, registry,
     dispatcherVars, walkVars
<1>3. ASSUME NEW o \in Owners, RemoveLook(o) PROVE TypeInv'
  BY <1>0, <1>3 DEF RemoveLook, RegistryType, OwnerType, Holdings, WalkType, TypeInv, registry,
     dispatcherVars, walkVars
<1>4. ASSUME NEW o \in Owners, RemoveErase(o) PROVE TypeInv'
  <2> DEFINE e == held[o].emitter
             h == held[o].id
  <2>1. /\ UNCHANGED <<created, copies, copied, useCount, dispatcher, todo, current, leaked>>
        /\ removal[o] = "erase"
        /\ held' = [held EXCEPT ![o] = Nowhere] /\ removal' = [removal EXCEPT ![o] = "no"]
        /\ caller' = [caller EXCEPT ![o] = NoThread]
        /\ gone' = IF caller[o] = NoThread THEN gone ELSE [gone EXCEPT ![caller[o]] = @ \cup {h}]
    BY <1>4 DEF RemoveErase, dispatcherVars, walkVars
  <2>2. e \in Emitters /\ h \in 1 .. created /\ h \in Handlers
    BY <1>0, <2>1 DEF OwnerType, Holdings
  <2>3. RegistryType'
    <3>1. CASE UNCHANGED <<eventHandlers, handler>>
      BY <1>0, <2>1, <3>1 DEF RegistryType
    <3>2. CASE EraseAndInvalidate(e, h)
      <4>1. handler' \in [Handlers -> Sinks \cup {NoSink}]
        BY <1>0, <2>2, <3>2 DEF RegistryType, EraseAndInvalidate
      <4>2. eventHandlers' \in [Emitters -> [Sinks -> 0 .. created]]
        <5>1. [eventHandlers[e] EXCEPT ![handler[h]] = 0] \in [Sinks -> 0 .. created]
          <6>1. eventHandlers[e] \in [Sinks -> 0 .. created] /\ 0 \in 0 .. created
            BY <1>0, <2>2 DEF RegistryType
          <6>2. \A s : \A f \in [Sinks -> 0 .. created] : [f EXCEPT ![s] = 0] \in [Sinks -> 0 .. created]
            BY <6>1
          <6> QED
            BY <6>1, <6>2
        <5>2. eventHandlers' = [eventHandlers EXCEPT ![e] = [eventHandlers[e] EXCEPT ![handler[h]] = 0]]
          BY <3>2 DEF EraseAndInvalidate
        <5> QED
          BY <1>0, <5>1, <5>2 DEF RegistryType
      <4> QED
        BY <1>0, <2>1, <4>1, <4>2 DEF RegistryType
    <3> QED
      BY <1>4, <3>1, <3>2 DEF RemoveErase
  <2>4. WalkType'
    BY <1>0, <2>1 DEF WalkType
  <2>5. OwnerType'
    <3>1. Nowhere \in Holdings /\ Nowhere.id = 0
      BY <1>0 DEF Nowhere, Holdings
    <3>2. held' \in [Owners -> Holdings] /\ Holdings' = Holdings
      BY <1>0, <2>1, <3>1 DEF OwnerType, Holdings
    <3>3. gone' \in [Dispatchers -> SUBSET (1 .. created)]
      BY <1>0, <2>1, <2>2 DEF OwnerType
    <3>4. /\ removal' \in [Owners -> {"no", "look", "erase"}]
          /\ caller' \in [Owners -> Dispatchers \cup {NoThread}]
      BY <1>0, <2>1 DEF OwnerType
    <3>5. \A q \in Owners : IF q = o THEN held'[q].id = 0 /\ removal'[q] = "no"
                                     ELSE held'[q] = held[q] /\ removal'[q] = removal[q]
      BY <1>0, <2>1, <3>1 DEF OwnerType
    <3> QED
      BY <1>0, <2>1, <3>2, <3>3, <3>4, <3>5 DEF OwnerType
  <2> QED
    BY <2>3, <2>4, <2>5 DEF TypeInv
<1>5. ASSUME NEW e \in Emitters, CopyHandlers(e) PROVE TypeInv'
  BY <1>0, <1>5 DEF CopyHandlers, RegistryType, OwnerType, Holdings, WalkType, TypeInv, ownerVars,
     dispatcherVars, walkVars
<1>6. ASSUME NEW e \in Emitters, AddEventHandlers(e) PROVE TypeInv'
  <2>1. /\ UNCHANGED <<handler, created, copies, useCount, held, removal, caller, gone,
                       dispatcher, todo, current, leaked>>
        /\ copied' = NoCopy
        /\ eventHandlers' = [eventHandlers EXCEPT ![e] =
             [s \in Sinks |-> IF eventHandlers[e][s] = 0 THEN copied[s] ELSE eventHandlers[e][s]]]
    BY <1>6 DEF AddEventHandlers, ownerVars, dispatcherVars, walkVars
  <2>2. RegistryType'
    BY <1>0, <2>1 DEF RegistryType, NoCopy
  <2> QED
    BY <1>0, <2>1, <2>2 DEF OwnerType, Holdings, WalkType, TypeInv
<1>7. ASSUME NEW d \in Dispatchers, NEW e \in Emitters, Raise(d, e) PROVE TypeInv'
  <2>1. /\ UNCHANGED <<registry, useCount, held, removal, caller, gone, current, leaked>>
        /\ dispatcher[d] = "idle" /\ dispatcher' = [dispatcher EXCEPT ![d] = "loop"]
        /\ todo' = [todo EXCEPT ![d] = Range(eventHandlers[e]) \ {0}]
    BY <1>7 DEF Raise, ownerVars
  <2>2. Range(eventHandlers[e]) \ {0} \subseteq 1 .. created
    BY <1>0 DEF RegistryType, Range
  <2>3. WalkType'
    <3>1. todo' \in [Dispatchers -> SUBSET (1 .. created)]
      BY <1>0, <2>1, <2>2 DEF WalkType
    <3> QED
      BY <1>0, <2>1, <3>1 DEF WalkType, States, registry
  <2> QED
    BY <1>0, <2>1, <2>3 DEF RegistryType, OwnerType, Holdings, TypeInv, registry
<1>8. ASSUME NEW d \in Dispatchers,
             \/ RaiseEnd(d) \/ CheckHandler(d) \/ Call(d) \/ CallbackReturns(d) \/ UnlockHandler(d)
             \/ CallbackThrows(d) \/ \E h \in Handlers : LockHandler(d, h)
      PROVE  TypeInv'
  <2>1. UNCHANGED <<registry, held, removal, caller, gone>>
    BY <1>8 DEF RaiseEnd, CheckHandler, Call, CallbackReturns, UnlockHandler, CallbackThrows,
       LockHandler, ownerVars
  <2>2. WalkType'
    <3>1. created' = created
      BY <2>1 DEF registry
    <3>2. CASE RaiseEnd(d) \/ CheckHandler(d) \/ Call(d) \/ CallbackReturns(d)
      <4>1. UNCHANGED <<useCount, leaked, todo, current>>
        BY <3>2 DEF RaiseEnd, CheckHandler, Call, CallbackReturns
      <4>2. PICK state \in States : /\ dispatcher' = [dispatcher EXCEPT ![d] = state]
                                    /\ state \in {"idle", "loop"} <=> dispatcher[d] \in {"idle", "loop"}
        BY <3>2 DEF RaiseEnd, CheckHandler, Call, CallbackReturns, States, Inside
      <4> QED
        BY <1>0, <3>1, <4>1, <4>2 DEF WalkType
    <3>3. CASE UnlockHandler(d)
      <4>1. current[d] \in Handlers
        BY <1>0, <3>3 DEF UnlockHandler, WalkType
      <4> QED
        BY <1>0, <3>1, <3>3, <4>1 DEF UnlockHandler, Unlock, WalkType, States
    <3>4. CASE CallbackThrows(d)
      <4>1. current[d] \in Handlers /\ useCount' = useCount /\ Inside(d)
        BY <1>0, <3>4 DEF CallbackThrows, WalkType, Inside
      <4>2. CASE dispatcher' = [dispatcher EXCEPT ![d] = "unlock"] /\ UNCHANGED <<todo, current, leaked>>
        BY <1>0, <3>1, <4>1, <4>2 DEF WalkType, States, Inside
      <4>3. CASE /\ dispatcher' = [dispatcher EXCEPT ![d] = "idle"]
                 /\ todo' = [todo EXCEPT ![d] = {}]
                 /\ leaked' = [leaked EXCEPT ![current[d]] = @ + 1]
                 /\ current' = [current EXCEPT ![d] = 0]
        BY <1>0, <3>1, <4>1, <4>3 DEF WalkType, States
      <4> QED
        BY <3>4, <4>2, <4>3 DEF CallbackThrows
    <3>5. ASSUME NEW h \in Handlers, LockHandler(d, h) PROVE WalkType'
      <4>1. h \in 1 .. created /\ h # 0
        BY <1>0, <3>5 DEF LockHandler, WalkType
      <4>2. /\ leaked' = leaked /\ useCount' = [useCount EXCEPT ![h] = @ + 1]
            /\ current' = [current EXCEPT ![d] = h] /\ todo' = [todo EXCEPT ![d] = @ \ {h}]
            /\ dispatcher' = [dispatcher EXCEPT ![d] = "check"]
        BY <3>5 DEF LockHandler, Lock
      <4>3. /\ useCount' \in [Handlers -> Int] /\ leaked' \in [Handlers -> Nat]
            /\ todo' \in [Dispatchers -> SUBSET (1 .. created)] /\ dispatcher' \in [Dispatchers -> States]
        BY <1>0, <4>2 DEF WalkType, States
      <4>4. /\ current' \in [Dispatchers -> 0 .. created]
            /\ \A c \in Dispatchers : current'[c] = 0 <=> dispatcher'[c] \in {"idle", "loop"}
        BY <1>0, <4>1, <4>2 DEF WalkType
      <4> QED
        BY <3>1, <4>3, <4>4 DEF WalkType
    <3> QED
      BY <1>8, <3>2, <3>3, <3>4, <3>5
  <2> QED
    BY <1>0, <2>1, <2>2 DEF RegistryType, OwnerType, Holdings, TypeInv, registry
<1>9. CASE UNCHANGED vars
  BY <1>0, <1>9 DEF RegistryType, OwnerType, Holdings, WalkType, TypeInv, vars, registry, ownerVars,
     dispatcherVars, walkVars
<1> QED
  BY <1>1, <1>2, <1>3, <1>4, <1>5, <1>6, <1>7, <1>8, <1>9 DEF Next, RemoveStep, DispatcherStep

-----------------------------------------------------------------------------
(* Use counts                                                              *)

LEMMA UsersFinite ==
  /\ \A h : IsFiniteSet(Users(h)) /\ Cardinality(Users(h)) \in Nat
  /\ \A h : IsFiniteSet(Users(h))' /\ Cardinality(Users(h))' \in Nat
<1>1. IsFiniteSet(Dispatchers)
  BY EventAssumption
<1>2. \A h : Users(h) \subseteq Dispatchers /\ Users(h)' \subseteq Dispatchers
  BY DEF Users
<1>3. \A S \in SUBSET Dispatchers : IsFiniteSet(S) /\ Cardinality(S) \in Nat
  BY <1>1, FS_Subset, FS_CardinalityType
<1> QED
  BY <1>2, <1>3

LEMMA StepUse == IInv /\ [Next]_vars => UseCount' /\ RemovalWaits'
<1> SUFFICES ASSUME IInv, [Next]_vars PROVE UseCount' /\ RemovalWaits'
  OBVIOUS
<1>0. /\ OwnerType /\ WalkType /\ UseCount /\ RemovalWaits /\ created \in Nat /\ 1 .. created \subseteq Handlers
      /\ 0 \notin Handlers
  BY CreatedIsHandler DEF IInv, TypeInv, Handlers
\* Nobody enters, nobody leaves.
<1>1. ASSUME UNCHANGED <<useCount, leaked, current>> PROVE UseCount'
  BY <1>0, <1>1 DEF UseCount, Users
<1>2. ASSUME NEW o \in Owners, RemoveLook(o) PROVE UseCount' /\ RemovalWaits'
  <2> DEFINE h == held[o].id
  <2>1. h \in Handlers /\ useCount[h] = 0
    BY <1>0, <1>2 DEF RemoveLook, OwnerType, Holdings, Unused
  <2>2. useCount[h] = Cardinality(Users(h)) + leaked[h] /\ leaked[h] \in Nat
    BY <1>0, <2>1 DEF UseCount, WalkType
  <2>3. Cardinality(Users(h)) = 0
    BY <2>1, <2>2, UsersFinite
  <2>4. Users(h) = {}
    BY <2>3, UsersFinite, FS_EmptySet
  <2>5. ~ignored'
    <3>1. ~\E d \in Dispatchers : Inside(d) /\ current[d] = h
      BY <2>4 DEF Users
    <3> QED
      BY <1>0, <1>2, <3>1 DEF RemoveLook, RemovalWaits
  <2> QED
    BY <1>0, <1>1, <1>2, <2>5 DEF RemoveLook, RemovalWaits, dispatcherVars, walkVars
<1>3. ASSUME NEW d \in Dispatchers, NEW h \in Handlers, LockHandler(d, h) PROVE UseCount' /\ RemovalWaits'
  <2>1. /\ useCount' = [useCount EXCEPT ![h] = @ + 1] /\ UNCHANGED <<leaked, ignored>>
        /\ current' = [current EXCEPT ![d] = h] /\ current[d] = 0
    BY <1>0, <1>3 DEF LockHandler, Lock, WalkType, ownerVars
  <2>2. ASSUME NEW g \in Handlers PROVE useCount'[g] = Cardinality(Users(g))' + leaked'[g]
    <3>1. useCount[g] = Cardinality(Users(g)) + leaked[g] /\ leaked[g] \in Nat
      BY <1>0 DEF UseCount, WalkType
    <3>2. CASE g = h
      <4>1. Users(g)' = Users(g) \cup {d} /\ d \notin Users(g)
        BY <1>0, <2>1, <3>2 DEF WalkType, Users
      <4>2. Cardinality(Users(g)') = Cardinality(Users(g)) + 1
        BY <4>1, UsersFinite, FS_AddElement
      <4>3. useCount'[g] = useCount[g] + 1
        BY <1>0, <2>1, <3>2 DEF WalkType
      <4> QED
        BY <2>1, <3>1, <4>2, <4>3, UsersFinite
    <3>3. CASE g # h
      <4>1. Users(g)' = Users(g)
        BY <1>0, <2>1, <3>3 DEF WalkType, Users
      <4>2. useCount'[g] = useCount[g]
        BY <1>0, <2>1, <3>3 DEF WalkType
      <4> QED
        BY <2>1, <3>1, <4>1, <4>2
    <3> QED
      BY <3>2, <3>3
  <2> QED
    BY <1>0, <2>1, <2>2 DEF UseCount, RemovalWaits
<1>4. ASSUME NEW d \in Dispatchers, UnlockHandler(d) PROVE UseCount' /\ RemovalWaits'
  <2> DEFINE h == current[d]
  <2>1. /\ useCount' = [useCount EXCEPT ![h] = @ - 1] /\ UNCHANGED <<leaked, ignored>>
        /\ current' = [current EXCEPT ![d] = 0] /\ h \in Handlers
    BY <1>0, <1>4 DEF UnlockHandler, Unlock, WalkType, ownerVars
  <2>2. ASSUME NEW g \in Handlers PROVE useCount'[g] = Cardinality(Users(g))' + leaked'[g]
    <3>1. useCount[g] = Cardinality(Users(g)) + leaked[g] /\ leaked[g] \in Nat
      BY <1>0 DEF UseCount, WalkType
    <3>2. CASE g = h
      <4>1. Users(g)' = Users(g) \ {d} /\ d \in Users(g)
        BY <1>0, <2>1, <3>2 DEF WalkType, Users
      <4>2. Cardinality(Users(g)') = Cardinality(Users(g)) - 1
        BY <4>1, UsersFinite, FS_RemoveElement
      <4>3. useCount'[g] = useCount[g] - 1
        BY <1>0, <2>1, <3>2 DEF WalkType
      <4> QED
        BY <2>1, <3>1, <4>2, <4>3, UsersFinite
    <3>3. CASE g # h
      <4>1. Users(g)' = Users(g)
        BY <1>0, <2>1, <3>3 DEF WalkType, Users
      <4>2. useCount'[g] = useCount[g]
        BY <1>0, <2>1, <3>3 DEF WalkType
      <4> QED
        BY <2>1, <3>1, <4>1, <4>2
    <3> QED
      BY <3>2, <3>3
  <2> QED
    BY <1>0, <2>1, <2>2 DEF UseCount, RemovalWaits
\* An exception that leaves the loop takes the thread out, and the count stays.
<1>5. ASSUME NEW d \in Dispatchers, CallbackThrows(d) PROVE UseCount' /\ RemovalWaits'
  <2> DEFINE h == current[d]
  <2>1. useCount' = useCount /\ ignored' = ignored /\ h \in Handlers
    BY <1>0, <1>5 DEF CallbackThrows, WalkType, Inside, ownerVars
  <2>2. CASE UNCHANGED <<leaked, current>>
    BY <1>0, <1>1, <2>1, <2>2 DEF RemovalWaits
  <2>3. CASE leaked' = [leaked EXCEPT ![h] = @ + 1] /\ current' = [current EXCEPT ![d] = 0]
    <3>1. ASSUME NEW g \in Handlers PROVE useCount'[g] = Cardinality(Users(g))' + leaked'[g]
      <4>1. useCount[g] = Cardinality(Users(g)) + leaked[g] /\ leaked[g] \in Nat
        BY <1>0 DEF UseCount, WalkType
      <4>2. CASE g = h
        <5>1. Users(g)' = Users(g) \ {d} /\ d \in Users(g)
          BY <1>0, <2>1, <2>3, <4>2 DEF WalkType, Users
        <5>2. Cardinality(Users(g)') = Cardinality(Users(g)) - 1
          BY <5>1, UsersFinite, FS_RemoveElement
        <5>3. leaked'[g] = leaked[g] + 1
          BY <1>0, <2>1, <2>3, <4>2 DEF WalkType
        <5> QED
          BY <2>1, <4>1, <5>2, <5>3, UsersFinite
      <4>3. CASE g # h
        <5>1. Users(g)' = Users(g)
          BY <1>0, <2>1, <2>3, <4>3 DEF WalkType, Users
        <5>2. leaked'[g] = leaked[g]
          BY <1>0, <2>1, <2>3, <4>3 DEF WalkType
        <5> QED
          BY <2>1, <4>1, <5>1, <5>2
      <4> QED
        BY <4>2, <4>3
    <3> QED
      BY <1>0, <2>1, <3>1 DEF UseCount, RemovalWaits
  <2> QED
    BY <1>5, <2>2, <2>3 DEF CallbackThrows
<1>6. ASSUME NEW o \in Owners,
             \/ RemoveErase(o) \/ \E e \in Emitters : AddEventHandler(o, e)
             \/ \E d \in Dispatchers \cup {NoThread} : RemoveBegin(o, d)
      PROVE  UseCount' /\ RemovalWaits'
  <2>1. UNCHANGED <<useCount, leaked, current, ignored>>
    BY <1>6 DEF RemoveErase, AddEventHandler, RemoveBegin, dispatcherVars, walkVars
  <2> QED
    BY <1>0, <1>1, <2>1 DEF RemovalWaits
<1>7. ASSUME NEW e \in Emitters, CopyHandlers(e) \/ AddEventHandlers(e) PROVE UseCount' /\ RemovalWaits'
  <2>1. UNCHANGED <<useCount, leaked, current, ignored>>
    BY <1>7 DEF CopyHandlers, AddEventHandlers, ownerVars, dispatcherVars, walkVars
  <2> QED
    BY <1>0, <1>1, <2>1 DEF RemovalWaits
<1>8. ASSUME NEW d \in Dispatchers,
             \/ RaiseEnd(d) \/ CheckHandler(d) \/ Call(d) \/ CallbackReturns(d)
             \/ \E e \in Emitters : Raise(d, e)
      PROVE  UseCount' /\ RemovalWaits'
  <2>1. UNCHANGED <<useCount, leaked, current, ignored>>
    BY <1>8 DEF RaiseEnd, CheckHandler, Call, CallbackReturns, Raise, ownerVars
  <2> QED
    BY <1>0, <1>1, <2>1 DEF RemovalWaits
<1>9. CASE UNCHANGED vars
  <2>1. UNCHANGED <<useCount, leaked, current, ignored>>
    BY <1>9 DEF vars, ownerVars, dispatcherVars, walkVars
  <2> QED
    BY <1>0, <1>1, <2>1 DEF RemovalWaits
<1> QED
  BY <1>2, <1>3, <1>4, <1>5, <1>6, <1>7, <1>8, <1>9 DEF Next, RemoveStep, DispatcherStep

-----------------------------------------------------------------------------
(* Maps and objects                                                        *)

LEMMA StepRegistry == IInv /\ [Next]_vars => RegistryInv'
<1> SUFFICES ASSUME IInv, [Next]_vars PROVE RegistryInv'
  OBVIOUS
<1> USE EventAssumption
<1>0. /\ RegistryType /\ OwnerType /\ created \in Nat /\ 1 .. created \subseteq Handlers
      /\ EntryInv /\ CopyInv /\ HeldInv /\ OneMapInv /\ Registered
  BY CreatedIsHandler DEF IInv, TypeInv, RegistryInv
<1>1. ASSUME UNCHANGED <<eventHandlers, handler, created, copies, copied, held>> PROVE RegistryInv'
  BY <1>0, <1>1 DEF RegistryInv, EntryInv, CopyInv, HeldInv, OneMapInv, Registered
<1>2. ASSUME NEW o \in Owners, NEW e \in Emitters, AddEventHandler(o, e) PROVE RegistryInv'
  <2> DEFINE sink == SinkOf[o]
             entry == eventHandlers[e][sink]
  <2>1. UNCHANGED <<copies, copied>> /\ sink \in Sinks
    BY <1>2 DEF AddEventHandler
  <2>2. CASE entry # 0
    <3>1. /\ held' = [held EXCEPT ![o] = [emitter |-> e, id |-> entry]]
          /\ UNCHANGED <<eventHandlers, handler>>
      BY <1>2, <2>2 DEF AddEventHandler
    <3>2. handler[entry] \in {sink, NoSink}
      BY <1>0, <2>1, <2>2 DEF EntryInv
    <3>3. HeldInv'
      BY <1>0, <2>1, <3>1, <3>2 DEF HeldInv, OwnerType
    <3> QED
      BY <1>0, <2>1, <3>1, <3>3 DEF RegistryInv, EntryInv, CopyInv, OneMapInv, Registered
  <2>3. CASE entry = 0
    <3> DEFINE h == created + 1
    <3>1. /\ created < MaxHandlers /\ h \in Handlers /\ h # 0
          /\ handler' = [handler EXCEPT ![h] = sink]
          /\ eventHandlers' = [eventHandlers EXCEPT ![e][sink] = h]
          /\ held' = [held EXCEPT ![o] = [emitter |-> e, id |-> h]]
      BY <1>0, <1>2, <2>3 DEF AddEventHandler, RegistryType, Handlers
    <3>2. \A g \in 1 .. created : g # h /\ handler'[g] = handler[g]
      BY <1>0, <3>1 DEF RegistryType
    <3>3. handler'[h] = sink /\ sink # NoSink
      BY <1>0, <2>1, <3>1 DEF RegistryType
    <3>4. \A f \in Emitters, s \in Sinks :
            /\ eventHandlers[f][s] \in 0 .. created
            /\ eventHandlers'[f][s] = IF f = e /\ s = sink THEN h ELSE eventHandlers[f][s]
      BY <1>0, <2>1, <3>1 DEF RegistryType
    <3>5. \A q \in Owners : /\ held[q].id \in 0 .. created
                            /\ held'[q] = IF q = o THEN [emitter |-> e, id |-> h] ELSE held[q]
                            /\ held[q].id # 0 => held[q].emitter \in Emitters
      BY <1>0, <3>1 DEF OwnerType, Holdings
    <3> HIDE DEF h
    <3>6. EntryInv' /\ Registered'
      <4> SUFFICES ASSUME NEW f \in Emitters, NEW s \in Sinks, eventHandlers'[f][s] # 0
                   PROVE  /\ handler'[eventHandlers'[f][s]] \in {s, NoSink}
                          /\ copies = 0 => handler'[eventHandlers'[f][s]] = s
        BY <2>1 DEF EntryInv, Registered
      <4>1. CASE f = e /\ s = sink
        BY <3>3, <3>4, <4>1
      <4>2. CASE ~(f = e /\ s = sink)
        <5>1. eventHandlers'[f][s] = eventHandlers[f][s] /\ eventHandlers[f][s] \in 1 .. created
          BY <1>0, <3>4, <4>2
        <5> QED
          BY <1>0, <3>2, <5>1 DEF EntryInv, Registered
      <4> QED
        BY <4>1, <4>2
    <3>7. CopyInv'
      BY <1>0, <2>1, <3>2 DEF CopyInv, RegistryType
    <3>8. HeldInv'
      <4> SUFFICES ASSUME NEW q \in Owners, held'[q].id # 0, handler'[held'[q].id] # NoSink
                   PROVE  eventHandlers'[held'[q].emitter][handler'[held'[q].id]] = held'[q].id
        BY DEF HeldInv
      <4>1. CASE q = o
        BY <2>1, <3>3, <3>4, <3>5, <4>1
      <4>2. CASE q # o
        <5> DEFINE f == held[q].emitter
                   g == held[q].id
        <5>1. held'[q] = held[q] /\ g \in 1 .. created /\ f \in Emitters /\ handler'[g] = handler[g]
          BY <1>0, <3>2, <3>5, <4>2
        <5>2. handler[g] \in Sinks /\ eventHandlers[f][handler[g]] = g
          BY <1>0, <5>1 DEF HeldInv, RegistryType
        <5>3. ~(f = e /\ handler[g] = sink)
          BY <2>3, <5>1, <5>2
        <5> QED
          BY <3>4, <5>1, <5>2, <5>3
      <4> QED
        BY <4>1, <4>2
    <3>9. OneMapInv'
      <4> SUFFICES ASSUME copies = 0, NEW f \in Emitters, NEW k \in Emitters, NEW s \in Sinks, NEW u \in Sinks,
                          eventHandlers'[f][s] # 0, eventHandlers'[f][s] = eventHandlers'[k][u]
                   PROVE  f = k
        BY <2>1 DEF OneMapInv
      <4>1. \A b \in Emitters, c \in Sinks : eventHandlers[b][c] # h
        BY <3>1, <3>2, <3>4, <1>0
      <4> QED
        BY <1>0, <3>4, <4>1 DEF OneMapInv
    <3> QED
      BY <3>6, <3>7, <3>8, <3>9 DEF RegistryInv
  <2> QED
    BY <2>2, <2>3
<1>3. ASSUME NEW o \in Owners, RemoveErase(o) PROVE RegistryInv'
  <2> DEFINE e == held[o].emitter
             h == held[o].id
  <2>1. /\ UNCHANGED <<created, copies, copied>>
        /\ held' = [held EXCEPT ![o] = Nowhere]
        /\ e \in Emitters /\ h \in Handlers /\ h # 0
    BY <1>0, <1>3 DEF RemoveErase, OwnerType, Holdings
  <2>2. \A q \in Owners : held'[q].id # 0 => q # o /\ held'[q] = held[q]
    BY <1>0, <2>1 DEF OwnerType, Nowhere
  <2>3. CASE UNCHANGED <<eventHandlers, handler>>
    <3>1. HeldInv'
      BY <1>0, <2>2, <2>3 DEF HeldInv
    <3> QED
      BY <1>0, <2>1, <2>3, <3>1 DEF RegistryInv, EntryInv, CopyInv, OneMapInv, Registered
  <2>4. CASE handler[h] # NoSink /\ EraseAndInvalidate(e, h)
    <3> DEFINE sink == handler[h]
    <3>1. /\ handler' = [handler EXCEPT ![h] = NoSink] /\ sink \in Sinks
          /\ eventHandlers' = [eventHandlers EXCEPT ![e][sink] = 0]
      BY <1>0, <2>1, <2>4 DEF EraseAndInvalidate, RegistryType
    <3>2. \A g \in Handlers : handler'[g] = IF g = h THEN NoSink ELSE handler[g]
      BY <1>0, <3>1 DEF RegistryType
    <3>3. \A f \in Emitters, s \in Sinks :
            /\ eventHandlers[f][s] \in 0 .. created
            /\ eventHandlers'[f][s] = IF f = e /\ s = sink THEN 0 ELSE eventHandlers[f][s]
      BY <1>0, <2>1, <3>1 DEF RegistryType
    <3>4. eventHandlers[e][sink] = h
      BY <1>0, <2>1, <2>4 DEF HeldInv
    <3> HIDE DEF sink, e, h
    <3>5. EntryInv'
      <4> SUFFICES ASSUME NEW f \in Emitters, NEW s \in Sinks, eventHandlers'[f][s] # 0
                   PROVE  handler'[eventHandlers'[f][s]] \in {s, NoSink}
        BY DEF EntryInv
      <4>1. eventHandlers'[f][s] = eventHandlers[f][s] /\ eventHandlers[f][s] \in Handlers
        BY <1>0, <3>3
      <4> QED
        BY <1>0, <3>2, <4>1 DEF EntryInv
    <3>6. CopyInv'
      <4> SUFFICES ASSUME NEW s \in Sinks, copied[s] # 0 PROVE handler'[copied[s]] \in {s, NoSink}
        BY <1>0, <2>1 DEF CopyInv
      <4>1. copied[s] \in Handlers
        BY <1>0 DEF RegistryType
      <4> QED
        BY <1>0, <3>2, <4>1 DEF CopyInv
    <3>7. HeldInv'
      <4> SUFFICES ASSUME NEW q \in Owners, held'[q].id # 0, handler'[held'[q].id] # NoSink
                   PROVE  eventHandlers'[held'[q].emitter][handler'[held'[q].id]] = held'[q].id
        BY DEF HeldInv
      <4> DEFINE f == held[q].emitter
                 g == held[q].id
      <4>1. held'[q] = held[q] /\ g \in Handlers /\ f \in Emitters
        BY <1>0, <2>2 DEF OwnerType, Holdings
      <4>2. g # h /\ handler'[g] = handler[g] /\ handler[g] \in Sinks
        BY <1>0, <3>2, <4>1 DEF RegistryType
      <4>3. eventHandlers[f][handler[g]] = g
        BY <1>0, <4>1, <4>2 DEF HeldInv
      <4> QED
        BY <3>3, <3>4, <4>1, <4>2, <4>3
    <3>8. OneMapInv'
      BY <1>0, <2>1, <3>3 DEF OneMapInv
    <3>9. Registered'
      <4> SUFFICES ASSUME copies = 0, NEW f \in Emitters, NEW s \in Sinks, eventHandlers'[f][s] # 0
                   PROVE  handler'[eventHandlers'[f][s]] = s
        BY <2>1 DEF Registered
      <4>1. eventHandlers'[f][s] = eventHandlers[f][s] /\ eventHandlers[f][s] \in Handlers /\ ~(f = e /\ s = sink)
        BY <1>0, <3>3
      <4>2. handler[eventHandlers[f][s]] = s
        BY <1>0, <4>1 DEF Registered
      <4>3. eventHandlers[f][s] # h
        <5>1. SUFFICES ASSUME eventHandlers[f][s] = h PROVE FALSE
          OBVIOUS
        <5>2. f = e
          BY <1>0, <2>1, <3>1, <3>4, <5>1 DEF OneMapInv
        <5>3. s = sink
          BY <4>2, <5>1 DEF sink
        <5> QED
          BY <4>1, <5>2, <5>3
      <4> QED
        BY <3>2, <4>1, <4>2, <4>3
    <3> QED
      BY <3>5, <3>6, <3>7, <3>8, <3>9 DEF RegistryInv
  <2> QED
    BY <1>3, <2>3, <2>4 DEF RemoveErase
<1>4. ASSUME NEW e \in Emitters, CopyHandlers(e) PROVE RegistryInv'
  <2>1. /\ UNCHANGED <<eventHandlers, handler, held>>
        /\ copied' = eventHandlers[e] /\ copies' # 0 /\ copies # copies'
    BY <1>0, <1>4 DEF CopyHandlers, ownerVars, RegistryType
  <2> QED
    BY <1>0, <2>1 DEF RegistryInv, EntryInv, CopyInv, HeldInv, OneMapInv, Registered
<1>5. ASSUME NEW e \in Emitters, AddEventHandlers(e) PROVE RegistryInv'
  <2>1. /\ UNCHANGED <<handler, copies, held>> /\ copied' = NoCopy /\ copies # 0
        /\ eventHandlers' = [eventHandlers EXCEPT ![e] =
             [s \in Sinks |-> IF eventHandlers[e][s] = 0 THEN copied[s] ELSE eventHandlers[e][s]]]
    BY <1>0, <1>5 DEF AddEventHandlers, ownerVars, CopyInv
  <2>2. \A f \in Emitters, s \in Sinks :
          eventHandlers'[f][s] = IF f = e /\ eventHandlers[f][s] = 0 THEN copied[s] ELSE eventHandlers[f][s]
    BY <1>0, <2>1 DEF RegistryType
  <2>3. EntryInv'
    BY <1>0, <2>1, <2>2 DEF EntryInv, CopyInv
  <2>4. HeldInv'
    <3> SUFFICES ASSUME NEW q \in Owners, held[q].id # 0, handler[held[q].id] # NoSink
                 PROVE  eventHandlers'[held[q].emitter][handler[held[q].id]] = held[q].id
      BY <2>1 DEF HeldInv
    <3>1. /\ held[q].emitter \in Emitters /\ handler[held[q].id] \in Sinks
          /\ eventHandlers[held[q].emitter][handler[held[q].id]] = held[q].id
      BY <1>0 DEF HeldInv, OwnerType, Holdings, RegistryType
    <3> QED
      BY <2>2, <3>1
  <2> QED
    BY <2>1, <2>3, <2>4 DEF RegistryInv, CopyInv, OneMapInv, Registered, NoCopy
<1>6. ASSUME NEW o \in Owners,
             RemoveLook(o) \/ \E d \in Dispatchers \cup {NoThread} : RemoveBegin(o, d)
      PROVE  RegistryInv'
  BY <1>1, <1>6 DEF RemoveLook, RemoveBegin, registry
<1>7. ASSUME NEW d \in Dispatchers,
             DispatcherStep(d) \/ CallbackThrows(d) \/ \E e \in Emitters : Raise(d, e)
      PROVE  RegistryInv'
  BY <1>1, <1>7 DEF DispatcherStep, RaiseEnd, CheckHandler, Call, CallbackReturns, UnlockHandler,
     LockHandler, CallbackThrows, Raise, registry, ownerVars
<1>8. CASE UNCHANGED vars
  BY <1>1, <1>8 DEF vars, registry, ownerVars
<1> QED
  BY <1>2, <1>3, <1>4, <1>5, <1>6, <1>7, <1>8 DEF Next, RemoveStep

-----------------------------------------------------------------------------
(* Callbacks                                                               *)

LEMMA StepCallback == IInv /\ [Next]_vars => CallbackInv' /\ NoBadCall'
<1> SUFFICES ASSUME IInv, [Next]_vars PROVE CallbackInv' /\ NoBadCall'
  OBVIOUS
<1> USE EventAssumption
<1>0. /\ RegistryType /\ OwnerType /\ WalkType /\ HeldInv /\ CallbackInv /\ NoBadCall
      /\ created \in Nat /\ 1 .. created \subseteq Handlers
  BY CreatedIsHandler DEF IInv, TypeInv, RegistryInv
\* Objects are created with a new number, and never get a sink again.
<1>1. ASSUME UNCHANGED <<caller, dispatcher, current, gone, badCall>>,
             \A h \in 1 .. created : handler[h] = NoSink => handler'[h] = NoSink
      PROVE  CallbackInv' /\ NoBadCall'
  BY <1>0, <1>1 DEF CallbackInv, NoBadCall, Inside, OwnerType
<1>2. ASSUME NEW o \in Owners, NEW e \in Emitters, AddEventHandler(o, e) PROVE CallbackInv' /\ NoBadCall'
  <2>1. UNCHANGED <<caller, dispatcher, current, gone, badCall>>
    BY <1>2 DEF AddEventHandler, dispatcherVars, walkVars
  <2>2. \A h \in 1 .. created : handler'[h] = handler[h]
    BY <1>0, <1>2 DEF AddEventHandler, RegistryType
  <2> QED
    BY <1>1, <2>1, <2>2
<1>3. ASSUME NEW o \in Owners, NEW d \in Dispatchers \cup {NoThread}, RemoveBegin(o, d)
      PROVE  CallbackInv' /\ NoBadCall'
  <2>1. /\ UNCHANGED <<handler, dispatcher, current, gone, badCall>>
        /\ caller' = [caller EXCEPT ![o] = d] /\ (d # NoThread => Inside(d))
    BY <1>3 DEF RemoveBegin, MayRemove, registry, dispatcherVars, walkVars
  <2> QED
    BY <1>0, <2>1 DEF CallbackInv, NoBadCall, Inside, OwnerType
<1>4. ASSUME NEW o \in Owners, RemoveErase(o) PROVE CallbackInv' /\ NoBadCall'
  <2> DEFINE e == held[o].emitter
             h == held[o].id
             c == caller[o]
  <2>1. /\ UNCHANGED <<dispatcher, current, badCall>> /\ h \in Handlers /\ h # 0 /\ e \in Emitters
        /\ caller' = [caller EXCEPT ![o] = NoThread]
        /\ gone' = IF c = NoThread THEN gone ELSE [gone EXCEPT ![c] = @ \cup {h}]
    BY <1>0, <1>4 DEF RemoveErase, OwnerType, Holdings, dispatcherVars, walkVars
  <2>2. handler'[h] = NoSink /\ \A g \in Handlers \ {h} : handler'[g] = handler[g]
    <3>1. handler[h] # NoSink => eventHandlers[e][handler[h]] # 0
      BY <1>0, <2>1 DEF HeldInv
    <3> QED
      BY <1>0, <1>4, <2>1, <3>1 DEF RemoveErase, EraseAndInvalidate, RegistryType
  <2>3. \A q \in Owners : caller'[q] # NoThread => caller'[q] = caller[q]
    BY <1>0, <2>1 DEF OwnerType
  <2>4. ASSUME NEW d \in Dispatchers
        PROVE  \/ gone'[d] = gone[d]
               \/ gone'[d] = gone[d] \cup {h} /\ Inside(d)
    BY <1>0, <2>1 DEF OwnerType, CallbackInv
  <2>5. ASSUME NEW d \in Dispatchers
        PROVE  /\ \A g \in gone'[d] : handler'[g] = NoSink
               /\ dispatcher'[d] = "call" => current'[d] \notin gone'[d]
    <3>1. /\ \A g \in gone[d] : handler[g] = NoSink /\ g \in Handlers
          /\ dispatcher[d] = "call" => current[d] \notin gone[d]
      BY <1>0 DEF CallbackInv, OwnerType
    <3> QED
      BY <2>1, <2>2, <2>4, <3>1 DEF Inside
  <2> QED
    BY <1>0, <2>1, <2>3, <2>5 DEF CallbackInv, NoBadCall, Inside
<1>5. ASSUME NEW d \in Dispatchers, CheckHandler(d) PROVE CallbackInv' /\ NoBadCall'
  <2>1. /\ UNCHANGED <<handler, caller, current, gone, badCall>> /\ dispatcher[d] = "check"
        /\ dispatcher' = [dispatcher EXCEPT ![d] = IF HasSink(current[d]) THEN "call" ELSE "unlock"]
    BY <1>5 DEF CheckHandler, registry, ownerVars
  <2>2. HasSink(current[d]) => current[d] \notin gone[d]
    BY <1>0 DEF HasSink, CallbackInv
  <2> QED
    BY <1>0, <2>1, <2>2 DEF CallbackInv, NoBadCall, Inside, WalkType, OwnerType
<1>6. ASSUME NEW d \in Dispatchers, Call(d) PROVE CallbackInv' /\ NoBadCall'
  <2>1. /\ UNCHANGED <<handler, caller, current, gone>> /\ dispatcher[d] = "call"
        /\ dispatcher' = [dispatcher EXCEPT ![d] = "inside"]
        /\ badCall' = (badCall \/ current[d] \in gone[d])
    BY <1>6 DEF Call, registry, ownerVars
  <2> QED
    BY <1>0, <2>1 DEF CallbackInv, NoBadCall, Inside, WalkType, OwnerType
<1>7. ASSUME NEW d \in Dispatchers, CallbackReturns(d) \/ CallbackThrows(d)
      PROVE  CallbackInv' /\ NoBadCall'
  <2>1. /\ UNCHANGED <<handler, caller, gone, badCall>> /\ ~InRemoval(d)
        /\ \E state \in {"unlock", "idle"} : dispatcher' = [dispatcher EXCEPT ![d] = state]
        /\ \A c \in Dispatchers \ {d} : current'[c] = current[c]
    BY <1>0, <1>7 DEF CallbackReturns, CallbackThrows, registry, ownerVars, WalkType
  <2>2. \A c \in Dispatchers \ {d} : dispatcher'[c] = dispatcher[c]
    BY <1>0, <2>1 DEF WalkType
  <2>3. dispatcher'[d] # "call"
    BY <1>0, <2>1 DEF WalkType
  <2>4. \A o \in Owners : caller[o] # d
    BY <2>1 DEF InRemoval
  <2>5. \A o \in Owners : caller'[o] # NoThread => Inside(caller[o])'
    BY <1>0, <2>1, <2>2, <2>4 DEF CallbackInv, Inside, OwnerType
  <2>6. \A c \in Dispatchers : /\ \A h \in gone'[c] : handler'[h] = NoSink
                               /\ dispatcher'[c] = "call" => current'[c] \notin gone'[c]
    BY <1>0, <2>1, <2>2, <2>3 DEF CallbackInv
  <2> QED
    BY <1>0, <2>1, <2>5, <2>6 DEF CallbackInv, NoBadCall
<1>8. ASSUME NEW d \in Dispatchers,
             \/ RaiseEnd(d) \/ UnlockHandler(d) \/ \E e \in Emitters : Raise(d, e)
             \/ \E h \in Handlers : LockHandler(d, h)
      PROVE  CallbackInv' /\ NoBadCall'
  <2>1. /\ UNCHANGED <<handler, caller, gone, badCall>> /\ ~Inside(d)
        /\ \E state \in {"idle", "loop", "check"} : dispatcher' = [dispatcher EXCEPT ![d] = state]
        /\ \A c \in Dispatchers \ {d} : current'[c] = current[c]
    BY <1>0, <1>8 DEF RaiseEnd, UnlockHandler, Raise, LockHandler, registry, ownerVars, WalkType, Inside
  <2>2. \A c \in Dispatchers \ {d} : dispatcher'[c] = dispatcher[c]
    BY <1>0, <2>1 DEF WalkType
  <2>3. dispatcher'[d] # "call"
    BY <1>0, <2>1 DEF WalkType
  <2>4. \A o \in Owners : caller[o] # d
    BY <1>0, <2>1 DEF CallbackInv
  <2>5. \A o \in Owners : caller'[o] # NoThread => Inside(caller[o])'
    BY <1>0, <2>1, <2>2, <2>4 DEF CallbackInv, Inside, OwnerType
  <2>6. \A c \in Dispatchers : /\ \A h \in gone'[c] : handler'[h] = NoSink
                               /\ dispatcher'[c] = "call" => current'[c] \notin gone'[c]
    BY <1>0, <2>1, <2>2, <2>3 DEF CallbackInv
  <2> QED
    BY <1>0, <2>1, <2>5, <2>6 DEF CallbackInv, NoBadCall
<1>9. ASSUME NEW e \in Emitters, CopyHandlers(e) \/ AddEventHandlers(e) PROVE CallbackInv' /\ NoBadCall'
  BY <1>1, <1>9 DEF CopyHandlers, AddEventHandlers, ownerVars, dispatcherVars, walkVars
<1>10. ASSUME NEW o \in Owners, RemoveLook(o) PROVE CallbackInv' /\ NoBadCall'
  BY <1>1, <1>10 DEF RemoveLook, registry, dispatcherVars, walkVars
<1>11. CASE UNCHANGED vars
  BY <1>1, <1>11 DEF vars, registry, ownerVars, dispatcherVars, walkVars
<1> QED
  BY <1>2, <1>3, <1>4, <1>5, <1>6, <1>7, <1>8, <1>9, <1>10, <1>11 DEF Next, RemoveStep, DispatcherStep

-----------------------------------------------------------------------------
THEOREM InvCorrect == Spec => []IInv
<1>1. IInv /\ [Next]_vars => IInv'
  BY StepType, StepUse, StepRegistry, StepCallback DEF IInv
<1> QED
  BY InitInv, <1>1, PTL DEF Spec

(* However many threads raise events, add, copy and remove handlers, a     *)
(* removal waits for every callback that has begun, and use counts balance *)
(* but for the exceptions that leave a loop without an inner try block.    *)
THEOREM RemovalIsSafeCorrect == Spec => []RemovalIsSafe
<1>1. IInv => RemovalIsSafe
  BY DEF IInv, RemovalIsSafe
<1> QED
  BY InvCorrect, <1>1, PTL

(* Maps and objects agree until handlers are copied, and no callback is    *)
(* called that its own thread removed.                                     *)
THEOREM CallsMatchCorrect == Spec => []CallsMatch
<1>1. IInv => CallsMatch
  BY DEF IInv, RegistryInv, CallsMatch
<1> QED
  BY InvCorrect, <1>1, PTL

-----------------------------------------------------------------------------
(***************************************************************************)
(* SerialReaderWriter.  What calls and losses leave behind is a matter of  *)
(* where each of the three threads is: SerialInv says what is counted,     *)
(* open, locked and stopped at each place.                                 *)
(***************************************************************************)

Running == {"loop", "read"}
Stopped == {"none", "exited"}
ReadMutexOf(t) == IF pc[t] \in {"openJoin", "closeJoin"} THEN t ELSE "free"
OpenMutexOf(t) == IF pc[t] \in {"closeJoin2", "reopenJoin"} THEN t ELSE "free"

SerialType ==
  /\ pc \in [Threads -> OpenStates \cup CloseStates \cup ReaderStates \cup {"none", "exited", "dead"}]
  /\ pc["user"] \in OpenStates \cup CloseStates \cup {"none", "dead"}
  /\ pc["reader"] \in {"closeCount", "closeLock", "closeJoin"} \cup ReaderStates
                     \cup {"none", "exited", "dead"}
  /\ pc["opener"] \in OpenStates \cup {"none", "exited", "dead"}
  /\ handles \in Int /\ users \in Nat /\ calls \in Nat /\ world \in Worlds
  /\ {open, stopReadThread, plugged} \subseteq BOOLEAN
  /\ {readMutex, openMutex} \subseteq Threads \cup {"free"}

(* Who holds a mutex; a reader that joined itself holds it for ever.       *)
LockInv ==
  /\ \A t \in Threads : /\ pc[t] \in {"openJoin", "closeJoin"} => readMutex = t
                        /\ pc[t] \in {"closeJoin2", "reopenJoin"} => openMutex = t
  /\ pc["reader"] = "catch" => readMutex = "reader"

(* HandlesSuffice within calls, too: one handle more is counted while the  *)
(* user's call opens, or has not yet begun to close.                       *)
Taken == IF pc["user"] \in {"closeCount", "openFile", "openLock", "openJoin"} THEN 1 ELSE 0
EnoughInv == pc["user"] = "dead" \/ readMutex = "reader" \/ handles + Owed >= users + Taken

(* Where all are while the device is not lost, by the user's place.        *)
UserInv ==
  /\ pc["opener"] \in Stopped
  /\ readMutex = ReadMutexOf("user") /\ openMutex = OpenMutexOf("user")
  /\ \/ /\ pc["user"] \in {"none", "openCount"} /\ handles = users
        /\ IF users > 0 THEN open /\ ~stopReadThread /\ pc["reader"] \in Running
                        ELSE ~open /\ pc["reader"] = "none"
     \/ /\ pc["user"] = "openFile" /\ handles = 1 /\ users = 0 /\ ~open /\ pc["reader"] = "none"
     \/ /\ pc["user"] \in {"openLock", "openJoin"} /\ handles = 1 /\ users = 0
        /\ open /\ ~stopReadThread /\ pc["reader"] = "none"
     \/ /\ pc["user"] = "closeCount" /\ handles = users + 1
        /\ open /\ ~stopReadThread /\ pc["reader"] \in Running
     \/ /\ pc["user"] = "closeLock" /\ handles = 0 /\ users = 0
        /\ open /\ ~stopReadThread /\ pc["reader"] \in Running
     \/ /\ pc["user"] = "closeJoin" /\ handles = 0 /\ users = 0
        /\ open /\ stopReadThread /\ pc["reader"] \in Running \cup {"exited"}
     \/ /\ pc["user"] \in {"closeLock2", "closeJoin2", "closeFile"} /\ handles = 0 /\ users = 0
        /\ open /\ pc["reader"] = "none"

(* Where all are after it was lost between calls: no call begins before    *)
(* the reader or the opener is done, and a lone user's reader is stuck.    *)
LostInv ==
  /\ world = "apart" /\ pc["user"] = "none" /\ users > 0
  /\ \/ /\ pc["reader"] \in {"loop", "closeCount"} /\ pc["opener"] \in Stopped
        /\ ~open /\ ~stopReadThread /\ handles = users /\ readMutex = "free" /\ openMutex = "free"
     \/ /\ pc["reader"] \in {"sleep", "reopenLock", "reopenJoin"} /\ pc["opener"] \in Stopped
        /\ ~open /\ handles = users - 1 /\ handles > 0
        /\ readMutex = "free" /\ openMutex = OpenMutexOf("reader")
     \/ /\ pc["reader"] = "exited" /\ pc["opener"] = "openCount"
        /\ ~open /\ handles = users - 1 /\ handles > 0 /\ readMutex = "free" /\ openMutex = "free"
     \/ /\ pc["reader"] = "exited" /\ pc["opener"] \in {"openFile", "openLock", "openJoin"}
        /\ open = (pc["opener"] # "openFile") /\ (open => ~stopReadThread)
        /\ handles = users /\ readMutex = ReadMutexOf("opener") /\ openMutex = "free"
     \/ /\ users = 1 /\ handles = 0 /\ ~open /\ pc["opener"] \in Stopped /\ openMutex = "free"
        /\ \/ pc["reader"] = "closeLock" /\ readMutex = "free"
           \/ /\ pc["reader"] \in {"closeJoin", "catch", "loop", "exited"}
              /\ readMutex = "reader" /\ stopReadThread

ApartInv == world \in {"calm", "apart"} => plugged /\ (UserInv \/ LostInv)

SerialInv == SerialType /\ LockInv /\ EnoughInv /\ ApartInv

(* A call begins. *)
LEMMA CallsKeeps ==
  ASSUME SerialInv, OpenCall \/ CloseCall
  PROVE  SerialInv'
<1> USE DEF Threads, OpenStates, CloseStates, ReaderStates, Goto, shared, device, SerialType
<1>0. SerialType /\ LockInv /\ EnoughInv /\ ApartInv
  BY DEF SerialInv
<1>1. CASE OpenCall
  <2>1. SerialType'
    BY <1>0, <1>1 DEF OpenCall, Reconnecting, Apart
  <2>2. LockInv'
    BY <1>0, <1>1 DEF OpenCall, Reconnecting, Apart, LockInv
  <2>3. EnoughInv'
    BY <1>0, <1>1 DEF OpenCall, Reconnecting, Apart, LockInv, EnoughInv, Owed, Taken
  <2>4. ApartInv'
    BY <1>0, <1>1 DEF OpenCall, Reconnecting, Apart, LockInv, ApartInv, UserInv, LostInv, ReadMutexOf, OpenMutexOf, Running, Stopped
  <2> QED
    BY <2>1, <2>2, <2>3, <2>4 DEF SerialInv
<1>2. CASE CloseCall
  <2>1. SerialType'
    BY <1>0, <1>2 DEF CloseCall, Reconnecting, Apart
  <2>2. LockInv'
    BY <1>0, <1>2 DEF CloseCall, Reconnecting, Apart, LockInv
  <2>3. EnoughInv'
    BY <1>0, <1>2 DEF CloseCall, Reconnecting, Apart, LockInv, EnoughInv, Owed, Taken
  <2>4. ApartInv'
    BY <1>0, <1>2 DEF CloseCall, Reconnecting, Apart, LockInv, ApartInv, UserInv, LostInv, ReadMutexOf, OpenMutexOf, Running, Stopped
  <2> QED
    BY <2>1, <2>2, <2>3, <2>4 DEF SerialInv
<1> QED
  BY <1>1, <1>2

(* A step of openDevice(), of the user or the opener. *)
LEMMA OpenKeeps ==
  ASSUME SerialInv, NEW t \in Threads, OpenStep(t)
  PROVE  SerialInv'
<1> USE DEF Threads, OpenStates, CloseStates, ReaderStates, Goto, shared, device, SerialType
<1>0. SerialType /\ LockInv /\ EnoughInv /\ ApartInv
  BY DEF SerialInv
<1>1. CASE OpenCount(t)
  <2>1. SerialType'
    BY <1>0, <1>1 DEF OpenCount, CountIn, Back
  <2>2. LockInv'
    BY <1>0, <1>1 DEF OpenCount, CountIn, Back, LockInv
  <2>3. EnoughInv'
    BY <1>0, <1>1 DEF OpenCount, CountIn, Back, LockInv, EnoughInv, Owed, Taken
  <2>4. ApartInv'
    BY <1>0, <1>1 DEF OpenCount, CountIn, Back, LockInv, ApartInv, UserInv, LostInv, ReadMutexOf, OpenMutexOf, Running, Stopped
  <2> QED
    BY <2>1, <2>2, <2>3, <2>4 DEF SerialInv
<1>2. CASE OpenFile(t)
  <2>1. SerialType'
    BY <1>0, <1>2 DEF OpenFile
  <2>2. LockInv'
    BY <1>0, <1>2 DEF OpenFile, LockInv
  <2>3. EnoughInv'
    BY <1>0, <1>2 DEF OpenFile, LockInv, EnoughInv, Owed, Taken
  <2>4. ApartInv'
    BY <1>0, <1>2 DEF OpenFile, LockInv, ApartInv, UserInv, LostInv, ReadMutexOf, OpenMutexOf, Running, Stopped
  <2> QED
    BY <2>1, <2>2, <2>3, <2>4 DEF SerialInv
<1>3. CASE OpenFails(t)
  <2>1. SerialType'
    BY <1>0, <1>3 DEF OpenFails, Back, SetupFails
  <2>2. LockInv'
    BY <1>0, <1>3 DEF OpenFails, Back, SetupFails, LockInv
  <2>3. EnoughInv'
    BY <1>0, <1>3 DEF OpenFails, Back, SetupFails, LockInv, EnoughInv, Owed, Taken
  <2>4. ApartInv'
    BY <1>0, <1>3 DEF OpenFails, Back, SetupFails, LockInv, ApartInv, UserInv, LostInv, ReadMutexOf, OpenMutexOf, Running, Stopped
  <2> QED
    BY <2>1, <2>2, <2>3, <2>4 DEF SerialInv
<1>4. CASE OpenLock(t)
  <2>1. SerialType'
    BY <1>0, <1>4 DEF OpenLock
  <2>2. LockInv'
    BY <1>0, <1>4 DEF OpenLock, LockInv
  <2>3. EnoughInv'
    BY <1>0, <1>4 DEF OpenLock, LockInv, EnoughInv, Owed, Taken
  <2>4. ApartInv'
    BY <1>0, <1>4 DEF OpenLock, LockInv, ApartInv, UserInv, LostInv, ReadMutexOf, OpenMutexOf, Running, Stopped
  <2> QED
    BY <2>1, <2>2, <2>3, <2>4 DEF SerialInv
<1>5. CASE OpenJoin(t)
  <2>1. SerialType'
    BY <1>0, <1>5 DEF OpenJoin, Back, Joined
  <2>2. LockInv'
    BY <1>0, <1>5 DEF OpenJoin, Back, Joined, LockInv
  <2>3. EnoughInv'
    BY <1>0, <1>5 DEF OpenJoin, Back, Joined, LockInv, EnoughInv, Owed, Taken
  <2>4. ApartInv'
    BY <1>0, <1>5 DEF OpenJoin, Back, Joined, LockInv, ApartInv, UserInv, LostInv, ReadMutexOf, OpenMutexOf, Running, Stopped
  <2> QED
    BY <2>1, <2>2, <2>3, <2>4 DEF SerialInv
<1> QED
  BY <1>1, <1>2, <1>3, <1>4, <1>5 DEF OpenStep

(* A step of closeDevice(), of the user or the reader. *)
LEMMA CloseKeeps ==
  ASSUME SerialInv, NEW t \in Threads, CloseStep(t)
  PROVE  SerialInv'
<1> USE DEF Threads, OpenStates, CloseStates, ReaderStates, Goto, shared, device, SerialType
<1>0. SerialType /\ LockInv /\ EnoughInv /\ ApartInv
  BY DEF SerialInv
<1>1. CASE CloseCount(t)
  <2>1. SerialType'
    BY <1>0, <1>1 DEF CloseCount, Back
  <2>2. LockInv'
    BY <1>0, <1>1 DEF CloseCount, Back, LockInv
  <2>3. EnoughInv'
    BY <1>0, <1>1 DEF CloseCount, Back, LockInv, EnoughInv, Owed, Taken
  <2>4. ApartInv'
    BY <1>0, <1>1 DEF CloseCount, Back, LockInv, ApartInv, UserInv, LostInv, ReadMutexOf, OpenMutexOf, Running, Stopped
  <2> QED
    BY <2>1, <2>2, <2>3, <2>4 DEF SerialInv
<1>2. CASE CloseLock(t)
  <2>1. SerialType'
    BY <1>0, <1>2 DEF CloseLock, Stop
  <2>2. LockInv'
    BY <1>0, <1>2 DEF CloseLock, Stop, LockInv
  <2>3. EnoughInv'
    BY <1>0, <1>2 DEF CloseLock, Stop, LockInv, EnoughInv, Owed, Taken
  <2>4. ApartInv'
    BY <1>0, <1>2 DEF CloseLock, Stop, LockInv, ApartInv, UserInv, LostInv, ReadMutexOf, OpenMutexOf, Running, Stopped
  <2> QED
    BY <2>1, <2>2, <2>3, <2>4 DEF SerialInv
<1>3. CASE CloseJoin(t)
  <2>1. SerialType'
    BY <1>0, <1>3 DEF CloseJoin, ReaderJoined, Joined
  <2>2. LockInv'
    BY <1>0, <1>3 DEF CloseJoin, ReaderJoined, Joined, LockInv
  <2>3. EnoughInv'
    BY <1>0, <1>3 DEF CloseJoin, ReaderJoined, Joined, LockInv, EnoughInv, Owed, Taken
  <2>4. ApartInv'
    BY <1>0, <1>3 DEF CloseJoin, ReaderJoined, Joined, LockInv, ApartInv, UserInv, LostInv, ReadMutexOf, OpenMutexOf, Running, Stopped
  <2> QED
    BY <2>1, <2>2, <2>3, <2>4 DEF SerialInv
<1>4. CASE CloseLock2(t)
  <2>1. SerialType'
    BY <1>0, <1>4 DEF CloseLock2
  <2>2. LockInv'
    BY <1>0, <1>4 DEF CloseLock2, LockInv
  <2>3. EnoughInv'
    BY <1>0, <1>4 DEF CloseLock2, LockInv, EnoughInv, Owed, Taken
  <2>4. ApartInv'
    BY <1>0, <1>4 DEF CloseLock2, LockInv, ApartInv, UserInv, LostInv, ReadMutexOf, OpenMutexOf, Running, Stopped
  <2> QED
    BY <2>1, <2>2, <2>3, <2>4 DEF SerialInv
<1>5. CASE CloseJoin2(t)
  <2>1. SerialType'
    BY <1>0, <1>5 DEF CloseJoin2, Joined
  <2>2. LockInv'
    BY <1>0, <1>5 DEF CloseJoin2, Joined, LockInv
  <2>3. EnoughInv'
    BY <1>0, <1>5 DEF CloseJoin2, Joined, LockInv, EnoughInv, Owed, Taken
  <2>4. ApartInv'
    BY <1>0, <1>5 DEF CloseJoin2, Joined, LockInv, ApartInv, UserInv, LostInv, ReadMutexOf, OpenMutexOf, Running, Stopped
  <2> QED
    BY <2>1, <2>2, <2>3, <2>4 DEF SerialInv
<1>6. CASE CloseFile(t)
  <2>1. SerialType'
    BY <1>0, <1>6 DEF CloseFile, Back
  <2>2. LockInv'
    BY <1>0, <1>6 DEF CloseFile, Back, LockInv
  <2>3. EnoughInv'
    BY <1>0, <1>6 DEF CloseFile, Back, LockInv, EnoughInv, Owed, Taken
  <2>4. ApartInv'
    BY <1>0, <1>6 DEF CloseFile, Back, LockInv, ApartInv, UserInv, LostInv, ReadMutexOf, OpenMutexOf, Running, Stopped
  <2> QED
    BY <2>1, <2>2, <2>3, <2>4 DEF SerialInv
<1> QED
  BY <1>1, <1>2, <1>3, <1>4, <1>5, <1>6 DEF CloseStep

(* A step of the reader. *)
LEMMA ReaderKeeps ==
  ASSUME SerialInv, ReaderStep
  PROVE  SerialInv'
<1> USE DEF Threads, OpenStates, CloseStates, ReaderStates, Goto, shared, device, SerialType
<1>0. SerialType /\ LockInv /\ EnoughInv /\ ApartInv
  BY DEF SerialInv
<1>1. CASE ReadLoop
  <2>1. SerialType'
    BY <1>0, <1>1 DEF ReadLoop
  <2>2. LockInv'
    BY <1>0, <1>1 DEF ReadLoop, LockInv
  <2>3. EnoughInv'
    BY <1>0, <1>1 DEF ReadLoop, LockInv, EnoughInv, Owed, Taken
  <2>4. ApartInv'
    BY <1>0, <1>1 DEF ReadLoop, LockInv, ApartInv, UserInv, LostInv, ReadMutexOf, OpenMutexOf, Running, Stopped
  <2> QED
    BY <2>1, <2>2, <2>3, <2>4 DEF SerialInv
<1>2. CASE Read
  <2>1. SerialType'
    BY <1>0, <1>2 DEF Read
  <2>2. LockInv'
    BY <1>0, <1>2 DEF Read, LockInv
  <2>3. EnoughInv'
    BY <1>0, <1>2 DEF Read, LockInv, EnoughInv, Owed, Taken
  <2>4. ApartInv'
    BY <1>0, <1>2 DEF Read, LockInv, ApartInv, UserInv, LostInv, ReadMutexOf, OpenMutexOf, Running, Stopped
  <2> QED
    BY <2>1, <2>2, <2>3, <2>4 DEF SerialInv
<1>3. CASE ReadFails
  <2>1. SerialType'
    BY <1>0, <1>3 DEF ReadFails, Lost, Apart
  <2>2. LockInv'
    BY <1>0, <1>3 DEF ReadFails, Lost, Apart, LockInv
  <2>3. EnoughInv'
    BY <1>0, <1>3 DEF ReadFails, Lost, Apart, LockInv, EnoughInv, Owed, Taken
  <2>4. ApartInv'
    BY <1>0, <1>3 DEF ReadFails, Lost, Apart, LockInv, ApartInv, UserInv, LostInv, ReadMutexOf, OpenMutexOf, Running, Stopped
  <2> QED
    BY <2>1, <2>2, <2>3, <2>4 DEF SerialInv
<1>4. CASE Catch
  <2>1. SerialType'
    BY <1>0, <1>4 DEF Catch
  <2>2. LockInv'
    BY <1>0, <1>4 DEF Catch, LockInv
  <2>3. EnoughInv'
    BY <1>0, <1>4 DEF Catch, LockInv, EnoughInv, Owed, Taken
  <2>4. ApartInv'
    BY <1>0, <1>4 DEF Catch, LockInv, ApartInv, UserInv, LostInv, ReadMutexOf, OpenMutexOf, Running, Stopped
  <2> QED
    BY <2>1, <2>2, <2>3, <2>4 DEF SerialInv
<1>5. CASE Slept
  <2>1. SerialType'
    BY <1>0, <1>5 DEF Slept
  <2>2. LockInv'
    BY <1>0, <1>5 DEF Slept, LockInv
  <2>3. EnoughInv'
    BY <1>0, <1>5 DEF Slept, LockInv, EnoughInv, Owed, Taken
  <2>4. ApartInv'
    BY <1>0, <1>5 DEF Slept, LockInv, ApartInv, UserInv, LostInv, ReadMutexOf, OpenMutexOf, Running, Stopped
  <2> QED
    BY <2>1, <2>2, <2>3, <2>4 DEF SerialInv
<1>6. CASE ReopenLock
  <2>1. SerialType'
    BY <1>0, <1>6 DEF ReopenLock
  <2>2. LockInv'
    BY <1>0, <1>6 DEF ReopenLock, LockInv
  <2>3. EnoughInv'
    BY <1>0, <1>6 DEF ReopenLock, LockInv, EnoughInv, Owed, Taken
  <2>4. ApartInv'
    BY <1>0, <1>6 DEF ReopenLock, LockInv, ApartInv, UserInv, LostInv, ReadMutexOf, OpenMutexOf, Running, Stopped
  <2> QED
    BY <2>1, <2>2, <2>3, <2>4 DEF SerialInv
<1>7. CASE ReopenJoin
  <2>1. SerialType'
    BY <1>0, <1>7 DEF ReopenJoin, StartOpener, Joined
  <2>2. LockInv'
    BY <1>0, <1>7 DEF ReopenJoin, StartOpener, Joined, LockInv
  <2>3. EnoughInv'
    BY <1>0, <1>7 DEF ReopenJoin, StartOpener, Joined, LockInv, EnoughInv, Owed, Taken
  <2>4. ApartInv'
    BY <1>0, <1>7 DEF ReopenJoin, StartOpener, Joined, LockInv, ApartInv, UserInv, LostInv, ReadMutexOf, OpenMutexOf, Running, Stopped
  <2> QED
    BY <2>1, <2>2, <2>3, <2>4 DEF SerialInv
<1>8. CASE JoinItself
  <2>1. SerialType'
    BY <1>0, <1>8 DEF JoinItself
  <2>2. LockInv'
    BY <1>0, <1>8 DEF JoinItself, LockInv
  <2>3. EnoughInv'
    BY <1>0, <1>8 DEF JoinItself, LockInv, EnoughInv, Owed, Taken
  <2>4. ApartInv'
    BY <1>0, <1>8 DEF JoinItself, LockInv, ApartInv, UserInv, LostInv, ReadMutexOf, OpenMutexOf, Running, Stopped
  <2> QED
    BY <2>1, <2>2, <2>3, <2>4 DEF SerialInv
<1> QED
  BY <1>1, <1>2, <1>3, <1>4, <1>5, <1>6, <1>7, <1>8 DEF ReaderStep
LEMMA PlugKeeps ==
  ASSUME SerialInv, Plug PROVE SerialInv'
  BY DEF SerialInv, SerialType, LockInv, EnoughInv, Owed, Taken, ApartInv, Plug, Unplugged, shared

LEMMA InitSerial == SerialInit => SerialInv
<1> SUFFICES ASSUME SerialInit PROVE SerialInv
  OBVIOUS
<1>1. SerialType
  <2>1. pc \in [Threads -> {"none"}] /\ \A t \in Threads : pc[t] = "none"
    BY DEF SerialInit
  <2>2. {open, stopReadThread, plugged} \subseteq BOOLEAN
    BY DEF SerialInit
  <2> QED
    BY <2>1, <2>2 DEF SerialInit, SerialType, Threads
<1>2. LockInv /\ EnoughInv
  BY DEF SerialInit, Threads, LockInv, EnoughInv, Owed, Taken
<1>3. ApartInv
  BY DEF SerialInit, Threads, ApartInv, UserInv, ReadMutexOf, OpenMutexOf, Stopped
<1> QED
  BY <1>1, <1>2, <1>3 DEF SerialInv

LEMMA NextSerial == SerialInv /\ [SerialNext]_serialVars => SerialInv'
<1> SUFFICES ASSUME SerialInv, [SerialNext]_serialVars PROVE SerialInv'
  OBVIOUS
<1>1. CASE UNCHANGED serialVars
  BY <1>1 DEF SerialInv, SerialType, LockInv, EnoughInv, Owed, Taken, ApartInv, UserInv, LostInv,
              ReadMutexOf, OpenMutexOf, serialVars, shared, device
<1>2. CASE SerialNext
  BY <1>2, CallsKeeps, OpenKeeps, CloseKeeps, ReaderKeeps, PlugKeeps DEF SerialNext
<1> QED
  BY <1>1, <1>2

THEOREM SerialCorrect == SerialSpec => []SerialInv
  BY InitSerial, NextSerial, PTL DEF SerialSpec

(* When nobody uses the device and no call runs, nothing of it runs, it is *)
(* closed and both mutexes are free, for any number of users and calls, if *)
(* it was lost between calls at most (openDevice, closeDevice).            *)
THEOREM QuietCorrect == SerialSpec => []Quiet
<1>1. SerialInv => Quiet
  BY DEF SerialInv, SerialType, ApartInv, UserInv, LostInv, ReadMutexOf, OpenMutexOf, Stopped, Quiet, Joined
<1> QED
  BY <1>1, SerialCorrect, PTL

(* Between calls there are as many handles as users, if the device was     *)
(* lost between calls at most; and, whatever fails, never fewer, unless    *)
(* the reader joined itself (openDevice, closeDevice, readThread).         *)
THEOREM HandlesMatchCorrect == SerialSpec => []HandlesMatch
<1>1. SerialInv => HandleBalance
  BY DEF SerialInv, SerialType, ApartInv, UserInv, LostInv, Stopped, HandleBalance, Reconnecting, CloseStates
<1>2. SerialInv => HandlesSuffice
  BY DEF SerialInv, SerialType, EnoughInv, Taken, Owed, HandlesSuffice
<1> QED
  BY <1>1, <1>2, SerialCorrect, PTL DEF HandlesMatch
================================================================================
