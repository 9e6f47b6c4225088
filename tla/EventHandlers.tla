----------------------------- MODULE EventHandlers -----------------------------
(***************************************************************************)
(* BaseLib::IEventsEx and the threads that raise its events.  An emitter   *)
(* keeps a map from sinks to EventHandler objects under a mutex.  Raising  *)
(* an event copies the map and walks the copy without the mutex, counting  *)
(* itself into the object's useCount around each callback; the removal of  *)
(* a handler polls that counter before it erases and invalidates it.       *)
(*                                                                         *)
(* A section under the mutex is one step, except for the removal, where    *)
(* the look at useCount and the erasure are two: raising an event needs no *)
(* mutex and runs in between.  The mutex is free unless a removal is at    *)
(* "erase".                                                                *)
(***************************************************************************)
EXTENDS Integers, FiniteSets, Functions

CONSTANTS
  Emitters,     \* objects derived from IEventsEx
  Sinks,        \* IEventSinkBase objects
  Owners,       \* threads that register a sink and remove it again
  SinkOf,       \* the sink each owner registers
  Dispatchers,  \* threads that raise events
  NoSink,       \* nullptr
  NoThread,     \* a removal that is not called from a callback
  MaxHandlers,  \* bound on the EventHandler objects created
  MaxEvents,    \* bound on the events raised
  MaxCopies,    \* bound on the calls of addEventHandlers()
  Guarded       \* the emitters that catch around a callback, before unlock()

ASSUME EventAssumption ==
  /\ SinkOf \in [Owners -> Sinks]
  /\ NoSink \notin Sinks /\ NoThread \notin Dispatchers /\ IsFiniteSet(Dispatchers)
  /\ MaxHandlers \in Nat /\ MaxEvents \in Nat /\ MaxCopies \in Nat
  /\ Guarded \subseteq Emitters

VARIABLES
  eventHandlers,        \* _eventHandlers of each emitter, 0 where it has no sink
  handler,              \* _handler of each object
  useCount,             \* _useCount of each object
  created, copies, events,
  copied,               \* a copy of a map on its way to addEventHandlers()
  held,                 \* the emitter and the object each owner registered with
  removal,              \* where each owner is in removeEventHandler()
  caller,               \* the dispatcher whose callback runs the removal
  dispatcher,           \* where each dispatcher is
  raising,              \* the emitter whose event it raises
  todo, current,        \* its copy of the map, the object of this iteration
  gone,                 \* history: objects each dispatcher's callbacks removed
  leaked,               \* history: the times unlock() was skipped, for each object
  ignored,              \* history: a removal did not wait for a callback
  badCall               \* history: a callback began on such an object

registry == <<eventHandlers, handler, created, copies, copied>>
ownerVars == <<held, removal, caller, gone, ignored>>
walkVars == <<dispatcher, raising, todo, current, events, badCall>>
dispatcherVars == <<walkVars, leaked>>
vars == <<registry, useCount, ownerVars, dispatcherVars>>

Handlers == 1 .. MaxHandlers
NoCopy == [s \in Sinks |-> 0]
Nowhere == [emitter |-> CHOOSE e \in Emitters : TRUE, id |-> 0]

TypeOK ==
  /\ eventHandlers \in [Emitters -> [Sinks -> 0 .. created]]
  /\ handler \in [Handlers -> Sinks \cup {NoSink}]
  /\ useCount \in [Handlers -> 0 .. MaxEvents] /\ leaked \in [Handlers -> 0 .. MaxEvents]
  /\ created \in 0 .. MaxHandlers /\ copies \in 0 .. MaxCopies /\ events \in 0 .. MaxEvents
  /\ copied \in [Sinks -> 0 .. created]
  /\ held \in [Owners -> [emitter : Emitters, id : 0 .. created]]
  /\ removal \in [Owners -> {"no", "look", "erase"}]
  /\ caller \in [Owners -> Dispatchers \cup {NoThread}]
  /\ dispatcher \in [Dispatchers -> {"idle", "loop", "check", "call", "inside", "unlock"}]
  /\ raising \in [Dispatchers -> Emitters]
  /\ todo \in [Dispatchers -> SUBSET (1 .. created)]
  /\ current \in [Dispatchers -> 0 .. created]
  /\ gone \in [Dispatchers -> SUBSET (1 .. created)] /\ ignored \in BOOLEAN /\ badCall \in BOOLEAN

Init ==
  /\ eventHandlers = [e \in Emitters |-> NoCopy]
  /\ handler = [h \in Handlers |-> NoSink] /\ useCount = [h \in Handlers |-> 0]
  /\ leaked = [h \in Handlers |-> 0]
  /\ created = 0 /\ copies = 0 /\ events = 0 /\ copied = NoCopy
  /\ held = [o \in Owners |-> Nowhere]
  /\ removal = [o \in Owners |-> "no"] /\ caller = [o \in Owners |-> NoThread]
  /\ dispatcher = [d \in Dispatchers |-> "idle"]
  /\ todo = [d \in Dispatchers |-> {}] /\ current = [d \in Dispatchers |-> 0]
  /\ raising = [d \in Dispatchers |-> Nowhere.emitter]
  /\ gone = [d \in Dispatchers |-> {}] /\ ignored = FALSE /\ badCall = FALSE

MutexFree(e) == \A o \in Owners : removal[o] = "erase" => held[o].emitter # e

-----------------------------------------------------------------------------
(* addEventHandler() and addEventHandlers()                                *)

(* A sink that is registered already gets the object it has.               *)
AddEventHandler(o, e) ==
  LET sink == SinkOf[o]
  IN  /\ held[o].id = 0 /\ MutexFree(e)
      /\ IF eventHandlers[e][sink] # 0
           THEN /\ held' = [held EXCEPT ![o] = [emitter |-> e, id |-> eventHandlers[e][sink]]]
                /\ UNCHANGED <<eventHandlers, handler, created>>
           ELSE /\ created < MaxHandlers
                /\ created' = created + 1
                /\ handler' = [handler EXCEPT ![created + 1] = sink]
                /\ eventHandlers' = [eventHandlers EXCEPT ![e][sink] = created + 1]
                /\ held' = [held EXCEPT ![o] = [emitter |-> e, id |-> created + 1]]
      /\ UNCHANGED <<copies, copied, useCount, removal, caller, gone, ignored, dispatcherVars>>

(* What getEventHandlers() of one emitter returns ...                      *)
CopyHandlers(e) ==
  /\ copies < MaxCopies /\ copied = NoCopy /\ MutexFree(e)
  /\ copied' = eventHandlers[e]
  /\ copies' = copies + 1
  /\ UNCHANGED <<eventHandlers, handler, created, useCount, ownerVars, dispatcherVars>>

(* ... is added to another, for the sinks that one does not have.          *)
AddEventHandlers(e) ==
  /\ copied # NoCopy /\ MutexFree(e)
  /\ eventHandlers' = [eventHandlers EXCEPT ![e] =
       [s \in Sinks |-> IF @[s] = 0 THEN copied[s] ELSE @[s]]]
  /\ copied' = NoCopy
  /\ UNCHANGED <<handler, created, copies, useCount, ownerVars, dispatcherVars>>

-----------------------------------------------------------------------------
(* removeEventHandler()                                                    *)

Inside(d) == dispatcher[d] = "inside"

(* A callback may remove other handlers, one at a time; if it removed its  *)
(* own, it would wait for itself.                                          *)
MayRemove(o, d) ==
  d # NoThread =>
       /\ Inside(d) /\ current[d] # held[o].id
       /\ \A other \in Owners : caller[other] # d

RemoveBegin(o, d) ==
  /\ held[o].id # 0 /\ removal[o] = "no" /\ MayRemove(o, d)
  /\ removal' = [removal EXCEPT ![o] = "look"]
  /\ caller' = [caller EXCEPT ![o] = d]
  /\ UNCHANGED <<registry, useCount, held, gone, ignored, dispatcherVars>>

UnusedByOthers(h) == useCount[h] <= 1    \* mutant: one user is not waited for
Unused(h) == useCount[h] = 0

(* The count is read under the mutex, which is released for 100 ms between *)
(* two looks.                                                              *)
RemoveLook(o) ==
  LET h == held[o].id
  IN  /\ removal[o] = "look" /\ MutexFree(held[o].emitter)
      /\ Unused(h)
      /\ removal' = [removal EXCEPT ![o] = "erase"]
      /\ ignored' = (ignored \/ \E d \in Dispatchers : Inside(d) /\ current[d] = h)
      /\ UNCHANGED <<registry, useCount, held, caller, gone, dispatcherVars>>

(* The entry is found by the sink the object has; an object that lost it   *)
(* in an earlier removal is not found.                                     *)
InvalidateOnly(e, h) ==                  \* mutant: the map keeps its entry
  /\ handler' = [handler EXCEPT ![h] = NoSink]
  /\ UNCHANGED eventHandlers
EraseAndInvalidate(e, h) ==
  /\ eventHandlers' = [eventHandlers EXCEPT ![e][handler[h]] = 0]
  /\ handler' = [handler EXCEPT ![h] = NoSink]

RemoveErase(o) ==
  LET e == held[o].emitter  h == held[o].id
  IN  /\ removal[o] = "erase"
      /\ IF handler[h] # NoSink /\ eventHandlers[e][handler[h]] # 0
           THEN EraseAndInvalidate(e, h)
           ELSE UNCHANGED <<eventHandlers, handler>>
      /\ gone' = IF caller[o] = NoThread THEN gone ELSE [gone EXCEPT ![caller[o]] = @ \cup {h}]
      /\ held' = [held EXCEPT ![o] = Nowhere]
      /\ removal' = [removal EXCEPT ![o] = "no"]
      /\ caller' = [caller EXCEPT ![o] = NoThread]
      /\ UNCHANGED <<created, copies, copied, useCount, ignored, dispatcherVars>>

-----------------------------------------------------------------------------
(* The loop that raises an event, with or without a try block inside       *)

(* Without any handler an event has no effect.                             *)
Raise(d, e) ==
  /\ dispatcher[d] = "idle" /\ events < MaxEvents /\ MutexFree(e)
  /\ eventHandlers[e] # NoCopy
  /\ todo' = [todo EXCEPT ![d] = Range(eventHandlers[e]) \ {0}]
  /\ dispatcher' = [dispatcher EXCEPT ![d] = "loop"]
  /\ raising' = [raising EXCEPT ![d] = e]
  /\ events' = events + 1
  /\ UNCHANGED <<registry, useCount, ownerVars, current, badCall, leaked>>

RaiseEnd(d) ==
  /\ dispatcher[d] = "loop" /\ todo[d] = {}
  /\ dispatcher' = [dispatcher EXCEPT ![d] = "idle"]
  /\ UNCHANGED <<registry, useCount, ownerVars, raising, todo, current, events, badCall, leaked>>

SetInUse(h) == useCount' = [useCount EXCEPT ![h] = 1]       \* mutant: a flag, not a counter
Lock(h) == useCount' = [useCount EXCEPT ![h] = @ + 1]

LockHandler(d, h) ==
  /\ dispatcher[d] = "loop" /\ h \in todo[d]
  /\ Lock(h)
  /\ current' = [current EXCEPT ![d] = h]
  /\ todo' = [todo EXCEPT ![d] = @ \ {h}]
  /\ dispatcher' = [dispatcher EXCEPT ![d] = "check"]
  /\ UNCHANGED <<registry, ownerVars, raising, events, badCall, leaked>>

NoCheck(h) == TRUE                       \* mutant: the handler is not looked at
HasSink(h) == handler[h] # NoSink

CheckHandler(d) ==
  /\ dispatcher[d] = "check"
  /\ dispatcher' = [dispatcher EXCEPT ![d] = IF HasSink(current[d]) THEN "call" ELSE "unlock"]
  /\ UNCHANGED <<registry, useCount, ownerVars, raising, todo, current, events, badCall, leaked>>

(* handler() is read a second time for the call.                           *)
Call(d) ==
  /\ dispatcher[d] = "call"
  /\ badCall' = (badCall \/ current[d] \in gone[d])
  /\ dispatcher' = [dispatcher EXCEPT ![d] = "inside"]
  /\ UNCHANGED <<registry, useCount, ownerVars, raising, todo, current, events, leaked>>

InRemoval(d) == \E o \in Owners : caller[o] = d

CallbackReturns(d) ==
  /\ Inside(d) /\ ~InRemoval(d)
  /\ dispatcher' = [dispatcher EXCEPT ![d] = "unlock"]
  /\ UNCHANGED <<registry, useCount, ownerVars, raising, todo, current, events, badCall, leaked>>

(* Without the inner try block the exception leaves the loop: unlock() is  *)
(* not called and the remaining handlers do not see the event.             *)
CallbackThrows(d) ==
  /\ Inside(d) /\ ~InRemoval(d)
  /\ IF raising[d] \in Guarded
       THEN dispatcher' = [dispatcher EXCEPT ![d] = "unlock"] /\ UNCHANGED <<todo, current, leaked>>
       ELSE /\ dispatcher' = [dispatcher EXCEPT ![d] = "idle"]
            /\ todo' = [todo EXCEPT ![d] = {}]
            /\ leaked' = [leaked EXCEPT ![current[d]] = @ + 1]
            /\ current' = [current EXCEPT ![d] = 0]
  /\ UNCHANGED <<registry, useCount, ownerVars, raising, events, badCall>>

Unlock(h) == useCount' = [useCount EXCEPT ![h] = @ - 1]

UnlockHandler(d) ==
  /\ dispatcher[d] = "unlock"
  /\ Unlock(current[d])
  /\ current' = [current EXCEPT ![d] = 0]
  /\ dispatcher' = [dispatcher EXCEPT ![d] = "loop"]
  /\ UNCHANGED <<registry, ownerVars, raising, todo, events, badCall, leaked>>

-----------------------------------------------------------------------------
DispatcherStep(d) ==
  \/ RaiseEnd(d) \/ CheckHandler(d) \/ Call(d) \/ CallbackReturns(d) \/ UnlockHandler(d)
  \/ \E h \in Handlers : LockHandler(d, h)

RemoveStep(o) == RemoveLook(o) \/ RemoveErase(o)

Next ==
  \/ \E o \in Owners : \/ \E e \in Emitters : AddEventHandler(o, e)
                       \/ \E d \in Dispatchers \cup {NoThread} : RemoveBegin(o, d)
                       \/ RemoveStep(o)
  \/ \E e \in Emitters : CopyHandlers(e) \/ AddEventHandlers(e)
  \/ \E d \in Dispatchers : \/ \E e \in Emitters : Raise(d, e)
                            \/ DispatcherStep(d)
                            \/ CallbackThrows(d)

Spec == Init /\ [][Next]_vars

-----------------------------------------------------------------------------
(* Properties                                                              *)

Users(h) == {d \in Dispatchers : current[d] = h}

(* lock() and unlock() balance: useCount is the number of threads between  *)
(* them and of the exceptions that left a loop without the inner try block *)
(* (as in IPhysicalInterface), so a removal is held up by nothing else.    *)
UseCount ==
  \A h \in Handlers : useCount[h] = Cardinality(Users(h)) + leaked[h]

(* removeEventHandler() waits for every callback of the handler that has   *)
(* begun when it looks, however many threads are in it.                    *)
RemovalWaits == ~ignored

(* So removeEventHandler() returns when, and only when, nobody uses the    *)
(* handler any more: its caller may then delete the sink.                  *)
RemovalIsSafe == UseCount /\ RemovalWaits

(* The map and the objects agree: a registered object has the sink it is   *)
(* registered for, so a sink that is added again is called again.  Not so  *)
(* once handlers were copied: a copy may add an object that was removed    *)
(* meanwhile, and adding its sink again finds that one.                    *)
Registered ==
  copies = 0 =>
    \A e \in Emitters, s \in Sinks :
      eventHandlers[e][s] # 0 => handler[eventHandlers[e][s]] = s

(* A sink that a callback has removed is not called any more by the same   *)
(* thread, although its walk over the copied map goes on.                  *)
NoBadCall == ~badCall

(* So a sink is called if it is registered, and by nobody who knows that   *)
(* it is not.                                                              *)
CallsMatch == Registered /\ NoBadCall
=============================================================================
