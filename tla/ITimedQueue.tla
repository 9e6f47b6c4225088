----------------------------- MODULE ITimedQueue -----------------------------
(***************************************************************************)
(* One queue index of BaseLib::ITimedQueue: entries ordered by the time    *)
(* they are due, which doubles as their id, and one thread that sleeps     *)
(* until the first of them is due.  bufferMutex guards the buffer and      *)
(* every section under it is one step.  processingThreadMutex, the one of  *)
(* the condition variable, is taken by no other thread, so a notification  *)
(* between the evaluation of a wait predicate and the wait is lost: the    *)
(* states "gapUntil" and "gapIdle" are that window.                        *)
(***************************************************************************)
EXTENDS Integers, FiniteSets, FiniteSetsExt

CONSTANTS
  Clients,       \* threads that call enqueue() and removeQueueEntry()
  Entries,       \* the items, each enqueued by one call
  NoEntry,       \* an empty std::shared_ptr
  BufferSize,    \* _bufferSize
  MaxTime,       \* bound on the clock and on the times of entries
  MaxStarts      \* bound on the calls of startQueue()

ASSUME TimeAssumption ==
  /\ MaxTime \in Nat \ {0} /\ BufferSize \in Nat \ {0}
  /\ NoEntry \notin Entries /\ IsFiniteSet(Entries)

VARIABLES
  now,                   \* the system clock
  buffer,                \* entry per id, NoEntry where the map has no id
  firstPositionChanged,
  stopProcessingThread,
  worker,                \* where the thread is in process()
  next,                  \* the deadline of its timed wait
  inHand,                \* its local variable entry
  owner, starts,         \* the caller of startQueue() and stopQueue()
  client,                \* "notify" between the store and the notification
  timeOf, idOf,          \* history: the time asked for and the id given out
  processed,             \* history: entries processQueueEntry() was called for
  cancelled, removed,    \* history: entries their client removed, and those
                         \* that removeQueueEntry() took out of the buffer
  overdue,               \* history: entries whose time had passed when they were queued
  early                  \* history: an entry was taken before its time

threadVars == <<worker, next, inHand, processed, early>>
clientVars == <<client, timeOf, idOf, cancelled, removed, overdue>>
ownerVars == <<owner, starts>>
vars == <<now, buffer, firstPositionChanged, stopProcessingThread, threadVars, clientVars,
          ownerVars>>

Times == 1 .. MaxTime
Ids == 1 .. MaxTime + Cardinality(Entries)

Used == {i \in Ids : buffer[i] # NoEntry}
Empty == Used = {}
First == Min(Used)

WorkerStates == {"none", "top", "look", "evalUntil", "gapUntil", "waitUntil", "evalIdle",
                 "gapIdle", "waitIdle", "reset", "check", "take", "process", "exited"}

TypeOK ==
  /\ now \in 0 .. MaxTime + Cardinality(Entries)
  /\ buffer \in [Ids -> Entries \cup {NoEntry}] /\ Cardinality(Used) <= BufferSize
  /\ firstPositionChanged \in BOOLEAN /\ stopProcessingThread \in BOOLEAN
  /\ worker \in WorkerStates /\ next \in Ids \cup {0} /\ inHand \in Entries \cup {NoEntry}
  /\ owner \in {"stopped", "started", "notify", "join"} /\ starts \in 0 .. MaxStarts
  /\ client \in [Clients -> {"idle", "notify"}]
  /\ timeOf \in [Entries -> Times \cup {0}] /\ idOf \in [Entries -> Ids \cup {0}]
  /\ processed \subseteq Entries /\ cancelled \subseteq Entries /\ removed \subseteq Entries
  /\ overdue \subseteq Entries /\ early \in BOOLEAN

Init ==
  /\ now = 0
  /\ buffer = [i \in Ids |-> NoEntry]
  /\ firstPositionChanged = FALSE /\ stopProcessingThread = TRUE
  /\ worker = "none" /\ next = 0 /\ inHand = NoEntry
  /\ owner = "stopped" /\ starts = 0
  /\ client = [c \in Clients |-> "idle"]
  /\ timeOf = [e \in Entries |-> 0] /\ idOf = [e \in Entries |-> 0]
  /\ processed = {} /\ cancelled = {} /\ removed = {} /\ overdue = {} /\ early = FALSE

Tick ==
  /\ now < MaxTime + Cardinality(Entries)
  /\ now' = now + 1
  /\ UNCHANGED <<buffer, firstPositionChanged, stopProcessingThread, threadVars, clientVars,
                 ownerVars>>

-----------------------------------------------------------------------------
(* enqueue() and removeQueueEntry()                                        *)

SameId(t) == t                 \* mutant: an id in use is not skipped
EarlierId(t) ==                \* mutant: the search goes down
  LET free == {i \in 1 .. t : i \notin Used} IN IF free = {} THEN t ELSE Max(free)
FreeId(t) == Min({i \in Ids : i >= t /\ i \notin Used})

Room == Cardinality(Used) < BufferSize

Enqueue(c, e, t) ==
  /\ client[c] = "idle" /\ timeOf[e] = 0
  /\ Room
  /\ LET id == FreeId(t)
     IN  /\ firstPositionChanged' = (firstPositionChanged \/ (~Empty /\ First > id))
         /\ buffer' = [buffer EXCEPT ![id] = e]
         /\ idOf' = [idOf EXCEPT ![e] = id]
  /\ timeOf' = [timeOf EXCEPT ![e] = t]
  /\ overdue' = IF t > now THEN overdue ELSE overdue \cup {e}
  /\ client' = [client EXCEPT ![c] = "notify"]
  /\ UNCHANGED <<now, stopProcessingThread, threadVars, cancelled, removed, ownerVars>>

(* notify_one(): wakes the thread if it already waits.                     *)
Woken == CASE worker = "waitUntil" -> "evalUntil"
           [] worker = "waitIdle" -> "evalIdle"
           [] OTHER -> worker

EnqueueNotify(c) ==
  /\ client[c] = "notify"
  /\ worker' = Woken
  /\ client' = [client EXCEPT ![c] = "idle"]
  /\ UNCHANGED <<now, buffer, firstPositionChanged, stopProcessingThread, next, inHand,
                 processed, early, timeOf, idOf, cancelled, removed, overdue, ownerVars>>

(* A client gives back the id it was given for its entry, at most once.    *)
RemoveQueueEntry(e) ==
  /\ idOf[e] # 0 /\ e \notin cancelled
  /\ cancelled' = cancelled \cup {e}
  /\ removed' = removed \cup ({buffer[idOf[e]]} \ {NoEntry})
  /\ buffer' = [buffer EXCEPT ![idOf[e]] = NoEntry]
  /\ UNCHANGED <<now, firstPositionChanged, stopProcessingThread, threadVars, client, timeOf,
                 idOf, overdue, ownerVars>>

-----------------------------------------------------------------------------
(* process()                                                               *)

Goto(from, to) ==
  /\ worker = from
  /\ worker' = to
  /\ UNCHANGED <<now, buffer, stopProcessingThread, inHand, processed, early, clientVars,
                 ownerVars>>

Top == Goto("top", IF stopProcessingThread THEN "exited" ELSE "look")
       /\ UNCHANGED <<firstPositionChanged, next>>

(* An empty buffer gives the deadline 0, which selects the untimed wait.   *)
Look ==
  /\ IF Empty THEN Goto("look", "evalIdle") /\ next' = 0
     ELSE IF First > now THEN Goto("look", "evalUntil") /\ next' = First
          ELSE Goto("look", "check") /\ UNCHANGED next
  /\ UNCHANGED firstPositionChanged

UntilPredicate == Empty \/ First <= now \/ firstPositionChanged \/ stopProcessingThread

EvalUntil == Goto("evalUntil", IF UntilPredicate THEN "reset" ELSE "gapUntil")
             /\ UNCHANGED <<firstPositionChanged, next>>

EvalIdle == Goto("evalIdle", IF ~Empty \/ stopProcessingThread THEN "reset" ELSE "gapIdle")
            /\ UNCHANGED <<firstPositionChanged, next>>

Sleep == (Goto("gapUntil", "waitUntil") \/ Goto("gapIdle", "waitIdle"))
         /\ UNCHANGED <<firstPositionChanged, next>>

NoDeadline == FALSE            \* mutant: the timed wait has no deadline
Deadline == now >= next

(* wait_until() gives up at the deadline whatever the predicate says;      *)
(* wait_for() evaluates it again every 1000 ms.                            *)
Timeout == (\/ Deadline /\ Goto("waitUntil", "reset")
            \/ Goto("waitIdle", "evalIdle"))
           /\ UNCHANGED <<firstPositionChanged, next>>

SpuriousWakeup == Goto("waitUntil", "evalUntil")
                  /\ UNCHANGED <<firstPositionChanged, next>>

Reset == Goto("reset", "check") /\ firstPositionChanged' = FALSE /\ UNCHANGED next

Check == Goto("check", IF stopProcessingThread THEN "exited" ELSE "take")
         /\ UNCHANGED <<firstPositionChanged, next>>

DueAny == ~Empty               \* mutant: after the wait the first entry counts as due
Due == ~Empty /\ First <= now

Take ==
  /\ worker = "take"
  /\ IF Due
       THEN /\ inHand' = buffer[First]
            /\ buffer' = [buffer EXCEPT ![First] = NoEntry]
            /\ early' = (early \/ timeOf[buffer[First]] > now)
            /\ worker' = "process"
       ELSE worker' = "top" /\ UNCHANGED <<inHand, buffer, early>>
  /\ UNCHANGED <<now, firstPositionChanged, stopProcessingThread, next, processed, clientVars,
                 ownerVars>>

(* processQueueEntry() returns or throws; either way the loop goes on.     *)
Process ==
  /\ worker = "process"
  /\ processed' = processed \cup {inHand}
  /\ inHand' = NoEntry
  /\ worker' = "top"
  /\ UNCHANGED <<now, buffer, firstPositionChanged, stopProcessingThread, next, early,
                 clientVars, ownerVars>>

-----------------------------------------------------------------------------
(* startQueue() and stopQueue(); ThreadManager::start() may refuse the     *)
(* thread, which startQueue() does not look at.                            *)

StartQueue ==
  /\ owner = "stopped" /\ starts < MaxStarts
  /\ stopProcessingThread' = FALSE
  /\ owner' = "started" /\ starts' = starts + 1
  /\ worker' \in {"top", "none"}
  /\ UNCHANGED <<now, buffer, firstPositionChanged, next, inHand, processed, early, clientVars>>

StopBegin ==
  /\ owner = "started"
  /\ stopProcessingThread' = TRUE
  /\ owner' = "notify"
  /\ UNCHANGED <<now, buffer, firstPositionChanged, threadVars, clientVars, starts>>

StopNotify ==
  /\ owner = "notify"
  /\ worker' = Woken
  /\ owner' = "join"
  /\ UNCHANGED <<now, buffer, firstPositionChanged, stopProcessingThread, next, inHand,
                 processed, early, clientVars, starts>>

Joined == worker \in {"none", "exited"}

StopReturn ==
  /\ owner = "join" /\ Joined
  /\ worker' = "none"
  /\ owner' = "stopped"
  /\ UNCHANGED <<now, buffer, firstPositionChanged, stopProcessingThread, next, inHand,
                 processed, early, clientVars, starts>>

-----------------------------------------------------------------------------
WorkerStep == Top \/ Look \/ EvalUntil \/ EvalIdle \/ Sleep \/ Timeout \/ Reset \/ Check
              \/ Take \/ Process

Next ==
  \/ Tick
  \/ \E c \in Clients : EnqueueNotify(c) \/ \E e \in Entries, t \in Times : Enqueue(c, e, t)
  \/ \E e \in Entries : RemoveQueueEntry(e)
  \/ WorkerStep
  \/ SpuriousWakeup
  \/ StartQueue \/ StopBegin \/ StopNotify \/ StopReturn

Spec == Init /\ [][Next]_vars

(* Time goes on, and threads that can take a step do.                      *)
Fairness == /\ WF_vars(Tick)
            /\ WF_vars(WorkerStep)
            /\ \A c \in Clients : WF_vars(EnqueueNotify(c))
            /\ WF_vars(StopNotify \/ StopReturn)

FairSpec == Spec /\ Fairness

-----------------------------------------------------------------------------
(* Properties                                                              *)

(* processQueueEntry() is never called before the time the client asked    *)
(* for, even when the id was moved because the time was already in use.    *)
NeverEarly == ~early

(* No entry that was queued is lost or given out twice: each is in exactly *)
(* one place, and a stop and restart of the queue keeps those that wait.   *)
Conservation ==
  \A e \in Entries : timeOf[e] # 0 =>
    LET elsewhere == <<e = inHand, e \in processed, e \in removed>>
    IN  Cardinality({i \in Ids : buffer[i] = e})
          + Cardinality({k \in DOMAIN elsewhere : elsewhere[k]}) = 1

(* removeQueueEntry() only removes the entry its id was given out for: an  *)
(* id becomes free for another entry when it is processed, but an entry    *)
(* queued for the future never gets one that a late removal could hit.     *)
RemovesOwn == removed \ overdue \subseteq cancelled

(* An entry leaves the queue once, and only to be processed, not before it *)
(* is due, or because its own id was given to removeQueueEntry().          *)
LeavesOnce == Conservation /\ RemovesOwn /\ NeverEarly

(* An entry in the buffer is eventually processed, unless it is removed or *)
(* the queue stopped, although the notification of enqueue() can be lost   *)
(* and the wait for the old first entry goes on for a while.               *)
Processed == \A e \in Entries :
  (\E i \in Ids : buffer[i] = e) /\ owner = "started" /\ worker # "none" ~>
    e \in processed \cup removed \/ owner # "started"

(* stopQueue() ends although its notification can be lost, because every   *)
(* wait of the thread has a deadline.                                      *)
StopReturns == owner = "notify" ~> owner = "stopped"
=============================================================================
