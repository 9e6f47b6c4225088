-------------------------------- MODULE IQueue --------------------------------
(***************************************************************************)
(* One queue index of BaseLib::IQueue: a ring buffer filled by enqueue()   *)
(* and emptied by the threads that run process(), guarded by one mutex and *)
(* two condition variables, with startQueue() and stopQueue() called by    *)
(* the owner of the object.  Queue indices share no state but the thread   *)
(* table addThread() looks at, so one index stands for all.                *)
(*                                                                         *)
(* Steps are as fine as the locking: a step that holds queueMutex and one  *)
(* that reads the atomic stop flag interleave, entering a wait is apart    *)
(* from evaluating its predicate, and notifications happen after unlock as *)
(* in the code.  Metrics (maxThreadLoad, maxWait...) are left out, and so  *)
(* are calls with an invalid index or a null entry, which return at once.  *)
(***************************************************************************)
EXTENDS Integers, Sequences, FiniteSets, SequencesExt

CONSTANTS
  Producers,        \* threads that call enqueue()
  Workers,          \* the processing threads a queue may have
  Entries,          \* the items, each enqueued by one call
  NoEntry,          \* an empty std::shared_ptr
  NoThread,         \* the owner of a free mutex
  BufferSize,       \* _bufferSize
  InitialThreads,   \* threads startQueue() starts, at most all Workers
  QueueCount,       \* the constructor's queueCount
  StartModes,       \* the values of startQueue()'s waitWhenFull in use
  EnqueueModes,     \* the values of enqueue()'s waitWhenFull in use
  Overlap,          \* the calls stopQueue() may run beside: those that wait for
                    \* room ({TRUE}), those that do not ({FALSE}), both, none
  ThreadsMayFail,   \* may ThreadManager::start() refuse a thread?
  OtherExceptions,  \* may processQueueEntry() throw no std::exception?
  TimeoutsFire,     \* do the 1000 ms timeouts of wait_for() happen?
  MaxStarts         \* bound on the calls of startQueue()

ASSUME BufferSizeAssumption == BufferSize \in Nat \ {0}

ASSUME ThreadAssumption ==
  /\ NoEntry \notin Entries
  /\ NoThread \notin Producers \cup Workers
  /\ Producers \cap Workers = {}

ASSUME ModeAssumption ==
  /\ StartModes \subseteq BOOLEAN
  /\ EnqueueModes \subseteq BOOLEAN
  /\ Overlap \subseteq BOOLEAN
  /\ {ThreadsMayFail, OtherExceptions, TimeoutsFire} \subseteq BOOLEAN

VARIABLES
  stopProcessingThread,  \* the atomic stop flag
  bufferHead, bufferTail, bufferCount,
  buffer,                \* the slots; all empty while the vector is cleared
  sized,                 \* the buffer vector has BufferSize slots, not zero
  waitWhenFull,          \* startQueue()'s argument
  threadsInUse,
  queueMutex,            \* the thread that holds the mutex
  producer,              \* where each producer is in enqueue()
  argument,              \* [entry, wait]: the arguments of its call
  worker,                \* where each thread is in process()
  inHand,                \* the local variable entry of each thread
  owner,                 \* where the owner is in startQueue() or stopQueue()
  addThreadAnswer,       \* what addThread() last returned
  starts,                \* calls of startQueue() so far
  answer,                \* history: what enqueue() returned for an entry
  accepted,              \* history: entries in the order they were buffered
  handled,               \* history: entries in the order they were processed
  late,                  \* history: entries a thread took after the stop flag
  overrun                \* history: a slot of a cleared vector was accessed

ring == <<bufferHead, bufferTail, bufferCount, buffer>>
control == <<stopProcessingThread, sized, waitWhenFull, owner, starts>>
callers == <<producer, argument, answer, accepted>>
threads == <<worker, inHand, threadsInUse, handled, late>>

vars == <<ring, control, callers, threads, queueMutex, addThreadAnswer, overrun>>

ProducerStates == {"idle", "lock", "block", "wait", "store", "notify"}
WorkerStates == {"none", "refused", "top", "lock", "block", "wait", "take",
                 "notify", "process", "relock", "exited"}
OwnerStates == {"stopped", "starting", "started", "fence", "notify", "join"}

Slots == 0 .. BufferSize - 1

NextSlotUnwrapped(i) == i + 1      \* mutant: no wrap-around
NextSlot(i) == (i + 1) % BufferSize

Cleared == [i \in Slots |-> NoEntry]
NoCall == [entry |-> NoEntry, wait |-> FALSE]

RingType ==
  /\ bufferHead \in Slots /\ bufferTail \in Slots /\ bufferCount \in 0 .. BufferSize
  /\ buffer \in [Slots -> Entries \cup {NoEntry}]

ControlType ==
  /\ stopProcessingThread \in BOOLEAN /\ sized \in BOOLEAN /\ waitWhenFull \in BOOLEAN
  /\ owner \in OwnerStates
  /\ queueMutex \in Producers \cup Workers \cup {NoThread}
  /\ addThreadAnswer \in {"none", "true", "false"}
  /\ starts \in Nat /\ overrun \in BOOLEAN

CallType ==
  /\ producer \in [Producers -> ProducerStates]
  /\ argument \in [Producers -> [entry : Entries \cup {NoEntry}, wait : BOOLEAN]]
  /\ answer \in [Entries -> {"none", "true", "false"}]
  /\ accepted \in Seq(Entries)

ThreadType ==
  /\ worker \in [Workers -> WorkerStates]
  /\ inHand \in [Workers -> Entries \cup {NoEntry}]
  /\ threadsInUse \in Int
  /\ handled \in Seq(Entries)
  /\ late \in [Workers -> Nat]

TypeOK == RingType /\ ControlType /\ CallType /\ ThreadType

Init ==
  /\ stopProcessingThread = TRUE
  /\ bufferHead = 0 /\ bufferTail = 0 /\ bufferCount = 0
  /\ buffer = Cleared /\ sized = FALSE /\ waitWhenFull = FALSE
  /\ threadsInUse = 0 /\ queueMutex = NoThread
  /\ producer = [p \in Producers |-> "idle"]
  /\ argument = [p \in Producers |-> NoCall]
  /\ worker = [w \in Workers |-> "none"]
  /\ inHand = [w \in Workers |-> NoEntry]
  /\ owner = "stopped" /\ starts = 0 /\ addThreadAnswer = "none"
  /\ answer = [e \in Entries |-> "none"]
  /\ accepted = <<>> /\ handled = <<>>
  /\ late = [w \in Workers |-> 0]
  /\ overrun = FALSE

(* Condition variables: the threads at "wait" are the wait set.            *)
NotifyOne(pc) ==
  LET waiting == {t \in DOMAIN pc : pc[t] = "wait"}
  IN  IF waiting = {} THEN {pc} ELSE {[pc EXCEPT ![t] = "lock"] : t \in waiting}

NotifyAll(pc) == [t \in DOMAIN pc |-> IF pc[t] = "wait" THEN "lock" ELSE pc[t]]

-----------------------------------------------------------------------------
(* enqueue()                                                               *)

NeverOffered(e) == answer[e] = "none" /\ \A p \in Producers : argument[p].entry # e

(* Clients do not enqueue while startQueue() runs.                         *)
MayEnqueue == owner # "starting"

Return(p, result) ==
  /\ producer' = [producer EXCEPT ![p] = "idle"]
  /\ argument' = [argument EXCEPT ![p] = NoCall]
  /\ answer' = [answer EXCEPT ![argument[p].entry] = result]
  /\ UNCHANGED accepted

Waits(p) == waitWhenFull \/ argument[p].wait

(* A stopped queue returns true without queueing the entry.                *)
EnqueueToStopped(e) ==
  /\ MayEnqueue /\ NeverOffered(e)
  /\ stopProcessingThread
  /\ answer' = [answer EXCEPT ![e] = "true"]
  /\ UNCHANGED <<ring, control, producer, argument, accepted, threads, queueMutex,
                 addThreadAnswer, overrun>>

EnqueueBegin(p, e, wait) ==
  /\ producer[p] = "idle"
  /\ MayEnqueue /\ NeverOffered(e)
  /\ ~stopProcessingThread
  /\ producer' = [producer EXCEPT ![p] = "lock"]
  /\ argument' = [argument EXCEPT ![p] = [entry |-> e, wait |-> wait]]
  /\ UNCHANGED <<ring, control, answer, accepted, threads, queueMutex,
                 addThreadAnswer, overrun>>

(* The lock is acquired and the condition of the branch evaluated.         *)
EnqueueLock(p) ==
  /\ producer[p] = "lock" /\ queueMutex = NoThread
  /\ IF Waits(p)
       THEN IF stopProcessingThread
              THEN Return(p, "true") /\ UNCHANGED queueMutex
              ELSE /\ queueMutex' = p
                   /\ producer' = [producer EXCEPT
                        ![p] = IF bufferCount < BufferSize THEN "store" ELSE "block"]
                   /\ UNCHANGED <<argument, answer, accepted>>
       ELSE IF bufferCount >= BufferSize
              THEN Return(p, "false") /\ UNCHANGED queueMutex
              ELSE /\ queueMutex' = p
                   /\ producer' = [producer EXCEPT ![p] = "store"]
                   /\ UNCHANGED <<argument, answer, accepted>>
  /\ UNCHANGED <<ring, control, threads, addThreadAnswer, overrun>>

(* wait_for() joins the wait set and releases the lock in one step.        *)
EnqueueBlock(p) ==
  /\ producer[p] = "block"
  /\ producer' = [producer EXCEPT ![p] = "wait"]
  /\ queueMutex' = NoThread
  /\ UNCHANGED <<ring, control, argument, answer, accepted, threads,
                 addThreadAnswer, overrun>>

EnqueueTimeout(p) ==
  /\ TimeoutsFire
  /\ producer[p] = "wait"
  /\ producer' = [producer EXCEPT ![p] = "lock"]
  /\ UNCHANGED <<ring, control, argument, answer, accepted, threads, queueMutex,
                 addThreadAnswer, overrun>>

EnqueueStore(p) ==
  /\ producer[p] = "store"
  /\ IF sized
       THEN /\ buffer' = [buffer EXCEPT ![bufferTail] = argument[p].entry]
            /\ accepted' = Append(accepted, argument[p].entry)
            /\ UNCHANGED overrun
       ELSE overrun' = TRUE /\ UNCHANGED <<buffer, accepted>>
  /\ bufferTail' = NextSlot(bufferTail)
  /\ bufferCount' = bufferCount + 1
  /\ queueMutex' = NoThread
  /\ producer' = [producer EXCEPT ![p] = "notify"]
  /\ UNCHANGED <<bufferHead, control, argument, answer, threads, addThreadAnswer>>

(* processingConditionVariable.notify_one() after a store.                 *)
NotifyWorkerOfFirst ==             \* mutant: notifies if the entry is the only one
  worker' \in IF bufferCount = 1 THEN NotifyOne(worker) ELSE {worker}
NotifyNoWorker == UNCHANGED worker   \* mutant: forgets to notify
NotifyWorker == worker' \in NotifyOne(worker)

EnqueueNotify(p) ==
  /\ producer[p] = "notify"
  /\ NotifyWorker
  /\ Return(p, "true")
  /\ UNCHANGED <<ring, control, inHand, threadsInUse, handled, late, queueMutex,
                 addThreadAnswer, overrun>>

-----------------------------------------------------------------------------
(* process()                                                               *)

WorkerTop(w) ==
  /\ worker[w] = "top"
  /\ worker' = [worker EXCEPT ![w] = IF stopProcessingThread THEN "exited" ELSE "lock"]
  /\ UNCHANGED <<ring, control, callers, inHand, threadsInUse, handled, late, queueMutex,
                 addThreadAnswer, overrun>>

CountIn == threadsInUse' = threadsInUse + 1
CountOut == threadsInUse' = threadsInUse - 1

(* The lock is acquired and the wait predicate evaluated.                  *)
WorkerLock(w) ==
  /\ worker[w] = "lock" /\ queueMutex = NoThread
  /\ IF stopProcessingThread
       THEN /\ worker' = [worker EXCEPT ![w] = "exited"]
            /\ UNCHANGED <<queueMutex, threadsInUse>>
       ELSE IF bufferCount > 0
              THEN /\ worker' = [worker EXCEPT ![w] = "take"]
                   /\ queueMutex' = w
                   /\ CountIn
              ELSE /\ worker' = [worker EXCEPT ![w] = "block"]
                   /\ queueMutex' = w
                   /\ UNCHANGED threadsInUse
  /\ UNCHANGED <<ring, control, callers, inHand, handled, late, addThreadAnswer, overrun>>

WorkerBlock(w) ==
  /\ worker[w] = "block"
  /\ worker' = [worker EXCEPT ![w] = "wait"]
  /\ queueMutex' = NoThread
  /\ UNCHANGED <<ring, control, callers, inHand, threadsInUse, handled, late,
                 addThreadAnswer, overrun>>

WorkerTimeout(w) ==
  /\ TimeoutsFire
  /\ worker[w] = "wait"
  /\ worker' = [worker EXCEPT ![w] = "lock"]
  /\ UNCHANGED <<ring, control, callers, inHand, threadsInUse, handled, late, queueMutex,
                 addThreadAnswer, overrun>>

(* The entry at the head is moved to the thread and its slot emptied.      *)
CopyHead(w) ==                     \* mutant: the slot keeps its pointer
  /\ inHand' = [inHand EXCEPT ![w] = buffer[bufferHead]]
  /\ UNCHANGED buffer
MoveHead(w) ==
  /\ inHand' = [inHand EXCEPT ![w] = buffer[bufferHead]]
  /\ buffer' = [buffer EXCEPT ![bufferHead] = NoEntry]

WorkerTake(w) ==
  /\ worker[w] = "take"
  /\ MoveHead(w)
  /\ overrun' = (overrun \/ ~sized)
  /\ bufferHead' = NextSlot(bufferHead)
  /\ bufferCount' = bufferCount - 1
  /\ late' = [late EXCEPT ![w] = IF stopProcessingThread THEN @ + 1 ELSE @]
  /\ queueMutex' = NoThread
  /\ worker' = [worker EXCEPT ![w] = "notify"]
  /\ UNCHANGED <<bufferTail, control, callers, threadsInUse, handled, addThreadAnswer>>

(* produceConditionVariable.notify_one() after a take.                     *)
NotifyProducerWhenFull ==          \* mutant: notifies if the buffer was full
  producer' \in IF bufferCount = BufferSize - 1 THEN NotifyOne(producer) ELSE {producer}
NotifyNoProducer == UNCHANGED producer  \* mutant: forgets to notify
NotifyProducer == producer' \in NotifyOne(producer)

WorkerNotify(w) ==
  /\ worker[w] = "notify"
  /\ NotifyProducer
  /\ worker' = [worker EXCEPT ![w] = "process"]
  /\ UNCHANGED <<ring, control, argument, answer, accepted, inHand, threadsInUse, handled,
                 late, queueMutex, addThreadAnswer, overrun>>

(* processQueueEntry() returns or throws a std::exception, which is caught *)
(* inside the loop; an empty pointer is skipped.                           *)
WorkerProcess(w) ==
  /\ worker[w] = "process"
  /\ handled' = IF inHand[w] = NoEntry THEN handled ELSE Append(handled, inHand[w])
  /\ inHand' = [inHand EXCEPT ![w] = NoEntry]
  /\ worker' = [worker EXCEPT ![w] = "relock"]
  /\ UNCHANGED <<ring, control, callers, threadsInUse, late, queueMutex, addThreadAnswer,
                 overrun>>

(* It throws something else: the outer catch (...) skips --threadsInUse.   *)
WorkerThrow(w) ==
  /\ OtherExceptions
  /\ worker[w] = "process" /\ inHand[w] # NoEntry
  /\ handled' = Append(handled, inHand[w])
  /\ inHand' = [inHand EXCEPT ![w] = NoEntry]
  /\ worker' = [worker EXCEPT ![w] = "top"]
  /\ UNCHANGED <<ring, control, callers, threadsInUse, late, queueMutex, addThreadAnswer,
                 overrun>>

LoopWhileFilled == bufferCount > 0     \* mutant: the stop flag is not looked at
LoopAgain == bufferCount > 0 /\ ~stopProcessingThread

(* The lock is acquired again and the condition of do ... while evaluated. *)
WorkerRelock(w) ==
  /\ worker[w] = "relock" /\ queueMutex = NoThread
  /\ IF LoopAgain
       THEN /\ worker' = [worker EXCEPT ![w] = "take"]
            /\ queueMutex' = w
            /\ UNCHANGED threadsInUse
       ELSE /\ worker' = [worker EXCEPT ![w] = "top"]
            /\ CountOut
            /\ UNCHANGED queueMutex
  /\ UNCHANGED <<ring, control, callers, inHand, handled, late, addThreadAnswer, overrun>>

-----------------------------------------------------------------------------
(* startQueue(), stopQueue() and addThread()                               *)

Running == {w \in Workers : worker[w] \notin {"none", "refused"}}
Tried == {w \in Workers : worker[w] # "none"}

ResetRing == bufferHead' = 0 /\ bufferTail' = 0 /\ bufferCount' = 0

(* No call of enqueue() is in progress when startQueue() is called.        *)
StartBegin(mode) ==
  /\ owner = "stopped" /\ starts < MaxStarts
  /\ \A p \in Producers : producer[p] = "idle"
  /\ stopProcessingThread' = FALSE
  /\ ResetRing
  /\ waitWhenFull' = mode
  /\ owner' = "starting" /\ starts' = starts + 1
  /\ late' = [w \in Workers |-> 0]
  /\ UNCHANGED <<buffer, sized, callers, worker, inHand, threadsInUse, handled, queueMutex,
                 addThreadAnswer, overrun>>

StartThread(w) ==
  /\ owner = "starting" /\ worker[w] = "none"
  /\ Cardinality(Tried) < InitialThreads
  /\ \E outcome \in {"top"} \cup (IF ThreadsMayFail THEN {"refused"} ELSE {}) :
       worker' = [worker EXCEPT ![w] = outcome]
  /\ UNCHANGED <<ring, control, callers, inHand, threadsInUse, handled, late, queueMutex,
                 addThreadAnswer, overrun>>

Resize == sized' = TRUE

StartReturn ==
  /\ owner = "starting" /\ Cardinality(Tried) = InitialThreads
  /\ Resize
  /\ owner' = "started"
  /\ UNCHANGED <<ring, stopProcessingThread, waitWhenFull, starts, callers, threads,
                 queueMutex, addThreadAnswer, overrun>>

StopBegin ==
  /\ owner = "started"
  /\ \A p \in Producers : producer[p] = "idle" \/ Waits(p) \in Overlap
  /\ stopProcessingThread' = TRUE
  /\ owner' = "fence"
  /\ UNCHANGED <<ring, sized, waitWhenFull, starts, callers, threads, queueMutex,
                 addThreadAnswer, overrun>>

(* The mutex is acquired and released at once.                             *)
FenceFree == TRUE                      \* mutant: the mutex is not acquired
FencePassable == queueMutex = NoThread

StopFence ==
  /\ owner = "fence" /\ FencePassable
  /\ owner' = "notify"
  /\ UNCHANGED <<ring, stopProcessingThread, sized, waitWhenFull, starts, callers, threads,
                 queueMutex, addThreadAnswer, overrun>>

(* notify_all() on both condition variables.                               *)
StopNotify ==
  /\ owner = "notify"
  /\ worker' = NotifyAll(worker)
  /\ producer' = NotifyAll(producer)
  /\ owner' = "join"
  /\ UNCHANGED <<ring, stopProcessingThread, sized, waitWhenFull, starts, argument, answer,
                 accepted, inHand, threadsInUse, handled, late, queueMutex,
                 addThreadAnswer, overrun>>

JoinedNone == TRUE                     \* mutant: does not wait for the threads
Joined == \A w \in Running : worker[w] = "exited"

(* All threads are joined, then the thread table and the buffer cleared;   *)
(* bufferCount keeps its value.                                            *)
StopReturn ==
  /\ owner = "join"
  /\ Joined
  /\ worker' = [w \in Workers |-> "none"]
  /\ buffer' = Cleared /\ sized' = FALSE
  /\ owner' = "stopped"
  /\ UNCHANGED <<bufferHead, bufferTail, bufferCount, stopProcessingThread, waitWhenFull,
                 starts, callers, inHand, threadsInUse, handled, late, queueMutex,
                 addThreadAnswer, overrun>>

(* addThread() compares the size of the table of all queues, resized once  *)
(* in the constructor, with its capacity, which resize() made as large.    *)
ThreadTableSize == QueueCount
ThreadTableCapacity == QueueCount

AddThread ==
  /\ owner = "started"
  /\ IF ThreadTableSize = ThreadTableCapacity
       THEN addThreadAnswer' = "false" /\ UNCHANGED worker
       ELSE \E w \in Workers : /\ worker[w] = "none"
                               /\ worker' = [worker EXCEPT ![w] = "top"]
                               /\ addThreadAnswer' = "true"
  /\ UNCHANGED <<ring, control, callers, inHand, threadsInUse, handled, late, queueMutex,
                 overrun>>

-----------------------------------------------------------------------------
EnqueueStep(p) == \/ EnqueueLock(p) \/ EnqueueBlock(p) \/ EnqueueStore(p) \/ EnqueueNotify(p)

WorkerStep(w) == \/ WorkerTop(w) \/ WorkerLock(w) \/ WorkerBlock(w) \/ WorkerTake(w)
                 \/ WorkerNotify(w) \/ WorkerProcess(w) \/ WorkerThrow(w) \/ WorkerRelock(w)

StopStep == StopFence \/ StopNotify \/ StopReturn

StartStep == StartReturn \/ \E w \in Workers : StartThread(w)

Next == \/ \E p \in Producers :
             \/ \E e \in Entries, wait \in EnqueueModes : EnqueueBegin(p, e, wait)
             \/ EnqueueStep(p)
             \/ EnqueueTimeout(p)
        \/ \E e \in Entries : EnqueueToStopped(e)
        \/ \E w \in Workers : WorkerStep(w) \/ WorkerTimeout(w)
        \/ \E mode \in StartModes : StartBegin(mode)
        \/ StartStep
        \/ StopBegin
        \/ StopStep
        \/ AddThread

Spec == Init /\ [][Next]_vars

(* Every thread that can take a step eventually does (the mutex is free    *)
(* again and again, and there are finitely many entries to compete for     *)
(* it); no fairness for the clients' calls, nor for timeouts.              *)
Fairness == /\ \A p \in Producers : WF_vars(EnqueueStep(p))
            /\ \A w \in Workers : WF_vars(WorkerStep(w))
            /\ WF_vars(StartStep)
            /\ WF_vars(StopStep)

FairSpec == Spec /\ Fairness

-----------------------------------------------------------------------------
(* Properties                                                              *)

Window == {(bufferHead + k) % BufferSize : k \in 0 .. bufferCount - 1}

(* While the buffer exists, the slots from head up to tail hold entries    *)
(* and all others are empty: no step, wrap-around or restart leaves a hole *)
(* processing would skip or a stale entry it would process again.          *)
RingShape ==
  sized => /\ bufferTail = (bufferHead + bufferCount) % BufferSize
           /\ \A i \in Slots : buffer[i] # NoEntry <=> i \in Window

(* No slot of a cleared vector is accessed.  A waiting enqueue() is safe   *)
(* beside stopQueue() because it looks at the stop flag again under the    *)
(* mutex that stopQueue() passes through before it clears the buffer; one  *)
(* that does not wait is safe only if no call overlaps with stopQueue().   *)
NoOverrun == ~overrun

(* Head, tail, count and slots belong together, and to a buffer that is    *)
(* there: what enqueue(), process(), startQueue() and stopQueue() assume.  *)
RingSafe == RingShape /\ NoOverrun

Awake == {"top", "lock", "take", "notify", "process", "relock"}

(* The wakeup of a processing thread is never lost: while entries are      *)
(* buffered and the queue runs, a sleeping thread has a colleague that     *)
(* will look at the buffer again, or a producer about to notify it, so     *)
(* process() does not depend on the one second timeout of its wait.        *)
WorkerWakeup ==
  bufferCount > 0 /\ ~stopProcessingThread /\ (\E w \in Workers : worker[w] = "wait") =>
    \/ \E w \in Workers : worker[w] \in Awake
    \/ \E p \in Producers : producer[p] = "notify"

(* Nor is that of a waiting enqueue(): while one sleeps, every free slot   *)
(* is spoken for by a producer that is awake or a thread about to notify.  *)
ProducerWakeup ==
  ~stopProcessingThread /\ (\E p \in Producers : producer[p] = "wait") =>
    BufferSize - bufferCount <=
      Cardinality({p \in Producers : producer[p] \in {"lock", "store"}})
      + Cardinality({w \in Workers : worker[w] = "notify"})

(* Once stopQueue() has notified and joins the threads, no thread and no   *)
(* producer sleeps or is about to: the stop is not missed between the      *)
(* evaluation of a wait predicate and the wait.                            *)
StopWakesAll ==
  owner \in {"join", "stopped"} =>
    /\ \A w \in Workers : worker[w] \notin {"block", "wait"}
    /\ \A p \in Producers : producer[p] \notin {"block", "wait"}

(* A thread takes at most one more entry after stopQueue() has set the     *)
(* flag, so stopping does not drain a long queue.                          *)
AtMostOneLate == \A w \in Workers : late[w] <= 1

(* So stopQueue() only waits for the entries that are being processed, and *)
(* one more for each thread that was about to take it.                     *)
StopIsPrompt == StopWakesAll /\ AtMostOneLate

Fifo == INSTANCE FifoQueue WITH
  Capacity <- BufferSize,
  queue <- IF sized THEN [k \in 1 .. bufferCount |-> buffer[(bufferHead + k - 1) % BufferSize]]
           ELSE <<>>,
  hand <- {inHand[w] : w \in Workers} \ {NoEntry},
  done <- ToSet(handled),
  open <- sized

(* The ring buffer and its threads behave as a bounded first-in first-out  *)
(* queue: in order, nothing lost, duplicated or processed twice, and the   *)
(* buffer dropped only by a stop that waited for what was being processed. *)
ImplementsFifo == Fifo!Spec

(* And they make progress without any timeout: what is buffered is taken   *)
(* or dropped by a stop, and what is taken is processed.                   *)
FifoProgress == Fifo!Fairness

(* Calls end: stopQueue(), because all threads notice it and are joined,   *)
(* and enqueue(), even one that waits for room.                            *)
CallsReturn ==
  /\ owner = "fence" ~> owner = "stopped"
  /\ \A p \in Producers : producer[p] # "idle" ~> producer[p] = "idle"

(* Neither an entry nor a call is left waiting for ever.                   *)
NothingWaits == FifoProgress /\ CallsReturn

=============================================================================
