----------------------------- MODULE IQueueProofs -----------------------------
(***************************************************************************)
(* Proofs about IQueue for any number of producers, threads, entries,      *)
(* slots and restarts.  IInv is inductive: who holds the mutex, what that  *)
(* thread knows of bufferCount, which phase of startQueue() or stopQueue() *)
(* goes with which stop flag, and that no wakeup is lost.                  *)
(*                                                                         *)
(* The first part proves what holds for all clients, the second that the   *)
(* ring keeps its shape, the third that IQueue implements FifoQueue.  The  *)
(* last two need clients that either wait for room or do not call          *)
(* enqueue() while stopQueue() runs: without that both are false.          *)
(***************************************************************************)
EXTENDS IQueue, FiniteSetTheorems, SequenceTheorems, TLAPS

(* The mutex is held by the one thread in a critical section.              *)
MutexInv ==
  /\ \A p \in Producers : producer[p] \in {"block", "store"} <=> queueMutex = p
  /\ \A w \in Workers : worker[w] \in {"block", "take"} <=> queueMutex = w

(* What was evaluated under the mutex still holds while it is held.        *)
CountInv ==
  /\ \A p \in Producers : producer[p] = "store" => bufferCount < BufferSize
  /\ \A w \in Workers : /\ worker[w] = "take" => bufferCount > 0
                        /\ worker[w] = "block" => bufferCount = 0

(* The stop flag, the buffer vector and the threads follow the owner.      *)
OwnerInv ==
  /\ stopProcessingThread <=> owner \in {"stopped", "fence", "notify", "join"}
  /\ sized <=> owner \notin {"stopped", "starting"}
  /\ owner = "stopped" => \A w \in Workers : worker[w] = "none"
  /\ owner = "starting" => /\ bufferCount = 0
                           /\ \A p \in Producers : producer[p] = "idle"
  /\ \A w \in Workers : worker[w] = "exited" => stopProcessingThread

CallInv ==
  /\ \A p \in Producers : producer[p] # "idle" => argument[p].entry \in Entries

(* A stop leaves nobody asleep.                                            *)
StopInv ==
  /\ owner \in {"notify", "join", "stopped"} =>
       /\ \A w \in Workers : worker[w] # "block"
       /\ \A p \in Producers : producer[p] # "block"
  /\ owner \in {"join", "stopped"} =>
       /\ \A w \in Workers : worker[w] # "wait"
       /\ \A p \in Producers : producer[p] # "wait"

Sync == MutexInv /\ CountInv /\ OwnerInv /\ CallInv /\ StopInv /\ WorkerWakeup

IInv == TypeOK /\ Sync

-----------------------------------------------------------------------------
LEMMA NextSlotType == ASSUME NEW i \in Slots PROVE NextSlot(i) \in Slots
  BY BufferSizeAssumption DEF NextSlot, Slots

LEMMA NoCallType == NoCall \in [entry : Entries \cup {NoEntry}, wait : BOOLEAN]
  BY DEF NoCall

(* A notified thread goes on to acquire the lock; all others stay.         *)
LEMMA NotifyOneType ==
  ASSUME NEW S, NEW T, "lock" \in T, NEW pc \in [S -> T], NEW next \in NotifyOne(pc)
  PROVE  next \in [S -> T]
  BY DEF NotifyOne

(* A thread that goes on to a known state is still a thread.               *)
LEMMA MovedType ==
  ASSUME NEW S, NEW T, NEW pc \in [S -> T], NEW t, NEW state \in T
  PROVE  [pc EXCEPT ![t] = state] \in [S -> T]
  OBVIOUS

LEMMA InitInv == Init => IInv
<1> SUFFICES ASSUME Init PROVE IInv
  OBVIOUS
<1>1. TypeOK
  <2>1. RingType
    BY BufferSizeAssumption DEF Init, RingType, Slots, Cleared
  <2>2. ControlType
    BY DEF Init, ControlType, OwnerStates
  <2>3. CallType
    BY DEF Init, CallType, ProducerStates, NoCall
  <2>4. ThreadType
    BY DEF Init, ThreadType, WorkerStates
  <2> QED
    BY <2>1, <2>2, <2>3, <2>4 DEF TypeOK
<1>2. MutexInv
  BY ThreadAssumption DEF Init, MutexInv
<1>3. CountInv
  BY DEF Init, CountInv
<1>4. OwnerInv
  BY DEF Init, OwnerInv
<1>5. CallInv
  BY DEF Init, CallInv
<1>6. StopInv
  BY DEF Init, StopInv
<1>7. WorkerWakeup
  <2>1. bufferCount = 0
    BY Zenon DEF Init
  <2> QED
    BY <2>1 DEF WorkerWakeup
<1> QED
  BY <1>1, <1>2, <1>3, <1>4, <1>5, <1>6, <1>7 DEF IInv, Sync

-----------------------------------------------------------------------------
(* Each action preserves IInv.                                             *)
LEMMA StepInv == IInv /\ [Next]_vars => IInv'
<1> SUFFICES ASSUME IInv, [Next]_vars PROVE IInv'
  OBVIOUS
<1> USE BufferSizeAssumption, ThreadAssumption, ModeAssumption
<1> USE DEF IInv, Sync, TypeOK, RingType, ControlType, CallType, ThreadType,
            MutexInv, CountInv, OwnerInv, CallInv, StopInv, WorkerWakeup, Awake,
            ProducerStates, WorkerStates, OwnerStates, ring, control, callers, threads
<1>1. ASSUME NEW e \in Entries, EnqueueToStopped(e)
      PROVE  IInv'
  <2>1. TypeOK'
    BY <1>1 DEF EnqueueToStopped
  <2>2. Sync'
    BY <1>1 DEF EnqueueToStopped
  <2> QED
    BY <2>1, <2>2
<1>2. ASSUME NEW p \in Producers, NEW e \in Entries, NEW wait \in EnqueueModes, EnqueueBegin(p, e, wait)
      PROVE  IInv'
  <2>1. TypeOK'
    BY <1>2 DEF EnqueueBegin, MayEnqueue
  <2>2. Sync'
    BY <1>2 DEF EnqueueBegin, MayEnqueue
  <2> QED
    BY <2>1, <2>2
<1>3. ASSUME NEW p \in Producers, EnqueueLock(p)
      PROVE  IInv'
  <2> USE <1>3
  <2>1. ThreadType' /\ RingType' /\ ControlType'
    <3>1. RingType'
      BY DEF EnqueueLock
    <3>2. ControlType'
      BY DEF EnqueueLock
    <3>3. ThreadType'
      BY DEF EnqueueLock
    <3> QED
      BY <3>1, <3>2, <3>3
  <2>2. CallType'
    <3>1. producer' \in [Producers -> ProducerStates]
      <4>1. PICK state \in {"idle", "store", "block"} : producer' = [producer EXCEPT ![p] = state]
        BY DEF EnqueueLock, Return
      <4> QED
        BY <4>1, MovedType
    <3>2. argument' \in [Producers -> [entry : Entries \cup {NoEntry}, wait : BOOLEAN]]
      <4>1. CASE UNCHANGED argument
        BY <4>1
      <4>2. CASE argument' = [argument EXCEPT ![p] = NoCall]
        BY <4>2, NoCallType
      <4> QED
        BY <4>1, <4>2 DEF EnqueueLock, Return
    <3>3. accepted' \in Seq(Entries)
      BY DEF EnqueueLock, Return
    <3>4. answer' \in [Entries -> {"none", "true", "false"}]
      <4>1. PICK result \in {"none", "true", "false"} :
              answer' = [answer EXCEPT ![argument[p].entry] = result] \/ answer' = answer
        BY DEF EnqueueLock, Return
      <4> QED
        BY <4>1, MovedType
    <3> QED
      BY <3>1, <3>2, <3>3, <3>4 DEF CallType
  <2>3. Sync'
    <3>1. MutexInv'
      BY DEF EnqueueLock, Return
    <3>2. CountInv' /\ OwnerInv' /\ StopInv'
      BY DEF EnqueueLock, Return
    <3>3. WorkerWakeup'
      BY DEF EnqueueLock, Return
    <3>4. CallInv'
      <4> SUFFICES ASSUME NEW q \in Producers, producer'[q] # "idle"
                   PROVE  argument'[q].entry \in Entries
        OBVIOUS
      <4>1. CASE UNCHANGED argument
        <5>1. producer[q] # "idle"
          BY DEF EnqueueLock, Return
        <5> QED
          BY <4>1, <5>1
      <4>2. CASE /\ argument' = [argument EXCEPT ![p] = NoCall]
                 /\ producer' = [producer EXCEPT ![p] = "idle"]
        <5>1. q # p /\ argument'[q] = argument[q] /\ producer[q] # "idle"
          BY <4>2
        <5> QED
          BY <5>1
      <4> QED
        BY <4>1, <4>2 DEF EnqueueLock, Return
    <3> QED
      BY <3>1, <3>2, <3>3, <3>4
  <2> QED
    BY <2>1, <2>2, <2>3
<1>4. ASSUME NEW p \in Producers, EnqueueBlock(p)
      PROVE  IInv'
  <2>1. TypeOK'
    BY <1>4 DEF EnqueueBlock
  <2>2. Sync'
    BY <1>4 DEF EnqueueBlock
  <2> QED
    BY <2>1, <2>2
<1>5. ASSUME NEW p \in Producers, EnqueueTimeout(p)
      PROVE  IInv'
  <2>1. TypeOK'
    BY <1>5 DEF EnqueueTimeout
  <2>2. Sync'
    BY <1>5 DEF EnqueueTimeout
  <2> QED
    BY <2>1, <2>2
<1>6. ASSUME NEW p \in Producers, EnqueueStore(p)
      PROVE  IInv'
  <2> USE <1>6
  <2> argument[p].entry \in Entries /\ bufferCount < BufferSize
    BY DEF EnqueueStore
  <2>1. RingType'
    <3>1. bufferTail' \in Slots /\ bufferHead' \in Slots /\ buffer' \in [Slots -> Entries \cup {NoEntry}]
      BY NextSlotType DEF EnqueueStore
    <3>2. bufferCount' \in 0 .. BufferSize
      BY DEF EnqueueStore
    <3> QED
      BY <3>1, <3>2
  <2>2. CallType'
    <3>1. accepted' \in Seq(Entries)
      <4>1. CASE accepted' = Append(accepted, argument[p].entry)
        BY <4>1
      <4>2. CASE UNCHANGED accepted
        BY <4>2
      <4> QED
        BY <4>1, <4>2 DEF EnqueueStore
    <3> QED
      BY <3>1 DEF EnqueueStore
  <2>3. ControlType' /\ ThreadType'
    BY DEF EnqueueStore
  <2>4. Sync'
    BY DEF EnqueueStore
  <2> QED
    BY <2>1, <2>2, <2>3, <2>4
<1>7. ASSUME NEW p \in Producers, EnqueueNotify(p)
      PROVE  IInv'
  <2> USE <1>7
  <2>1. RingType' /\ ControlType'
    BY DEF EnqueueNotify
  <2>2. CallType'
    BY NoCallType DEF EnqueueNotify, Return
  <2>3. ThreadType'
    <3>1. worker' \in [Workers -> WorkerStates]
      BY NotifyOneType DEF EnqueueNotify, NotifyWorker
    <3> QED
      BY <3>1 DEF EnqueueNotify
  <2>4. Sync'
    BY DEF EnqueueNotify, Return, NotifyWorker, NotifyOne
  <2> QED
    BY <2>1, <2>2, <2>3, <2>4
<1>8. ASSUME NEW w \in Workers, WorkerTop(w)
      PROVE  IInv'
  <2>1. TypeOK'
    BY <1>8 DEF WorkerTop
  <2>2. Sync'
    BY <1>8 DEF WorkerTop
  <2> QED
    BY <2>1, <2>2
<1>9. ASSUME NEW w \in Workers, WorkerLock(w)
      PROVE  IInv'
  <2> USE <1>9
  <2>1. RingType' /\ ControlType' /\ CallType'
    BY DEF WorkerLock
  <2>2. ThreadType'
    <3>1. threadsInUse' \in Int
      BY DEF WorkerLock, CountIn
    <3>2. PICK state \in {"exited", "take", "block"} : worker' = [worker EXCEPT ![w] = state]
      BY DEF WorkerLock
    <3>3. worker' \in [Workers -> WorkerStates]
      BY <3>2, MovedType
    <3> QED
      BY <3>1, <3>3 DEF WorkerLock
  <2>3. Sync'
    <3>1. MutexInv'
      BY DEF WorkerLock
    <3>2. CountInv'
      BY DEF WorkerLock
    <3>3. OwnerInv'
      BY DEF WorkerLock
    <3>4. CallInv'
      BY DEF WorkerLock
    <3>5. StopInv'
      BY DEF WorkerLock
    <3>6. WorkerWakeup'
      BY DEF WorkerLock
    <3> QED
      BY <3>1, <3>2, <3>3, <3>4, <3>5, <3>6
  <2> QED
    BY <2>1, <2>2, <2>3
<1>10. ASSUME NEW w \in Workers, WorkerBlock(w)
      PROVE  IInv'
  <2>1. TypeOK'
    BY <1>10 DEF WorkerBlock
  <2>2. Sync'
    BY <1>10 DEF WorkerBlock
  <2> QED
    BY <2>1, <2>2
<1>11. ASSUME NEW w \in Workers, WorkerTimeout(w)
      PROVE  IInv'
  <2>1. TypeOK'
    BY <1>11 DEF WorkerTimeout
  <2>2. Sync'
    BY <1>11 DEF WorkerTimeout
  <2> QED
    BY <2>1, <2>2
<1>12. ASSUME NEW w \in Workers, WorkerTake(w)
      PROVE  IInv'
  <2>1. TypeOK'
    BY <1>12 DEF WorkerTake, MoveHead, NextSlot, Slots
  <2>2. Sync'
    BY <1>12 DEF WorkerTake, MoveHead, NextSlot, Slots
  <2> QED
    BY <2>1, <2>2
<1>13. ASSUME NEW w \in Workers, WorkerNotify(w)
      PROVE  IInv'
  <2> USE <1>13
  <2>1. RingType' /\ ControlType' /\ ThreadType'
    BY DEF WorkerNotify
  <2>2. CallType'
    <3>1. producer' \in [Producers -> ProducerStates]
      BY NotifyOneType DEF WorkerNotify, NotifyProducer
    <3> QED
      BY <3>1 DEF WorkerNotify
  <2>3. Sync'
    BY DEF WorkerNotify, NotifyProducer, NotifyOne
  <2> QED
    BY <2>1, <2>2, <2>3
<1>14. ASSUME NEW w \in Workers, WorkerProcess(w)
      PROVE  IInv'
  <2>1. TypeOK'
    BY <1>14 DEF WorkerProcess
  <2>2. Sync'
    BY <1>14 DEF WorkerProcess
  <2> QED
    BY <2>1, <2>2
<1>15. ASSUME NEW w \in Workers, WorkerThrow(w)
      PROVE  IInv'
  <2>1. TypeOK'
    BY <1>15 DEF WorkerThrow
  <2>2. Sync'
    BY <1>15 DEF WorkerThrow
  <2> QED
    BY <2>1, <2>2
<1>16. ASSUME NEW w \in Workers, WorkerRelock(w)
      PROVE  IInv'
  <2> USE <1>16
  <2>1. RingType' /\ ControlType' /\ CallType'
    BY DEF WorkerRelock
  <2>2. ThreadType'
    <3>1. threadsInUse' \in Int
      BY DEF WorkerRelock, CountOut
    <3>2. PICK state \in {"take", "top"} : worker' = [worker EXCEPT ![w] = state]
      BY DEF WorkerRelock
    <3>3. worker' \in [Workers -> WorkerStates]
      BY <3>2, MovedType
    <3> QED
      BY <3>1, <3>3 DEF WorkerRelock
  <2>3. Sync'
    <3>1. MutexInv'
      BY DEF WorkerRelock, LoopAgain
    <3>2. CountInv'
      BY DEF WorkerRelock, LoopAgain
    <3>3. OwnerInv'
      BY DEF WorkerRelock, LoopAgain
    <3>4. CallInv'
      BY DEF WorkerRelock, LoopAgain
    <3>5. StopInv'
      BY DEF WorkerRelock, LoopAgain
    <3>6. WorkerWakeup'
      BY DEF WorkerRelock, LoopAgain
    <3> QED
      BY <3>1, <3>2, <3>3, <3>4, <3>5, <3>6
  <2> QED
    BY <2>1, <2>2, <2>3
<1>17. ASSUME NEW mode \in StartModes, StartBegin(mode)
      PROVE  IInv'
  <2> USE <1>17
  <2>1. RingType' /\ CallType' /\ ThreadType'
    BY DEF StartBegin, ResetRing, Slots
  <2>2. ControlType'
    <3>1. waitWhenFull' \in BOOLEAN /\ stopProcessingThread' \in BOOLEAN
      BY DEF StartBegin
    <3>2. starts' \in Nat
      BY DEF StartBegin
    <3> QED
      BY <3>1, <3>2 DEF StartBegin
  <2>3. Sync'
    BY DEF StartBegin, ResetRing
  <2> QED
    BY <2>1, <2>2, <2>3
<1>18. ASSUME NEW w \in Workers, StartThread(w)
      PROVE  IInv'
  <2>1. TypeOK'
    BY <1>18 DEF StartThread
  <2>2. Sync'
    BY <1>18 DEF StartThread
  <2> QED
    BY <2>1, <2>2
<1>19. ASSUME StartReturn
      PROVE  IInv'
  <2>1. TypeOK'
    BY <1>19 DEF StartReturn, Resize
  <2>2. Sync'
    BY <1>19 DEF StartReturn, Resize
  <2> QED
    BY <2>1, <2>2
<1>20. ASSUME StopBegin
      PROVE  IInv'
  <2>1. TypeOK'
    BY <1>20 DEF StopBegin
  <2>2. Sync'
    BY <1>20 DEF StopBegin
  <2> QED
    BY <2>1, <2>2
<1>21. ASSUME StopFence
      PROVE  IInv'
  <2>1. TypeOK'
    BY <1>21 DEF StopFence, FencePassable
  <2>2. Sync'
    BY <1>21 DEF StopFence, FencePassable
  <2> QED
    BY <2>1, <2>2
<1>22. ASSUME StopNotify
      PROVE  IInv'
  <2>1. TypeOK'
    BY <1>22 DEF StopNotify, NotifyAll
  <2>2. Sync'
    BY <1>22 DEF StopNotify, NotifyAll
  <2> QED
    BY <2>1, <2>2
<1>23. ASSUME StopReturn
      PROVE  IInv'
  <2>1. TypeOK'
    BY <1>23 DEF StopReturn, Joined, Running, Cleared
  <2>2. Sync'
    BY <1>23 DEF StopReturn, Joined, Running, Cleared
  <2> QED
    BY <2>1, <2>2
<1>24. ASSUME AddThread
      PROVE  IInv'
  <2>1. TypeOK'
    BY <1>24 DEF AddThread, ThreadTableSize, ThreadTableCapacity
  <2>2. Sync'
    BY <1>24 DEF AddThread, ThreadTableSize, ThreadTableCapacity
  <2> QED
    BY <2>1, <2>2
<1>25. CASE UNCHANGED vars
  BY <1>25 DEF vars
<1> QED
  BY <1>1, <1>2, <1>3, <1>4, <1>5, <1>6, <1>7, <1>8, <1>9, <1>10, <1>11, <1>12, <1>13, <1>14, <1>15, <1>16, <1>17, <1>18, <1>19, <1>20, <1>21, <1>22, <1>23, <1>24, <1>25, Zenon
     DEF Next, EnqueueStep, WorkerStep, StopStep, StartStep

THEOREM InvCorrect == Spec => []IInv
  BY InitInv, StepInv, PTL DEF Spec

(* Every variable of enqueue(), process(), startQueue() and stopQueue()    *)
(* keeps its type: indices stay inside the ring, and bufferCount never     *)
(* exceeds _bufferSize nor drops below zero.                               *)
THEOREM TypeCorrect == Spec => []TypeOK
  BY InvCorrect, PTL DEF IInv

(* No wakeup of a processing thread is lost, however many there are.       *)
THEOREM WorkerWakeupCorrect == Spec => []WorkerWakeup
  BY InvCorrect, PTL DEF IInv, Sync

-----------------------------------------------------------------------------
(* A thread that took an entry after the stop flag was set does not look   *)
(* for another one: the flag stays set until the next startQueue().        *)
LateInv ==
  \A w \in Workers :
    /\ late[w] \in {0, 1}
    /\ ~stopProcessingThread => late[w] = 0
    /\ late[w] = 1 => worker[w] \notin {"lock", "block", "wait", "take"}

LEMMA StepLate == IInv /\ LateInv /\ [Next]_vars => LateInv'
<1> SUFFICES ASSUME IInv, LateInv, [Next]_vars PROVE LateInv'
  OBVIOUS
<1> USE DEF IInv, Sync, TypeOK, ControlType, ThreadType, OwnerInv, LateInv, WorkerStates,
            ring, control, callers, threads
<1>1. ASSUME NEW e \in Entries, EnqueueToStopped(e) PROVE LateInv'
  BY <1>1 DEF EnqueueToStopped
<1>2. ASSUME NEW p \in Producers, NEW e \in Entries, NEW wait \in EnqueueModes,
             EnqueueBegin(p, e, wait)
      PROVE  LateInv'
  BY <1>2 DEF EnqueueBegin
<1>3. ASSUME NEW p \in Producers, EnqueueLock(p) PROVE LateInv'
  BY <1>3 DEF EnqueueLock, Return
<1>4. ASSUME NEW p \in Producers, EnqueueBlock(p) \/ EnqueueTimeout(p) PROVE LateInv'
  BY <1>4 DEF EnqueueBlock, EnqueueTimeout
<1>5. ASSUME NEW p \in Producers, EnqueueStore(p) PROVE LateInv'
  BY <1>5 DEF EnqueueStore
<1>6. ASSUME NEW p \in Producers, EnqueueNotify(p) PROVE LateInv'
  BY <1>6 DEF EnqueueNotify, NotifyWorker, NotifyOne, Return
<1>7. ASSUME NEW w \in Workers, WorkerTop(w) \/ WorkerBlock(w) \/ WorkerTimeout(w) PROVE LateInv'
  BY <1>7 DEF WorkerTop, WorkerBlock, WorkerTimeout
<1>8. ASSUME NEW w \in Workers, WorkerLock(w) PROVE LateInv'
  BY <1>8 DEF WorkerLock
<1>9. ASSUME NEW w \in Workers, WorkerTake(w) PROVE LateInv'
  BY <1>9 DEF WorkerTake
<1>10. ASSUME NEW w \in Workers, WorkerNotify(w) \/ WorkerProcess(w) \/ WorkerThrow(w) PROVE LateInv'
  BY <1>10 DEF WorkerNotify, WorkerProcess, WorkerThrow
<1>11. ASSUME NEW w \in Workers, WorkerRelock(w) PROVE LateInv'
  BY <1>11 DEF WorkerRelock, LoopAgain
<1>12. ASSUME NEW mode \in StartModes, StartBegin(mode) PROVE LateInv'
  BY <1>12 DEF StartBegin
<1>13. ASSUME NEW w \in Workers, StartThread(w) PROVE LateInv'
  BY <1>13 DEF StartThread
<1>14. ASSUME StartReturn \/ StopBegin \/ StopFence PROVE LateInv'
  BY <1>14 DEF StartReturn, StopBegin, StopFence
<1>15. ASSUME StopNotify PROVE LateInv'
  BY <1>15 DEF StopNotify, NotifyAll
<1>16. ASSUME StopReturn PROVE LateInv'
  BY <1>16 DEF StopReturn
<1>17. ASSUME AddThread PROVE LateInv'
  BY <1>17 DEF AddThread
<1>18. CASE UNCHANGED vars
  BY <1>18 DEF vars
<1> QED
  BY <1>1, <1>2, <1>3, <1>4, <1>5, <1>6, <1>7, <1>8, <1>9, <1>10, <1>11, <1>12, <1>13, <1>14,
     <1>15, <1>16, <1>17, <1>18 DEF Next, EnqueueStep, WorkerStep, StopStep, StartStep

(* stopQueue() leaves no thread and no producer asleep, and no thread      *)
(* takes more than one entry after the stop flag is set.                   *)
THEOREM StopIsPromptCorrect == Spec => []StopIsPrompt
<1>1. Init => LateInv
  BY DEF Init, LateInv
<1>2. IInv /\ LateInv => StopIsPrompt
  BY DEF IInv, Sync, StopInv, LateInv, StopIsPrompt, StopWakesAll, AtMostOneLate
<1> QED
  BY InitInv, StepInv, StepLate, <1>1, <1>2, PTL DEF Spec

-----------------------------------------------------------------------------
(* Producers that will look at the buffer, and threads that will wake one. *)
Looking == {p \in Producers : producer[p] \in {"lock", "store"}}
Telling == {w \in Workers : worker[w] = "notify"}

FiniteThreads == IsFiniteSet(Producers) /\ IsFiniteSet(Workers)

(* A producer that is about to sleep has seen a full buffer.               *)
RoomInv ==
  /\ \A p \in Producers : producer[p] = "block" => bufferCount = BufferSize
  /\ ProducerWakeup

LEMMA AwakeFinite ==
  ASSUME FiniteThreads
  PROVE  /\ IsFiniteSet(Looking) /\ Cardinality(Looking) \in Nat
         /\ IsFiniteSet(Telling) /\ Cardinality(Telling) \in Nat
         /\ IsFiniteSet(Looking') /\ Cardinality(Looking') \in Nat
         /\ IsFiniteSet(Telling') /\ Cardinality(Telling') \in Nat
<1>1. Looking \in SUBSET Producers /\ Looking' \in SUBSET Producers
  BY DEF Looking
<1>2. Telling \in SUBSET Workers /\ Telling' \in SUBSET Workers
  BY DEF Telling
<1> QED
  BY <1>1, <1>2, FS_Subset, FS_CardinalityType DEF FiniteThreads

LEMMA StepRoom == ASSUME FiniteThreads PROVE IInv /\ RoomInv /\ [Next]_vars => RoomInv'
<1> SUFFICES ASSUME IInv, RoomInv, [Next]_vars PROVE RoomInv'
  OBVIOUS
<1> USE BufferSizeAssumption, ThreadAssumption
<1> DEFINE L == Cardinality(Looking)
           T == Cardinality(Telling)
           Sleeping == \E p \in Producers : producer[p] = "wait"
<1>0. /\ L \in Nat /\ T \in Nat /\ L' \in Nat /\ T' \in Nat
      /\ bufferCount \in 0 .. BufferSize
      /\ producer \in [Producers -> ProducerStates] /\ worker \in [Workers -> WorkerStates]
  BY AwakeFinite DEF IInv, TypeOK, RingType, CallType, ThreadType
<1>1. ~stopProcessingThread /\ Sleeping => BufferSize - bufferCount <= L + T
  BY DEF RoomInv, ProducerWakeup, Looking, Telling
<1>2. ASSUME \A p \in Producers : producer'[p] = "block" => bufferCount' = BufferSize,
             ~stopProcessingThread' /\ Sleeping' => BufferSize - bufferCount' <= L' + T'
      PROVE  RoomInv'
  BY <1>2 DEF RoomInv, ProducerWakeup, Looking, Telling
<1> HIDE DEF Sleeping
\* Nothing that matters changes, or there is no sleeper or no need.
<1>3. ASSUME UNCHANGED <<bufferCount, stopProcessingThread, producer>>, Telling' = Telling PROVE RoomInv'
  <2>1. L' = L /\ T' = T /\ (Sleeping' <=> Sleeping)
    BY <1>3 DEF L, T, Looking, Sleeping
  <2> QED
    BY <1>1, <1>2, <1>3, <2>1 DEF RoomInv
<1>4. ASSUME NEW p \in Producers, EnqueueLock(p) PROVE RoomInv'
  <2>1. UNCHANGED <<bufferCount, stopProcessingThread>> /\ Telling' = Telling /\ producer[p] = "lock"
    BY <1>4 DEF EnqueueLock, ring, control, threads, Telling
  <2>2. CASE producer' = [producer EXCEPT ![p] = "store"]
    <3>1. Looking' = Looking /\ (Sleeping' => Sleeping) /\ \A q \in Producers : producer'[q] = "block" => producer[q] = "block"
      BY <1>0, <2>1, <2>2 DEF Looking, Sleeping
    <3>2. L' = L /\ T' = T
      BY <2>1, <3>1 DEF L, T
    <3> QED
      BY <1>1, <1>2, <2>1, <3>1, <3>2 DEF RoomInv
  <2>3. CASE bufferCount = BufferSize
    <3>1. BufferSize - bufferCount' <= L' + T'
      <4>1. bufferCount' = BufferSize
        BY <2>1, <2>3
      <4> QED
        BY <1>0, <4>1
    <3> QED
      BY <1>2, <2>1, <2>3, <3>1
  <2>4. CASE stopProcessingThread /\ producer' = [producer EXCEPT ![p] = "idle"]
    BY <1>0, <1>2, <2>1, <2>4 DEF RoomInv
  <2> QED
    BY <1>0, <1>4, <2>2, <2>3, <2>4 DEF EnqueueLock, Return
<1>5. ASSUME NEW p \in Producers, EnqueueBlock(p) PROVE RoomInv'
  <2>1. bufferCount' = bufferCount /\ bufferCount = BufferSize
    BY <1>5 DEF EnqueueBlock, ring, RoomInv
  <2>2. BufferSize - bufferCount' <= L' + T'
    <3>1. bufferCount' = BufferSize
      BY <2>1
    <3> QED
      BY <1>0, <3>1
  <2> QED
    BY <1>2, <2>1, <2>2
<1>6. ASSUME NEW p \in Producers, EnqueueTimeout(p) PROVE RoomInv'
  <2>1. /\ UNCHANGED <<bufferCount, stopProcessingThread>> /\ Telling' = Telling
        /\ producer[p] = "wait" /\ producer' = [producer EXCEPT ![p] = "lock"]
    BY <1>6 DEF EnqueueTimeout, ring, control, threads, Telling
  <2>2. /\ Looking' = Looking \cup {p} /\ Sleeping
        /\ \A q \in Producers : producer'[q] = "block" => producer[q] = "block"
    BY <1>0, <2>1 DEF Looking, Sleeping
  <2>3. L' >= L /\ T' = T
    BY <1>0, <2>1, <2>2, AwakeFinite, FS_AddElement DEF L, T
  <2>4. BufferSize - bufferCount <= L + T => BufferSize - bufferCount' <= L' + T'
    <3>1. bufferCount' = bufferCount
      BY <2>1
    <3> QED
      BY <1>0, <2>3, <3>1
  <2> QED
    BY <1>1, <1>2, <2>1, <2>2, <2>4 DEF RoomInv
<1>7. ASSUME NEW p \in Producers, EnqueueStore(p) PROVE RoomInv'
  <2>1. /\ bufferCount' = bufferCount + 1 /\ stopProcessingThread' = stopProcessingThread
        /\ Telling' = Telling /\ producer[p] = "store" /\ producer' = [producer EXCEPT ![p] = "notify"]
        /\ queueMutex = p
    BY <1>7 DEF EnqueueStore, control, threads, Telling, IInv, Sync, MutexInv
  <2>2. /\ Looking' = Looking \ {p} /\ p \in Looking /\ (Sleeping' => Sleeping)
        /\ \A q \in Producers : producer'[q] # "block"
    BY <1>0, <2>1 DEF Looking, Sleeping, IInv, Sync, MutexInv
  <2>3. L' = L - 1 /\ T' = T
    BY <2>1, <2>2, AwakeFinite, FS_RemoveElement DEF L, T
  <2> QED
    BY <1>0, <1>1, <1>2, <2>1, <2>2, <2>3
<1>8. ASSUME NEW p \in Producers, EnqueueNotify(p) PROVE RoomInv'
  <2>1. /\ UNCHANGED <<bufferCount, stopProcessingThread>>
        /\ producer[p] = "notify" /\ producer' = [producer EXCEPT ![p] = "idle"]
        /\ worker' \in NotifyOne(worker)
    BY <1>8 DEF EnqueueNotify, Return, NotifyWorker, ring, control
  <2>2. Telling' = Telling
    BY <1>0, <2>1 DEF Telling, NotifyOne
  <2>3. /\ Looking' = Looking /\ (Sleeping' => Sleeping)
        /\ \A q \in Producers : producer'[q] = "block" => producer[q] = "block"
    BY <1>0, <2>1 DEF Looking, Sleeping
  <2>4. L' = L /\ T' = T
    BY <2>2, <2>3 DEF L, T
  <2> QED
    BY <1>1, <1>2, <2>1, <2>3, <2>4 DEF RoomInv
<1>9. ASSUME NEW w \in Workers, WorkerTake(w) PROVE RoomInv'
  <2>1. /\ bufferCount' = bufferCount - 1 /\ UNCHANGED <<producer, stopProcessingThread>>
        /\ worker[w] = "take" /\ worker' = [worker EXCEPT ![w] = "notify"] /\ queueMutex = w
    BY <1>9 DEF WorkerTake, control, callers, IInv, Sync, MutexInv
  <2>2. /\ Telling' = Telling \cup {w} /\ w \notin Telling /\ Looking' = Looking /\ (Sleeping' <=> Sleeping)
        /\ \A q \in Producers : producer'[q] # "block"
    BY <1>0, <2>1 DEF Looking, Telling, Sleeping, IInv, Sync, MutexInv
  <2>3. L' = L /\ T' = T + 1
    BY <2>2, AwakeFinite, FS_AddElement DEF L, T
  <2> QED
    BY <1>0, <1>1, <1>2, <2>1, <2>2, <2>3
<1>10. ASSUME NEW w \in Workers, WorkerNotify(w) PROVE RoomInv'
  <2>1. /\ UNCHANGED <<bufferCount, stopProcessingThread>>
        /\ worker[w] = "notify" /\ worker' = [worker EXCEPT ![w] = "process"]
        /\ producer' \in NotifyOne(producer)
    BY <1>10 DEF WorkerNotify, NotifyProducer, ring, control
  <2>2. Telling' = Telling \ {w} /\ w \in Telling
    BY <1>0, <2>1 DEF Telling
  <2>3. T' = T - 1
    BY <2>2, AwakeFinite, FS_RemoveElement DEF T
  <2>4. CASE ~Sleeping
    <3>1. producer' = producer /\ ~Sleeping'
      BY <1>0, <2>1, <2>4 DEF NotifyOne, Sleeping
    <3> QED
      BY <1>2, <2>1, <3>1 DEF RoomInv
  <2>5. CASE Sleeping
    <3>1. PICK p \in Producers : producer[p] = "wait" /\ producer' = [producer EXCEPT ![p] = "lock"]
      BY <1>0, <2>1, <2>5 DEF NotifyOne, Sleeping
    <3>2. /\ Looking' = Looking \cup {p} /\ p \notin Looking
          /\ \A q \in Producers : producer'[q] = "block" => producer[q] = "block"
      BY <1>0, <3>1 DEF Looking
    <3>3. L' = L + 1
      BY <3>2, AwakeFinite, FS_AddElement DEF L
    <3> QED
      BY <1>0, <1>1, <1>2, <2>1, <2>3, <2>5, <3>2, <3>3 DEF RoomInv
  <2> QED
    BY <2>4, <2>5
<1>11. ASSUME NEW p \in Producers, NEW e \in Entries, NEW wait \in EnqueueModes,
              EnqueueBegin(p, e, wait)
       PROVE  RoomInv'
  <2>1. /\ UNCHANGED <<bufferCount, stopProcessingThread>> /\ Telling' = Telling
        /\ producer[p] = "idle" /\ producer' = [producer EXCEPT ![p] = "lock"]
    BY <1>11 DEF EnqueueBegin, ring, control, threads, Telling
  <2>2. /\ Looking' = Looking \cup {p} /\ (Sleeping' => Sleeping)
        /\ \A q \in Producers : producer'[q] = "block" => producer[q] = "block"
    BY <1>0, <2>1 DEF Looking, Sleeping
  <2>3. L' >= L /\ T' = T
    BY <1>0, <2>1, <2>2, AwakeFinite, FS_AddElement DEF L, T
  <2>4. BufferSize - bufferCount <= L + T => BufferSize - bufferCount' <= L' + T'
    <3>1. bufferCount' = bufferCount
      BY <2>1
    <3> QED
      BY <1>0, <2>3, <3>1
  <2> QED
    BY <1>1, <1>2, <2>1, <2>2, <2>4 DEF RoomInv
<1>12. ASSUME NEW e \in Entries, EnqueueToStopped(e) PROVE RoomInv'
  BY <1>3, <1>12 DEF EnqueueToStopped, ring, control, threads, Telling
<1>13. ASSUME NEW w \in Workers,
              \/ WorkerTop(w) \/ WorkerLock(w) \/ WorkerBlock(w) \/ WorkerTimeout(w)
              \/ WorkerProcess(w) \/ WorkerThrow(w) \/ WorkerRelock(w) \/ StartThread(w)
       PROVE  RoomInv'
  <2>1. UNCHANGED <<bufferCount, stopProcessingThread, producer>>
    BY <1>13 DEF WorkerTop, WorkerLock, WorkerBlock, WorkerTimeout, WorkerProcess, WorkerThrow,
                 WorkerRelock, StartThread, ring, control, callers
  <2>2. PICK state \in WorkerStates \ {"notify"} :
          worker' = [worker EXCEPT ![w] = state] /\ worker[w] # "notify"
    BY <1>13 DEF WorkerTop, WorkerLock, WorkerBlock, WorkerTimeout, WorkerProcess, WorkerThrow,
                 WorkerRelock, StartThread, WorkerStates
  <2>3. Telling' = Telling
    BY <1>0, <2>2 DEF Telling
  <2> QED
    BY <1>3, <2>1, <2>3
<1>14. ASSUME NEW mode \in StartModes, StartBegin(mode) PROVE RoomInv'
  BY <1>0, <1>2, <1>14 DEF StartBegin, callers, Sleeping
<1>15. ASSUME StartReturn PROVE RoomInv'
  BY <1>3, <1>15 DEF StartReturn, ring, callers, threads, Telling
<1>16. ASSUME StopBegin \/ StopFence \/ StopReturn PROVE RoomInv'
  <2>1. bufferCount' = bufferCount /\ producer' = producer /\ stopProcessingThread'
    BY <1>16 DEF StopBegin, StopFence, StopReturn, ring, callers, IInv, Sync, OwnerInv
  <2> QED
    BY <1>2, <2>1 DEF RoomInv
<1>17. ASSUME StopNotify PROVE RoomInv'
  <2>1. bufferCount' = bufferCount /\ stopProcessingThread' /\ producer' = NotifyAll(producer)
    BY <1>17 DEF StopNotify, ring, IInv, Sync, OwnerInv
  <2>2. \A q \in Producers : producer'[q] = "block" => producer[q] = "block"
    BY <1>0, <2>1 DEF NotifyAll
  <2> QED
    BY <1>2, <2>1, <2>2 DEF RoomInv
<1>18. ASSUME AddThread PROVE RoomInv'
  BY <1>3, <1>18 DEF AddThread, ThreadTableSize, ThreadTableCapacity, ring, control, callers, Telling
<1>19. CASE UNCHANGED vars
  BY <1>3, <1>19 DEF vars, ring, control, callers, threads, Telling
<1> QED
  BY <1>4, <1>5, <1>6, <1>7, <1>8, <1>9, <1>10, <1>11, <1>12, <1>13, <1>14, <1>15, <1>16, <1>17, <1>18, <1>19
     DEF Next, EnqueueStep, WorkerStep, StopStep, StartStep

(* No wakeup of an enqueue() that waits for room is lost: a slot that      *)
(* becomes free is told to a producer, whatever is stored meanwhile.       *)
THEOREM ProducerWakeupCorrect == ASSUME FiniteThreads PROVE Spec => []ProducerWakeup
<1>1. Init => RoomInv
  BY DEF Init, RoomInv, ProducerWakeup
<1>2. RoomInv => ProducerWakeup
  BY DEF RoomInv
<1> QED
  BY InitInv, StepInv, StepRoom, <1>1, <1>2, PTL DEF Spec

-----------------------------------------------------------------------------
(* The ring: the buffer is never touched while it is cleared, and its      *)
(* entries lie between head and tail.                                      *)

SafeClients == FALSE \notin Overlap \/ FALSE \notin StartModes \/ FALSE \notin EnqueueModes

(* What the clients' discipline and the second look at the stop flag give. *)
ClientInv ==
  /\ owner # "stopped" => waitWhenFull \in StartModes
  /\ \A p \in Producers : producer[p] # "idle" =>
       /\ waitWhenFull \in StartModes /\ argument[p].wait \in EnqueueModes
       /\ Waits(p) \in Overlap \/ owner = "started"
  /\ \A p \in Producers : producer[p] = "store" => owner \in {"started", "fence"}
  /\ ~overrun

RingInv ==
  /\ ~sized => buffer = Cleared
  /\ owner = "starting" => bufferHead = 0 /\ bufferTail = 0
  /\ RingShape

-----------------------------------------------------------------------------
LEMMA InitClient == Init => ClientInv
  BY DEF Init, ClientInv

LEMMA StepClient == ASSUME SafeClients PROVE IInv /\ ClientInv /\ [Next]_vars => ClientInv'
<1> SUFFICES ASSUME IInv, ClientInv, [Next]_vars PROVE ClientInv'
  OBVIOUS
<1> USE ThreadAssumption, ModeAssumption
<1> USE DEF IInv, Sync, TypeOK, RingType, ControlType, CallType, ThreadType,
            MutexInv, CountInv, OwnerInv, CallInv, StopInv, ClientInv,
            ProducerStates, WorkerStates, OwnerStates, ring, control, callers, threads,
            Waits
<1>1. ASSUME NEW e \in Entries, EnqueueToStopped(e) PROVE ClientInv'
  BY <1>1 DEF EnqueueToStopped
<1>2. ASSUME NEW p \in Producers, NEW e \in Entries, NEW wait \in EnqueueModes,
             EnqueueBegin(p, e, wait)
      PROVE  ClientInv'
  BY <1>2 DEF EnqueueBegin, MayEnqueue
<1>3. ASSUME NEW p \in Producers, EnqueueLock(p) PROVE ClientInv'
  <2>1. stopProcessingThread => Waits(p) \/ owner = "started"
    <3>1. producer[p] # "idle"
      BY <1>3 DEF EnqueueLock
    <3>2. waitWhenFull \in StartModes /\ argument[p].wait \in EnqueueModes
      BY <3>1
    <3>3. CASE FALSE \notin Overlap
      <4>1. CASE owner = "started"
        BY <4>1
      <4>2. CASE Waits(p) \in Overlap
        <5>1. Waits(p) # FALSE
          BY <3>3, <4>2
        <5>2. Waits(p) \in BOOLEAN
          BY DEF Waits
        <5> QED
          BY <5>1, <5>2
      <4> QED
        BY <3>1, <4>1, <4>2
    <3>4. CASE FALSE \notin StartModes
      <4>1. waitWhenFull \in BOOLEAN /\ waitWhenFull # FALSE
        BY <3>4, <3>2
      <4> QED
        BY <4>1 DEF Waits
    <3>5. CASE FALSE \notin EnqueueModes
      <4>1. argument[p].wait \in BOOLEAN /\ argument[p].wait # FALSE
        BY <3>5, <3>2
      <4> QED
        BY <4>1 DEF Waits
    <3> QED
      BY <3>3, <3>4, <3>5 DEF SafeClients
  <2> QED
    BY <1>3, <2>1 DEF EnqueueLock, Return
<1>4. ASSUME NEW p \in Producers, EnqueueBlock(p) \/ EnqueueTimeout(p) PROVE ClientInv'
  BY <1>4 DEF EnqueueBlock, EnqueueTimeout
<1>5. ASSUME NEW p \in Producers, EnqueueStore(p) PROVE ClientInv'
  BY <1>5 DEF EnqueueStore
<1>6. ASSUME NEW p \in Producers, EnqueueNotify(p) PROVE ClientInv'
  BY <1>6 DEF EnqueueNotify, Return
<1>7. ASSUME NEW w \in Workers, WorkerTop(w) \/ WorkerLock(w) \/ WorkerBlock(w) \/ WorkerTimeout(w)
      PROVE  ClientInv'
  BY <1>7 DEF WorkerTop, WorkerLock, WorkerBlock, WorkerTimeout
<1>8. ASSUME NEW w \in Workers, WorkerTake(w) PROVE ClientInv'
  BY <1>8 DEF WorkerTake, MoveHead
<1>9. ASSUME NEW w \in Workers, WorkerNotify(w) PROVE ClientInv'
  BY <1>9 DEF WorkerNotify, NotifyProducer, NotifyOne
<1>10. ASSUME NEW w \in Workers, WorkerProcess(w) \/ WorkerThrow(w) \/ WorkerRelock(w)
       PROVE  ClientInv'
  BY <1>10 DEF WorkerProcess, WorkerThrow, WorkerRelock
<1>11. ASSUME NEW mode \in StartModes, StartBegin(mode) PROVE ClientInv'
  BY <1>11 DEF StartBegin
<1>12. ASSUME StartStep \/ AddThread PROVE ClientInv'
  BY <1>12 DEF StartStep, StartThread, StartReturn, AddThread
<1>13. ASSUME StopBegin PROVE ClientInv'
  BY <1>13 DEF StopBegin
<1>14. ASSUME StopStep PROVE ClientInv'
  BY <1>14 DEF StopStep, StopFence, FencePassable, StopNotify, NotifyAll, StopReturn
<1>15. CASE UNCHANGED vars
  BY <1>15 DEF vars
<1> QED
  BY <1>1, <1>2, <1>3, <1>4, <1>5, <1>6, <1>7, <1>8, <1>9, <1>10, <1>11, <1>12, <1>13, <1>14, <1>15
     DEF Next, EnqueueStep, WorkerStep

-----------------------------------------------------------------------------
(* Arithmetic of slots.                                                    *)
LEMMA ModSmall == ASSUME NEW i \in 0 .. BufferSize - 1 PROVE i % BufferSize = i
  BY BufferSizeAssumption

LEMMA ModWrapped == ASSUME NEW i \in BufferSize .. 2 * BufferSize - 1
                    PROVE  i % BufferSize = i - BufferSize
  BY BufferSizeAssumption

LEMMA SlotSum == ASSUME NEW i \in Slots, NEW k \in 0 .. BufferSize
                 PROVE  (i + k) % BufferSize = IF i + k < BufferSize THEN i + k
                                               ELSE i + k - BufferSize
  BY BufferSizeAssumption, ModSmall, ModWrapped DEF Slots

LEMMA NextSlotValue == ASSUME NEW i \in Slots
                       PROVE  NextSlot(i) = IF i + 1 < BufferSize THEN i + 1 ELSE 0
<1>1. 1 \in 0 .. BufferSize
  BY BufferSizeAssumption
<1>2. (i + 1) % BufferSize = IF i + 1 < BufferSize THEN i + 1 ELSE i + 1 - BufferSize
  BY <1>1, SlotSum
<1> QED
  BY <1>2, BufferSizeAssumption DEF Slots, NextSlot

(* Counting from the next slot is counting one further.                    *)
LEMMA SlotShift == ASSUME NEW i \in Slots, NEW k \in 0 .. BufferSize - 1
                   PROVE  (NextSlot(i) + k) % BufferSize = (i + (k + 1)) % BufferSize
<1>1. NextSlot(i) = IF i + 1 < BufferSize THEN i + 1 ELSE 0
  BY NextSlotValue
<1>2. (i + (k + 1)) % BufferSize = IF i + (k + 1) < BufferSize THEN i + (k + 1)
                                   ELSE i + (k + 1) - BufferSize
  BY BufferSizeAssumption, SlotSum
<1>3. NextSlot(i) \in Slots
  BY NextSlotType
<1>4. (NextSlot(i) + k) % BufferSize = IF NextSlot(i) + k < BufferSize THEN NextSlot(i) + k
                                       ELSE NextSlot(i) + k - BufferSize
  BY BufferSizeAssumption, SlotSum, <1>3
<1> QED
  BY BufferSizeAssumption, <1>1, <1>2, <1>4 DEF Slots

(* The slot after the last one of a window.                                *)
LEMMA SlotAfter == ASSUME NEW i \in Slots, NEW k \in 0 .. BufferSize - 1
                   PROVE  NextSlot((i + k) % BufferSize) = (i + (k + 1)) % BufferSize
<1>1. (i + k) % BufferSize = IF i + k < BufferSize THEN i + k ELSE i + k - BufferSize
  BY BufferSizeAssumption, SlotSum
<1>2. (i + (k + 1)) % BufferSize = IF i + (k + 1) < BufferSize THEN i + (k + 1)
                                   ELSE i + (k + 1) - BufferSize
  BY BufferSizeAssumption, SlotSum
<1>3. (i + k) % BufferSize \in Slots
  BY BufferSizeAssumption, <1>1 DEF Slots
<1>4. NextSlot((i + k) % BufferSize) = IF ((i + k) % BufferSize) + 1 < BufferSize
                                       THEN ((i + k) % BufferSize) + 1 ELSE 0
  BY NextSlotValue, <1>3
<1> QED
  BY BufferSizeAssumption, <1>1, <1>2, <1>4 DEF Slots

(* Fewer than BufferSize steps do not come back to the same slot.          *)
LEMMA SlotDistinct == ASSUME NEW i \in Slots, NEW k \in 1 .. BufferSize - 1
                      PROVE  (i + k) % BufferSize # i
<1>1. (i + k) % BufferSize = IF i + k < BufferSize THEN i + k ELSE i + k - BufferSize
  BY BufferSizeAssumption, SlotSum
<1> QED
  BY <1>1, BufferSizeAssumption DEF Slots

LEMMA SlotSelf == ASSUME NEW i \in Slots PROVE (i + 0) % BufferSize = i
  BY BufferSizeAssumption, ModSmall DEF Slots

-----------------------------------------------------------------------------
LEMMA InitRing == Init => RingInv
  BY DEF Init, RingInv, RingShape

LEMMA StoreRing ==
  ASSUME IInv, ClientInv, RingInv, NEW p \in Producers, EnqueueStore(p)
  PROVE  RingInv'
<1> USE BufferSizeAssumption, ThreadAssumption
<1>1. /\ sized /\ sized' /\ owner' = owner /\ owner # "starting"
      /\ bufferCount \in 0 .. BufferSize - 1
      /\ bufferHead \in Slots /\ bufferTail \in Slots /\ buffer \in [Slots -> Entries \cup {NoEntry}]
      /\ argument[p].entry \in Entries /\ argument[p].entry # NoEntry
  BY DEF EnqueueStore, IInv, Sync, OwnerInv, CountInv, CallInv, ClientInv, TypeOK, RingType,
         control
<1>2. bufferTail = (bufferHead + bufferCount) % BufferSize
  BY <1>1 DEF RingInv, RingShape
<1>3. /\ bufferHead' = bufferHead /\ bufferCount' = bufferCount + 1
      /\ bufferTail' = NextSlot(bufferTail)
      /\ buffer' = [buffer EXCEPT ![bufferTail] = argument[p].entry]
  BY <1>1 DEF EnqueueStore
<1>4. bufferTail' = (bufferHead' + bufferCount') % BufferSize
  BY <1>1, <1>2, <1>3, SlotAfter
<1>5. Window' = Window \cup {bufferTail}
  <2>1. Window' = {(bufferHead + k) % BufferSize : k \in 0 .. bufferCount}
    BY <1>1, <1>3 DEF Window
  <2>2. ASSUME NEW i \in Window' PROVE i \in Window \cup {bufferTail}
    <3>1. PICK k \in 0 .. bufferCount : i = (bufferHead + k) % BufferSize
      BY <2>1
    <3>2. k = bufferCount \/ k \in 0 .. bufferCount - 1
      BY <1>1
    <3> QED
      BY <1>2, <3>1, <3>2 DEF Window
  <2>3. Window \subseteq Window'
    BY <1>1, <2>1 DEF Window
  <2>4. bufferTail \in Window'
    BY <1>1, <1>2, <2>1
  <2> QED
    BY <2>2, <2>3, <2>4
<1>6. ASSUME NEW i \in Slots PROVE buffer'[i] # NoEntry <=> i \in Window'
  BY <1>1, <1>3, <1>5 DEF RingInv, RingShape
<1> QED
  BY <1>1, <1>4, <1>6 DEF RingInv, RingShape

LEMMA TakeRing ==
  ASSUME IInv, RingInv, NEW w \in Workers, WorkerTake(w)
  PROVE  RingInv'
<1> USE BufferSizeAssumption
<1>1. /\ sized /\ sized' /\ owner' = owner /\ owner # "starting"
      /\ bufferCount \in 1 .. BufferSize
      /\ bufferHead \in Slots /\ buffer \in [Slots -> Entries \cup {NoEntry}]
  BY DEF WorkerTake, IInv, Sync, OwnerInv, CountInv, TypeOK, RingType, control
<1>2. /\ bufferHead' = NextSlot(bufferHead) /\ bufferCount' = bufferCount - 1
      /\ bufferTail' = bufferTail
      /\ buffer' = [buffer EXCEPT ![bufferHead] = NoEntry]
  BY DEF WorkerTake, MoveHead
<1>3. bufferTail' = (bufferHead' + bufferCount') % BufferSize
  BY <1>1, <1>2, SlotShift DEF RingInv, RingShape
<1>4. Window' = Window \ {bufferHead}
  <2>1. Window' = {(bufferHead + (k + 1)) % BufferSize : k \in 0 .. bufferCount - 2}
    BY <1>1, <1>2, SlotShift DEF Window
  <2>2. Window = {(bufferHead + k) % BufferSize : k \in 0 .. bufferCount - 1}
    BY DEF Window
  <2>3. (bufferHead + 0) % BufferSize = bufferHead
    BY <1>1, SlotSelf
  <2>4. \A k \in 1 .. bufferCount - 1 : (bufferHead + k) % BufferSize # bufferHead
    BY <1>1, SlotDistinct
  <2>5. ASSUME NEW i \in Window' PROVE i \in Window \ {bufferHead}
    <3>1. PICK k \in 0 .. bufferCount - 2 : i = (bufferHead + (k + 1)) % BufferSize
      BY <2>1, <2>5
    <3>2. k + 1 \in 1 .. bufferCount - 1
      BY <1>1
    <3> QED
      BY <1>1, <2>2, <2>4, <3>1, <3>2
  <2>6. ASSUME NEW i \in Window, i # bufferHead PROVE i \in Window'
    <3>1. PICK k \in 0 .. bufferCount - 1 : i = (bufferHead + k) % BufferSize
      BY <2>2
    <3>2. k # 0
      BY <2>3, <2>6, <3>1
    <3>3. k - 1 \in 0 .. bufferCount - 2 /\ (k - 1) + 1 = k
      BY <1>1, <3>1, <3>2
    <3> QED
      BY <2>1, <3>1, <3>3
  <2> QED
    BY <2>5, <2>6
<1>5. ASSUME NEW i \in Slots PROVE buffer'[i] # NoEntry <=> i \in Window'
  BY <1>1, <1>2, <1>4 DEF RingInv, RingShape
<1> QED
  BY <1>1, <1>3, <1>5 DEF RingInv, RingShape

LEMMA StepRing == IInv /\ ClientInv /\ RingInv /\ [Next]_vars => RingInv'
<1> SUFFICES ASSUME IInv, ClientInv, RingInv, [Next]_vars PROVE RingInv'
  OBVIOUS
<1> USE DEF ring, control
<1>1. ASSUME UNCHANGED <<ring, sized>>, owner' = owner \/ owner' # "starting" PROVE RingInv'
  BY <1>1 DEF RingInv, RingShape, Window
<1>2. ASSUME NEW p \in Producers, EnqueueLock(p) \/ EnqueueBlock(p) \/ EnqueueTimeout(p)
                                   \/ EnqueueNotify(p)
      PROVE  RingInv'
  BY <1>1, <1>2 DEF EnqueueLock, EnqueueBlock, EnqueueTimeout, EnqueueNotify
<1>3. ASSUME NEW p \in Producers, EnqueueStore(p) PROVE RingInv'
  BY <1>3, StoreRing
<1>4. ASSUME NEW e \in Entries, EnqueueToStopped(e) PROVE RingInv'
  BY <1>1, <1>4 DEF EnqueueToStopped
<1>5. ASSUME NEW p \in Producers, NEW e \in Entries, NEW wait \in EnqueueModes,
             EnqueueBegin(p, e, wait)
      PROVE  RingInv'
  BY <1>1, <1>5 DEF EnqueueBegin
<1>6. ASSUME NEW w \in Workers, WorkerTake(w) PROVE RingInv'
  BY <1>6, TakeRing
<1>7. ASSUME NEW w \in Workers, WorkerTop(w) \/ WorkerLock(w) \/ WorkerBlock(w) \/ WorkerTimeout(w)
                                 \/ WorkerNotify(w) \/ WorkerProcess(w) \/ WorkerThrow(w)
                                 \/ WorkerRelock(w)
      PROVE  RingInv'
  BY <1>1, <1>7 DEF WorkerTop, WorkerLock, WorkerBlock, WorkerTimeout, WorkerNotify,
                    WorkerProcess, WorkerThrow, WorkerRelock
<1>8. ASSUME NEW mode \in StartModes, StartBegin(mode) PROVE RingInv'
  <2>1. ~sized /\ ~sized' /\ buffer' = buffer /\ bufferHead' = 0 /\ bufferTail' = 0
    BY <1>8 DEF StartBegin, ResetRing, IInv, Sync, OwnerInv
  <2> QED
    BY <2>1 DEF RingInv, RingShape, Cleared
<1>9. ASSUME NEW w \in Workers, StartThread(w) PROVE RingInv'
  BY <1>1, <1>9 DEF StartThread
<1>10. CASE StartReturn
  <2>1. /\ ~sized /\ bufferHead = 0 /\ bufferTail = 0 /\ bufferCount = 0 /\ buffer = Cleared
        /\ UNCHANGED ring /\ owner' = "started" /\ sized'
    BY <1>10 DEF StartReturn, Resize, RingInv, IInv, Sync, OwnerInv
  <2>2. bufferTail' = (bufferHead' + bufferCount') % BufferSize
    BY <2>1, SlotSelf, BufferSizeAssumption DEF Slots
  <2>3. Window' = {}
    BY <2>1 DEF Window
  <2>4. \A i \in Slots : buffer'[i] = NoEntry
    BY <2>1 DEF Cleared
  <2> QED
    BY <2>1, <2>2, <2>3, <2>4 DEF RingInv, RingShape
<1>11. CASE StopBegin \/ StopFence \/ StopNotify \/ AddThread
  BY <1>1, <1>11 DEF StopBegin, StopFence, StopNotify, AddThread
<1>12. CASE StopReturn
  BY <1>12 DEF StopReturn, RingInv, RingShape
<1>13. CASE UNCHANGED vars
  BY <1>1, <1>13 DEF vars
<1> QED
  BY <1>2, <1>3, <1>4, <1>5, <1>6, <1>7, <1>8, <1>9, <1>10, <1>11, <1>12, <1>13
     DEF Next, EnqueueStep, WorkerStep, StopStep, StartStep

-----------------------------------------------------------------------------
LEMMA ClientRingCorrect ==
  ASSUME SafeClients PROVE Spec => [](IInv /\ ClientInv /\ RingInv)
<1>1. Init => IInv /\ ClientInv /\ RingInv
  BY InitInv, InitClient, InitRing
<1>2. IInv /\ ClientInv /\ RingInv /\ [Next]_vars => (IInv /\ ClientInv /\ RingInv)'
  BY StepInv, StepClient, StepRing
<1> QED
  BY <1>1, <1>2, PTL DEF Spec

(* No enqueue() and no processing thread accesses a slot of the cleared    *)
(* vector, and the filled slots are exactly those from head to tail, so    *)
(* that nothing is skipped, overwritten or processed twice, provided       *)
(* clients wait for room or stay away during a stop.                       *)
THEOREM RingSafeCorrect == ASSUME SafeClients PROVE Spec => []RingSafe
<1>1. ClientInv /\ RingInv => RingSafe
  BY DEF ClientInv, RingInv, NoOverrun, RingSafe
<1> QED
  BY ClientRingCorrect, <1>1, PTL

-----------------------------------------------------------------------------
(* The refinement: each step of the ring buffer and its threads is a step  *)
(* of the abstract queue or changes nothing of it.                         *)

(* An entry that is not stored yet: it was not offered, or its call has    *)
(* not come to the store.                                                  *)
Early(p) == producer[p] \in {"lock", "block", "wait", "store"}
New(e) ==
  \/ answer[e] = "none" /\ \A p \in Producers : argument[p].entry # e
  \/ \E p \in Producers : Early(p) /\ argument[p].entry = e

Stored(e) ==
  \/ \E i \in Slots : buffer[i] = e
  \/ \E w \in Workers : inHand[w] = e
  \/ e \in ToSet(handled)

(* No two calls have the same entry.                                       *)
CallsInv ==
  /\ \A p, q \in Producers :
       producer[p] # "idle" /\ argument[p].entry = argument[q].entry => p = q
  /\ \A p \in Producers : producer[p] = "idle" => argument[p].entry = NoEntry

(* An entry is in one slot or in one hand, and a thread that takes one     *)
(* has none.                                                               *)
SlotsInv ==
  /\ \A i, j \in Slots : buffer[i] # NoEntry /\ buffer[i] = buffer[j] => i = j
  /\ \A v, w \in Workers : inHand[v] # NoEntry /\ inHand[v] = inHand[w] => v = w
  /\ \A i \in Slots, w \in Workers : buffer[i] # NoEntry => buffer[i] # inHand[w]
  /\ \A w \in Workers : inHand[w] # NoEntry => worker[w] \in {"notify", "process"}

NewInv == \A e \in Entries : New(e) => ~Stored(e)

PlaceInv == CallsInv /\ SlotsInv /\ NewInv

-----------------------------------------------------------------------------
LEMMA InitPlace == Init => PlaceInv
<1> SUFFICES ASSUME Init PROVE PlaceInv
  OBVIOUS
<1>1. CallsInv
  BY DEF Init, CallsInv, NoCall
<1>2. SlotsInv
  BY DEF Init, SlotsInv, Cleared
<1>3. NewInv
  <2>1. ToSet(handled) = {}
    BY DEF Init, ToSet
  <2>2. ASSUME NEW e \in Entries PROVE ~Stored(e)
    BY <2>1, ThreadAssumption DEF Init, Stored, Cleared
  <2> QED
    BY <2>2 DEF NewInv
<1> QED
  BY <1>1, <1>2, <1>3 DEF PlaceInv

LEMMA InSequence ==
  ASSUME NEW S, NEW s \in Seq(S), NEW e \in S
  PROVE  ToSet(Append(s, e)) = ToSet(s) \cup {e}
<1>1. /\ Len(Append(s, e)) = Len(s) + 1 /\ Append(s, e)[Len(s) + 1] = e
      /\ \A i \in 1 .. Len(s) : Append(s, e)[i] = s[i]
      /\ DOMAIN Append(s, e) = 1 .. Len(s) + 1 /\ DOMAIN s = 1 .. Len(s) /\ Len(s) \in Nat
  BY AppendProperties, LenProperties
<1>2. ASSUME NEW x \in ToSet(Append(s, e)) PROVE x \in ToSet(s) \cup {e}
  <2>1. PICK i \in 1 .. Len(s) + 1 : x = Append(s, e)[i]
    BY <1>1, <1>2 DEF ToSet
  <2>2. i \in 1 .. Len(s) \/ i = Len(s) + 1
    BY <1>1
  <2> QED
    BY <1>1, <2>1, <2>2 DEF ToSet
<1>3. ASSUME NEW x \in ToSet(s) \cup {e} PROVE x \in ToSet(Append(s, e))
  <2>1. CASE x = e
    <3>1. Len(s) + 1 \in 1 .. Len(s) + 1
      BY <1>1
    <3> QED
      BY <1>1, <2>1, <3>1 DEF ToSet
  <2>2. CASE x \in ToSet(s)
    <3>1. PICK i \in 1 .. Len(s) : x = s[i]
      BY <1>1, <2>2 DEF ToSet
    <3>2. i \in 1 .. Len(s) + 1
      BY <1>1
    <3> QED
      BY <1>1, <3>1, <3>2 DEF ToSet
  <2> QED
    BY <1>3, <2>1, <2>2
<1> QED
  BY <1>2, <1>3

LEMMA StepCalls == IInv /\ CallsInv /\ [Next]_vars => CallsInv'
<1> SUFFICES ASSUME IInv, CallsInv, [Next]_vars PROVE CallsInv'
  OBVIOUS
<1> USE ThreadAssumption
<1> USE DEF IInv, Sync, TypeOK, CallType, CallInv, CallsInv, callers
<1>1. ASSUME UNCHANGED <<producer, argument>> PROVE CallsInv'
  BY <1>1
<1>2. ASSUME NEW p \in Producers, NEW e \in Entries, NEW wait \in EnqueueModes,
             EnqueueBegin(p, e, wait)
      PROVE  CallsInv'
  BY <1>2 DEF EnqueueBegin, NeverOffered
<1>3. ASSUME NEW p \in Producers, producer[p] # "idle",
             \/ argument' = argument /\ \A q \in Producers : producer'[q] = "idle" <=> producer[q] = "idle"
             \/ /\ argument' = [argument EXCEPT ![p] = NoCall]
                /\ producer' = [producer EXCEPT ![p] = "idle"]
      PROVE  CallsInv'
  <2>1. CASE argument' = argument /\ \A q \in Producers : producer'[q] = "idle" <=> producer[q] = "idle"
    BY <2>1
  <2>2. CASE /\ argument' = [argument EXCEPT ![p] = NoCall]
             /\ producer' = [producer EXCEPT ![p] = "idle"]
    <3>1. /\ argument'[p].entry = NoEntry /\ producer'[p] = "idle"
          /\ \A q \in Producers \ {p} : argument'[q] = argument[q] /\ producer'[q] = producer[q]
      BY <2>2 DEF NoCall
    <3>2. \A q \in Producers : producer[q] # "idle" => argument[q].entry # NoEntry
      OBVIOUS
    <3> QED
      BY <3>1, <3>2
  <2> QED
    BY <1>3, <2>1, <2>2
<1>11. ASSUME NEW p \in Producers, EnqueueLock(p) \/ EnqueueNotify(p) PROVE CallsInv'
  BY <1>3, <1>11 DEF EnqueueLock, EnqueueNotify, Return
<1>12. ASSUME NEW p \in Producers, EnqueueBlock(p) \/ EnqueueTimeout(p) \/ EnqueueStore(p) PROVE CallsInv'
  BY <1>3, <1>12 DEF EnqueueBlock, EnqueueTimeout, EnqueueStore
<1>4. ASSUME NEW w \in Workers, WorkerNotify(w) PROVE CallsInv'
  BY <1>4 DEF WorkerNotify, NotifyProducer, NotifyOne
<1>5. ASSUME StopNotify PROVE CallsInv'
  BY <1>5 DEF StopNotify, NotifyAll
<1>6. ASSUME NEW e \in Entries, EnqueueToStopped(e) PROVE CallsInv'
  BY <1>1, <1>6 DEF EnqueueToStopped
<1>7. ASSUME NEW w \in Workers,
             \/ WorkerTop(w) \/ WorkerLock(w) \/ WorkerBlock(w) \/ WorkerTimeout(w) \/ WorkerTake(w)
             \/ WorkerProcess(w) \/ WorkerThrow(w) \/ WorkerRelock(w) \/ StartThread(w)
      PROVE  CallsInv'
  BY <1>1, <1>7 DEF WorkerTop, WorkerLock, WorkerBlock, WorkerTimeout, WorkerTake, WorkerProcess,
                    WorkerThrow, WorkerRelock, StartThread
<1>8. ASSUME NEW mode \in StartModes, StartBegin(mode) PROVE CallsInv'
  BY <1>1, <1>8 DEF StartBegin
<1>9. ASSUME StartReturn \/ StopBegin \/ StopFence \/ StopReturn \/ AddThread PROVE CallsInv'
  BY <1>1, <1>9 DEF StartReturn, StopBegin, StopFence, StopReturn, AddThread
<1>10. CASE UNCHANGED vars
  BY <1>1, <1>10 DEF vars
<1> QED
  BY <1>2, <1>4, <1>5, <1>6, <1>7, <1>8, <1>9, <1>10, <1>11, <1>12
     DEF Next, EnqueueStep, WorkerStep, StopStep, StartStep

LEMMA StepSlots == IInv /\ PlaceInv /\ [Next]_vars => SlotsInv'
<1> SUFFICES ASSUME IInv, PlaceInv, [Next]_vars PROVE SlotsInv'
  OBVIOUS
<1> USE ThreadAssumption
<1> USE DEF IInv, Sync, TypeOK, RingType, ThreadType, SlotsInv, PlaceInv, ring, threads
<1>1. ASSUME UNCHANGED <<buffer, inHand>>,
             \A w \in Workers : worker[w] \in {"notify", "process"} => worker'[w] \in {"notify", "process"}
      PROVE  SlotsInv'
  BY <1>1
<1>2. ASSUME NEW p \in Producers, EnqueueStore(p) PROVE SlotsInv'
  <2>1. CASE UNCHANGED buffer
    BY <1>2, <2>1 DEF EnqueueStore
  <2>2. CASE buffer' = [buffer EXCEPT ![bufferTail] = argument[p].entry]
    <3>1. argument[p].entry \in Entries /\ New(argument[p].entry)
      BY <1>2 DEF EnqueueStore, CallInv, New, Early
    <3>2. ~Stored(argument[p].entry)
      BY <3>1 DEF NewInv
    <3>3. /\ \A i \in Slots : buffer[i] # argument[p].entry
          /\ \A w \in Workers : inHand[w] # argument[p].entry
      BY <3>2 DEF Stored
    <3>4. worker' = worker /\ inHand' = inHand
      BY <1>2 DEF EnqueueStore
    <3> QED
      BY <2>2, <3>3, <3>4
  <2> QED
    BY <1>2, <2>1, <2>2 DEF EnqueueStore
<1>3. ASSUME NEW p \in Producers, EnqueueNotify(p) PROVE SlotsInv'
  BY <1>1, <1>3 DEF EnqueueNotify, NotifyWorker, NotifyOne
<1>4. ASSUME NEW w \in Workers, WorkerTake(w) PROVE SlotsInv'
  BY <1>4 DEF WorkerTake, MoveHead, WorkerStates
<1>5. ASSUME NEW w \in Workers, WorkerProcess(w) \/ WorkerThrow(w) PROVE SlotsInv'
  <2>1. inHand' = [inHand EXCEPT ![w] = NoEntry] /\ UNCHANGED buffer
    BY <1>5 DEF WorkerProcess, WorkerThrow
  <2>2. \A v \in Workers : v # w => worker'[v] = worker[v]
    BY <1>5 DEF WorkerProcess, WorkerThrow
  <2> QED
    BY <2>1, <2>2
<1>6. ASSUME NEW w \in Workers,
             \/ WorkerTop(w) \/ WorkerLock(w) \/ WorkerBlock(w) \/ WorkerTimeout(w)
             \/ WorkerNotify(w) \/ WorkerRelock(w) \/ StartThread(w)
      PROVE  SlotsInv'
  BY <1>1, <1>6 DEF WorkerTop, WorkerLock, WorkerBlock, WorkerTimeout, WorkerNotify, WorkerRelock,
                    StartThread
<1>7. ASSUME NEW p \in Producers, EnqueueLock(p) \/ EnqueueBlock(p) \/ EnqueueTimeout(p) PROVE SlotsInv'
  BY <1>1, <1>7 DEF EnqueueLock, EnqueueBlock, EnqueueTimeout
<1>8. ASSUME NEW p \in Producers, NEW e \in Entries, NEW wait \in EnqueueModes,
             EnqueueBegin(p, e, wait)
      PROVE  SlotsInv'
  BY <1>1, <1>8 DEF EnqueueBegin
<1>9. ASSUME NEW e \in Entries, EnqueueToStopped(e) PROVE SlotsInv'
  BY <1>1, <1>9 DEF EnqueueToStopped
<1>10. ASSUME NEW mode \in StartModes, StartBegin(mode) PROVE SlotsInv'
  BY <1>1, <1>10 DEF StartBegin
<1>11. ASSUME StartReturn \/ StopBegin \/ StopFence \/ AddThread PROVE SlotsInv'
  BY <1>1, <1>11 DEF StartReturn, StopBegin, StopFence, AddThread, ThreadTableSize, ThreadTableCapacity
<1>12. ASSUME StopNotify PROVE SlotsInv'
  BY <1>1, <1>12 DEF StopNotify, NotifyAll
<1>13. ASSUME StopReturn PROVE SlotsInv'
  <2>1. \A w \in Workers : inHand[w] = NoEntry
    BY <1>13 DEF StopReturn, Joined, Running
  <2> QED
    BY <1>13, <2>1 DEF StopReturn, Cleared
<1>14. CASE UNCHANGED vars
  BY <1>1, <1>14 DEF vars
<1> QED
  BY <1>2, <1>3, <1>4, <1>5, <1>6, <1>7, <1>8, <1>9, <1>10, <1>11, <1>12, <1>13, <1>14
     DEF Next, EnqueueStep, WorkerStep, StopStep, StartStep

LEMMA StepNew == IInv /\ PlaceInv /\ [Next]_vars => NewInv'
<1> SUFFICES ASSUME IInv, PlaceInv, [Next]_vars, NEW e \in Entries, New(e)' PROVE ~Stored(e)'
  BY DEF NewInv
<1> USE ThreadAssumption
<1> USE DEF IInv, Sync, TypeOK, RingType, CallType, ThreadType, PlaceInv, NewInv, CallsInv, CallInv,
            ring, callers, threads, Early
\* Nothing becomes new, and nothing is stored that was not.
<1>1. ASSUME New(e), Stored(e)' => Stored(e) PROVE ~Stored(e)'
  BY <1>1
<1>2. ASSUME UNCHANGED <<argument, answer>>, \A p \in Producers : Early(p)' => Early(p) PROVE New(e)
  BY <1>2 DEF New
<1>3. ASSUME UNCHANGED <<buffer, inHand, handled>> PROVE Stored(e)' => Stored(e)
  BY <1>3 DEF Stored
<1>4. ASSUME NEW p \in Producers, NEW f \in Entries, NEW wait \in EnqueueModes,
             EnqueueBegin(p, f, wait)
      PROVE  ~Stored(e)'
  <2>1. New(e)
    BY <1>4 DEF EnqueueBegin, NeverOffered, New
  <2> QED
    BY <1>1, <1>3, <1>4, <2>1 DEF EnqueueBegin
<1>5. ASSUME NEW p \in Producers, EnqueueLock(p) PROVE ~Stored(e)'
  <2>1. UNCHANGED <<buffer, inHand, handled>>
    BY <1>5 DEF EnqueueLock
  <2>2. CASE UNCHANGED <<argument, answer>>
    <3>1. \A q \in Producers : Early(q)' => Early(q)
      BY <1>5 DEF EnqueueLock, Return
    <3>2. New(e)
      BY <1>2, <2>2, <3>1
    <3> QED
      BY <1>1, <1>3, <2>1, <3>2
  <2>3. CASE \E result \in {"true", "false"} : Return(p, result)
    BY <1>1, <1>3, <1>5, <2>1, <2>3 DEF EnqueueLock, Return, New, NoCall
  <2> QED
    BY <1>5, <2>2, <2>3 DEF EnqueueLock
<1>6. ASSUME NEW p \in Producers, EnqueueBlock(p) \/ EnqueueTimeout(p) PROVE ~Stored(e)'
  BY <1>1, <1>2, <1>3, <1>6 DEF EnqueueBlock, EnqueueTimeout
<1>7. ASSUME NEW p \in Producers, EnqueueStore(p) PROVE ~Stored(e)'
  <2>1. New(e)
    BY <1>2, <1>7 DEF EnqueueStore
  <2>2. e # argument[p].entry
    BY <1>7 DEF EnqueueStore, New
  <2>3. Stored(e)' => Stored(e)
    BY <1>7, <2>2 DEF EnqueueStore, Stored
  <2> QED
    BY <1>1, <2>1, <2>3
<1>8. ASSUME NEW p \in Producers, EnqueueNotify(p) PROVE ~Stored(e)'
  <2>1. New(e)
    BY <1>8 DEF EnqueueNotify, Return, New, NoCall
  <2> QED
    BY <1>1, <1>3, <1>8, <2>1 DEF EnqueueNotify
<1>9. ASSUME NEW f \in Entries, EnqueueToStopped(f) PROVE ~Stored(e)'
  <2>1. New(e)
    BY <1>9 DEF EnqueueToStopped, New
  <2> QED
    BY <1>1, <1>3, <1>9, <2>1 DEF EnqueueToStopped
<1>10. ASSUME NEW w \in Workers, WorkerTake(w) PROVE ~Stored(e)'
  <2>1. New(e)
    BY <1>2, <1>10 DEF WorkerTake
  <2>2. Stored(e)' => Stored(e)
    BY <1>10 DEF WorkerTake, MoveHead, Stored
  <2> QED
    BY <1>1, <2>1, <2>2
<1>11. ASSUME NEW w \in Workers, WorkerNotify(w) PROVE ~Stored(e)'
  BY <1>1, <1>2, <1>3, <1>11 DEF WorkerNotify, NotifyProducer, NotifyOne
<1>12. ASSUME NEW w \in Workers, WorkerProcess(w) \/ WorkerThrow(w) PROVE ~Stored(e)'
  <2>1. New(e)
    BY <1>2, <1>12 DEF WorkerProcess, WorkerThrow
  <2>2. ToSet(handled') \subseteq ToSet(handled) \cup {inHand[w]}
    <3>1. CASE UNCHANGED handled
      BY <3>1
    <3>2. CASE inHand[w] \in Entries /\ handled' = Append(handled, inHand[w])
      BY <3>2, InSequence
    <3> QED
      BY <1>12, <3>1, <3>2 DEF WorkerProcess, WorkerThrow
  <2>3. Stored(e)' => Stored(e)
    BY <1>12, <2>2 DEF WorkerProcess, WorkerThrow, Stored
  <2> QED
    BY <1>1, <2>1, <2>3
<1>13. ASSUME NEW w \in Workers,
             \/ WorkerTop(w) \/ WorkerLock(w) \/ WorkerBlock(w) \/ WorkerTimeout(w)
             \/ WorkerRelock(w) \/ StartThread(w)
      PROVE  ~Stored(e)'
  BY <1>1, <1>2, <1>3, <1>13 DEF WorkerTop, WorkerLock, WorkerBlock, WorkerTimeout, WorkerRelock, StartThread
<1>14. ASSUME NEW mode \in StartModes, StartBegin(mode) PROVE ~Stored(e)'
  BY <1>1, <1>2, <1>3, <1>14 DEF StartBegin
<1>15. ASSUME StartReturn \/ StopBegin \/ StopFence \/ AddThread PROVE ~Stored(e)'
  BY <1>1, <1>2, <1>3, <1>15 DEF StartReturn, StopBegin, StopFence, AddThread
<1>16. ASSUME StopNotify PROVE ~Stored(e)'
  BY <1>1, <1>2, <1>3, <1>16 DEF StopNotify, NotifyAll
<1>17. ASSUME StopReturn PROVE ~Stored(e)'
  <2>1. New(e)
    BY <1>2, <1>17 DEF StopReturn
  <2>2. Stored(e)' => Stored(e)
    BY <1>17 DEF StopReturn, Cleared, Stored
  <2> QED
    BY <1>1, <2>1, <2>2
<1>18. CASE UNCHANGED vars
  BY <1>1, <1>2, <1>3, <1>18 DEF vars
<1> QED
  BY <1>4, <1>5, <1>6, <1>7, <1>8, <1>9, <1>10, <1>11, <1>12, <1>13, <1>14, <1>15, <1>16, <1>17, <1>18
     DEF Next, EnqueueStep, WorkerStep, StopStep, StartStep

-----------------------------------------------------------------------------
(* The mapping: what waits, from the head on, and what is being processed. *)
SlotOf(k) == (bufferHead + k - 1) % BufferSize
Waiting == IF sized THEN [k \in 1 .. bufferCount |-> buffer[(bufferHead + k - 1) % BufferSize]] ELSE <<>>
Hand == {inHand[w] : w \in Workers} \ {NoEntry}

LEMMA SlotOfType ==
  ASSUME IInv, NEW k \in 1 .. bufferCount PROVE SlotOf(k) \in Window /\ SlotOf(k) \in Slots
<1>1. k - 1 \in 0 .. bufferCount - 1 /\ k - 1 \in 0 .. BufferSize /\ bufferHead \in Slots
  BY BufferSizeAssumption DEF IInv, TypeOK, RingType
<1>2. bufferHead + (k - 1) = bufferHead + k - 1
  BY <1>1, BufferSizeAssumption DEF Slots
<1>3. SlotOf(k) \in Window
  BY <1>1, <1>2 DEF Window, SlotOf
<1>4. (bufferHead + (k - 1)) % BufferSize \in Slots
  BY <1>1, SlotSum, BufferSizeAssumption DEF Slots
<1> QED
  BY <1>2, <1>3, <1>4 DEF SlotOf

LEMMA WaitingType ==
  ASSUME IInv, RingInv
  PROVE  /\ Waiting \in Seq(Entries)
         /\ Len(Waiting) = IF sized THEN bufferCount ELSE 0
         /\ sized => \A k \in 1 .. bufferCount : Waiting[k] = buffer[SlotOf(k)]
<1>1. CASE ~sized
  BY <1>1 DEF Waiting
<1>2. CASE sized
  <2>1. bufferCount \in Nat
    BY DEF IInv, TypeOK, RingType
  <2>2. ASSUME NEW k \in 1 .. bufferCount PROVE buffer[SlotOf(k)] \in Entries
    BY <1>2, SlotOfType DEF RingInv, RingShape, IInv, TypeOK, RingType
  <2>3. Waiting = [k \in 1 .. bufferCount |-> buffer[SlotOf(k)]]
    BY <1>2 DEF Waiting, SlotOf
  <2>4. Waiting \in Seq(Entries) /\ Len(Waiting) = bufferCount
    BY <2>1, <2>2, <2>3
  <2> QED
    BY <1>2, <2>3, <2>4
<1> QED
  BY <1>1, <1>2

(* Storing puts the entry behind the others.                               *)
LEMMA StorePuts ==
  ASSUME IInv, ClientInv, RingInv, NEW p \in Producers, EnqueueStore(p)
  PROVE  Waiting' = Append(Waiting, argument[p].entry)
<1> DEFINE e == argument[p].entry
<1>1. /\ sized /\ sized' /\ e \in Entries /\ e # NoEntry /\ bufferCount \in 0 .. BufferSize - 1
      /\ bufferHead' = bufferHead /\ bufferCount' = bufferCount + 1
      /\ buffer' = [buffer EXCEPT ![bufferTail] = e]
      /\ bufferTail \in Slots /\ bufferHead \in Slots /\ buffer \in [Slots -> Entries \cup {NoEntry}]
      /\ bufferTail = (bufferHead + bufferCount) % BufferSize
  BY ThreadAssumption, BufferSizeAssumption
     DEF EnqueueStore, IInv, Sync, OwnerInv, CountInv, CallInv, ClientInv, TypeOK, RingType, RingInv,
         RingShape, control
<1>2. Waiting \in Seq(Entries) /\ Len(Waiting) = bufferCount
      /\ \A k \in 1 .. bufferCount : Waiting[k] = buffer[SlotOf(k)]
  BY <1>1, WaitingType
<1>3. ASSUME NEW k \in 1 .. bufferCount PROVE SlotOf(k) # bufferTail
  <2>1. k - 1 \in 0 .. BufferSize /\ k - 1 < bufferCount /\ bufferCount \in 0 .. BufferSize
    BY <1>1, BufferSizeAssumption
  <2>2. SlotOf(k) = IF bufferHead + (k - 1) < BufferSize THEN bufferHead + (k - 1)
                    ELSE bufferHead + (k - 1) - BufferSize
    <3>1. bufferHead + (k - 1) = bufferHead + k - 1
      BY <1>1 DEF Slots
    <3> QED
      BY <1>1, <2>1, <3>1, SlotSum DEF SlotOf
  <2>3. bufferTail = IF bufferHead + bufferCount < BufferSize THEN bufferHead + bufferCount
                     ELSE bufferHead + bufferCount - BufferSize
    BY <1>1, <2>1, SlotSum
  <2> QED
    BY <1>1, <2>1, <2>2, <2>3, BufferSizeAssumption DEF Slots
<1>4. Waiting' = [k \in 1 .. bufferCount + 1 |-> IF k \in 1 .. bufferCount THEN buffer[SlotOf(k)] ELSE e]
  <2>1. ASSUME NEW k \in 1 .. bufferCount + 1
        PROVE  buffer'[(bufferHead' + k - 1) % BufferSize] =
                 IF k \in 1 .. bufferCount THEN buffer[SlotOf(k)] ELSE e
    <3>1. CASE k \in 1 .. bufferCount
      <4>1. SlotOf(k) \in Slots /\ SlotOf(k) # bufferTail
        BY <1>3, <3>1, SlotOfType
      <4>2. (bufferHead' + k - 1) % BufferSize = SlotOf(k)
        BY <1>1 DEF SlotOf
      <4> QED
        BY <1>1, <3>1, <4>1, <4>2
    <3>2. CASE k = bufferCount + 1
      <4>1. bufferHead' + k - 1 = bufferHead + bufferCount
        BY <1>1, <3>2 DEF Slots
      <4>2. buffer'[(bufferHead' + k - 1) % BufferSize] = e
        BY <1>1, <4>1
      <4> QED
        BY <1>1, <3>2, <4>2
    <3> QED
      BY <1>1, <3>1, <3>2
  <2> QED
    BY <1>1, <2>1 DEF Waiting
<1>5. /\ Append(Waiting, e) \in Seq(Entries) /\ Len(Append(Waiting, e)) = bufferCount + 1
      /\ \A k \in 1 .. bufferCount : Append(Waiting, e)[k] = buffer[SlotOf(k)]
      /\ Append(Waiting, e)[bufferCount + 1] = e
  BY <1>1, <1>2, AppendProperties
<1>6. DOMAIN Append(Waiting, e) = 1 .. bufferCount + 1
  BY <1>5, LenProperties
<1>7. Append(Waiting, e) = [k \in 1 .. bufferCount + 1 |-> Append(Waiting, e)[k]]
  BY <1>5, <1>6, LenProperties
<1>8. \A k \in 1 .. bufferCount + 1 : Append(Waiting, e)[k] =
        IF k \in 1 .. bufferCount THEN buffer[SlotOf(k)] ELSE e
  <2>1. \A k \in 1 .. bufferCount + 1 : k \in 1 .. bufferCount \/ k = bufferCount + 1
    BY <1>1
  <2> QED
    BY <1>1, <1>5, <2>1
<1> QED
  BY <1>4, <1>7, <1>8

(* Taking removes the first one.                                           *)
LEMMA TakeTakes ==
  ASSUME IInv, RingInv, NEW w \in Workers, WorkerTake(w)
  PROVE  /\ Waiting # <<>> /\ Head(Waiting) = buffer[bufferHead]
         /\ buffer[bufferHead] \in Entries
         /\ Waiting' = Tail(Waiting)
<1>1. /\ sized /\ sized' /\ bufferCount \in 1 .. BufferSize
      /\ bufferHead \in Slots /\ buffer \in [Slots -> Entries \cup {NoEntry}]
      /\ bufferHead' = NextSlot(bufferHead) /\ bufferCount' = bufferCount - 1
      /\ buffer' = [buffer EXCEPT ![bufferHead] = NoEntry]
  BY BufferSizeAssumption
     DEF WorkerTake, MoveHead, IInv, Sync, OwnerInv, CountInv, TypeOK, RingType, control
<1>2. Waiting \in Seq(Entries) /\ Len(Waiting) = bufferCount
      /\ \A k \in 1 .. bufferCount : Waiting[k] = buffer[SlotOf(k)]
  BY <1>1, WaitingType
<1>3. Waiting # <<>> /\ Head(Waiting) = Waiting[1] /\ 1 \in 1 .. bufferCount
  BY <1>1, <1>2
<1>4. SlotOf(1) = bufferHead
  <2>1. bufferHead + 1 - 1 = bufferHead + 0
    BY <1>1 DEF Slots
  <2> QED
    BY <1>1, <2>1, SlotSelf DEF SlotOf
<1>5. Waiting[1] \in Entries
  BY <1>2, <1>3, ElementOfSeq
<1>6. /\ Tail(Waiting) \in Seq(Entries) /\ Len(Tail(Waiting)) = bufferCount - 1
      /\ \A k \in 1 .. bufferCount - 1 : Tail(Waiting)[k] = Waiting[k + 1]
  BY <1>2, <1>3, HeadTailProperties
<1>7. Tail(Waiting) = [k \in 1 .. bufferCount - 1 |-> buffer[SlotOf(k + 1)]]
  <2>1. Tail(Waiting) = [k \in 1 .. bufferCount - 1 |-> Tail(Waiting)[k]]
    BY <1>6, LenProperties
  <2>2. \A k \in 1 .. bufferCount - 1 : Tail(Waiting)[k] = buffer[SlotOf(k + 1)]
    <3>1. \A k \in 1 .. bufferCount - 1 : k + 1 \in 1 .. bufferCount
      BY <1>1
    <3> QED
      BY <1>2, <1>6, <3>1
  <2> QED
    BY <2>1, <2>2
<1>8. ASSUME NEW k \in 1 .. bufferCount - 1
      PROVE  buffer'[(bufferHead' + k - 1) % BufferSize] = buffer[SlotOf(k + 1)]
  <2>1. k - 1 \in 0 .. BufferSize - 1 /\ k \in 1 .. BufferSize - 1
    BY <1>1, BufferSizeAssumption
  <2>2. /\ bufferHead' + k - 1 = NextSlot(bufferHead) + (k - 1)
        /\ bufferHead + (k + 1) - 1 = bufferHead + k /\ bufferHead + ((k - 1) + 1) = bufferHead + k
    <3>1. NextSlot(bufferHead) \in Int
      BY <1>1, NextSlotType DEF Slots
    <3> QED
      BY <1>1, <3>1 DEF Slots
  <2>3. (bufferHead' + k - 1) % BufferSize = (bufferHead + k) % BufferSize
    BY <1>1, <2>1, <2>2, SlotShift
  <2>4. SlotOf(k + 1) = (bufferHead + k) % BufferSize
    BY <2>2 DEF SlotOf
  <2>5. (bufferHead + k) % BufferSize # bufferHead
    BY <1>1, <2>1, SlotDistinct
  <2>6. (bufferHead + k) % BufferSize \in Slots
    BY <1>1, <2>1, SlotSum, BufferSizeAssumption DEF Slots
  <2> QED
    BY <1>1, <2>3, <2>4, <2>5, <2>6
<1>9. Waiting' = [k \in 1 .. bufferCount - 1 |-> buffer'[(bufferHead' + k - 1) % BufferSize]]
  BY <1>1 DEF Waiting
<1> QED
  BY <1>2, <1>3, <1>4, <1>5, <1>7, <1>8, <1>9

-----------------------------------------------------------------------------
LEMMA InitFifo == Init => Fifo!Init
  BY DEF Init, Fifo!Init, ToSet

(* A step that leaves ring, hands and history alone changes nothing of the *)
(* abstract queue.                                                         *)
LEMMA StutterFifo ==
  ASSUME UNCHANGED <<ring, sized, inHand, handled>> PROVE UNCHANGED Fifo!vars
  BY DEF Fifo!vars, ring

LEMMA StepFifo ==
  IInv /\ ClientInv /\ RingInv /\ PlaceInv /\ [Next]_vars => [Fifo!Next]_(Fifo!vars)
<1> SUFFICES ASSUME IInv, ClientInv, RingInv, PlaceInv, [Next]_vars
             PROVE  Fifo!Next \/ UNCHANGED Fifo!vars
  OBVIOUS
<1> USE DEF control, callers, threads
<1>1. ASSUME NEW p \in Producers, EnqueueStore(p) PROVE Fifo!Next
  <2> PICK e \in Entries : e = argument[p].entry
    BY <1>1 DEF EnqueueStore, IInv, Sync, CallInv
  <2>1. /\ sized /\ sized' /\ e \in Entries /\ New(e) /\ bufferCount < BufferSize
        /\ UNCHANGED <<inHand, handled>>
    BY <1>1 DEF EnqueueStore, IInv, Sync, OwnerInv, CountInv, CallInv, ClientInv, New, Early
  <2>2. ~Stored(e)
    BY <2>1 DEF PlaceInv, NewInv
  <2>3. Waiting \in Seq(Entries) /\ Len(Waiting) = bufferCount
        /\ \A k \in 1 .. bufferCount : Waiting[k] = buffer[SlotOf(k)]
    BY <2>1, WaitingType
  <2>4. e \notin ToSet(Waiting)
    <3>1. DOMAIN Waiting = 1 .. bufferCount
      BY <2>3, LenProperties
    <3>2. \A k \in 1 .. bufferCount : Waiting[k] # e
      BY <2>2, <2>3, SlotOfType DEF Stored
    <3> QED
      BY <3>1, <3>2 DEF ToSet
  <2>5. e \notin Hand /\ e \notin ToSet(handled)
    BY <2>2 DEF Stored, Hand
  <2>6. Fifo!Fresh(e)
    BY <2>4, <2>5 DEF Fifo!Fresh, Waiting, Hand, ToSet, Fifo!ToSet
  <2>7. Waiting' = Append(Waiting, e)
    BY <1>1, StorePuts
  <2>8. Fifo!Put(e)
    BY <2>1, <2>3, <2>6, <2>7 DEF Fifo!Put, Waiting
  <2> QED
    BY <2>1, <2>8 DEF Fifo!Next
<1>2. ASSUME NEW w \in Workers, WorkerTake(w) PROVE Fifo!Next
  <2>1. /\ sized /\ sized' /\ handled' = handled /\ inHand' = [inHand EXCEPT ![w] = buffer[bufferHead]]
        /\ inHand[w] = NoEntry /\ inHand \in [Workers -> Entries \cup {NoEntry}]
    BY <1>2 DEF WorkerTake, MoveHead, IInv, Sync, TypeOK, ThreadType, CountInv, OwnerInv, RingInv, PlaceInv,
                SlotsInv
  <2>2. /\ Waiting # <<>> /\ Head(Waiting) = buffer[bufferHead] /\ buffer[bufferHead] \in Entries
        /\ Waiting' = Tail(Waiting)
    BY <1>2, TakeTakes
  <2>3. Hand' = Hand \cup {buffer[bufferHead]}
    BY <2>1, <2>2, ThreadAssumption DEF Hand
  <2>4. Fifo!Take
    BY <2>1, <2>2, <2>3 DEF Fifo!Take, Waiting, Hand
  <2> QED
    BY <2>4 DEF Fifo!Next
<1>3. ASSUME NEW w \in Workers, WorkerProcess(w) \/ WorkerThrow(w) PROVE Fifo!Next \/ UNCHANGED Fifo!vars
  <2>1. /\ UNCHANGED <<ring, sized>> /\ inHand' = [inHand EXCEPT ![w] = NoEntry]
        /\ inHand \in [Workers -> Entries \cup {NoEntry}] /\ handled \in Seq(Entries)
    BY <1>3 DEF WorkerProcess, WorkerThrow, IInv, TypeOK, ThreadType
  <2>2. CASE inHand[w] = NoEntry
    <3>1. inHand' = inHand /\ handled' = handled
      BY <1>3, <2>1, <2>2 DEF WorkerProcess, WorkerThrow
    <3> QED
      BY <2>1, <3>1, StutterFifo
  <2>3. CASE inHand[w] # NoEntry
    <3> PICK e \in Entries : e = inHand[w]
      BY <2>1, <2>3
    <3>1. handled' = Append(handled, e)
      BY <1>3, <2>1, <2>3 DEF WorkerProcess, WorkerThrow
    <3>2. e \in Hand /\ Hand' = Hand \ {e}
      BY <2>1, <2>3 DEF Hand, PlaceInv, SlotsInv
    <3>3. ToSet(handled') = ToSet(handled) \cup {e}
      BY <2>1, <3>1, InSequence
    <3>4. Waiting' = Waiting /\ sized' = sized
      BY <2>1 DEF Waiting, ring
    <3>5. Fifo!Finish(e)
      BY <3>2, <3>3, <3>4 DEF Fifo!Finish, Hand, Waiting
    <3> QED
      BY <3>5 DEF Fifo!Next
  <2> QED
    BY <2>2, <2>3
<1>4. ASSUME StartReturn PROVE Fifo!Next
  <2>1. /\ ~sized /\ sized' /\ bufferCount' = 0 /\ UNCHANGED <<inHand, handled>>
    BY <1>4 DEF StartReturn, Resize, IInv, Sync, OwnerInv, ring
  <2>2. Waiting = <<>> /\ Waiting' = <<>>
    BY <2>1 DEF Waiting
  <2>3. Fifo!Open
    BY <2>1, <2>2 DEF Fifo!Open, Waiting
  <2> QED
    BY <2>3 DEF Fifo!Next
<1>5. ASSUME StopReturn PROVE Fifo!Next
  <2>1. /\ sized /\ ~sized' /\ UNCHANGED <<inHand, handled>>
    BY <1>5 DEF StopReturn, IInv, Sync, OwnerInv
  <2>2. Hand = {}
    BY <1>5 DEF StopReturn, Joined, Running, Hand, PlaceInv, SlotsInv
  <2>3. Waiting' = <<>>
    BY <2>1 DEF Waiting
  <2>4. Fifo!Close
    BY <2>1, <2>2, <2>3 DEF Fifo!Close, Waiting, Hand
  <2> QED
    BY <2>4 DEF Fifo!Next
<1>6. ASSUME NEW mode \in StartModes, StartBegin(mode) PROVE UNCHANGED Fifo!vars
  <2>1. ~sized /\ UNCHANGED <<sized, inHand, handled>>
    BY <1>6 DEF StartBegin, IInv, Sync, OwnerInv
  <2>2. Waiting = <<>> /\ Waiting' = <<>>
    BY <2>1 DEF Waiting
  <2> QED
    BY <2>1, <2>2 DEF Fifo!vars, Waiting
<1>7. ASSUME NEW p \in Producers, EnqueueLock(p) \/ EnqueueBlock(p) \/ EnqueueTimeout(p) \/ EnqueueNotify(p)
      PROVE  UNCHANGED Fifo!vars
  BY <1>7, StutterFifo DEF EnqueueLock, EnqueueBlock, EnqueueTimeout, EnqueueNotify
<1>8. ASSUME NEW e \in Entries, EnqueueToStopped(e) PROVE UNCHANGED Fifo!vars
  BY <1>8, StutterFifo DEF EnqueueToStopped
<1>9. ASSUME NEW p \in Producers, NEW e \in Entries, NEW wait \in EnqueueModes,
             EnqueueBegin(p, e, wait)
      PROVE  UNCHANGED Fifo!vars
  BY <1>9, StutterFifo DEF EnqueueBegin
<1>10. ASSUME NEW w \in Workers,
              \/ WorkerTop(w) \/ WorkerLock(w) \/ WorkerBlock(w) \/ WorkerTimeout(w)
              \/ WorkerNotify(w) \/ WorkerRelock(w) \/ StartThread(w)
       PROVE  UNCHANGED Fifo!vars
  BY <1>10, StutterFifo DEF WorkerTop, WorkerLock, WorkerBlock, WorkerTimeout, WorkerNotify, WorkerRelock,
                            StartThread
<1>11. ASSUME StopBegin \/ StopFence \/ StopNotify \/ AddThread PROVE UNCHANGED Fifo!vars
  BY <1>11, StutterFifo DEF StopBegin, StopFence, StopNotify, AddThread
<1>12. CASE UNCHANGED vars
  BY <1>12, StutterFifo DEF vars
<1> QED
  BY <1>1, <1>2, <1>3, <1>4, <1>5, <1>6, <1>7, <1>8, <1>9, <1>10, <1>11, <1>12
     DEF Next, EnqueueStep, WorkerStep, StopStep, StartStep

(* Every step of enqueue(), process(), startQueue() and stopQueue() is one *)
(* of the abstract first-in first-out queue or invisible there: nothing is *)
(* lost, duplicated, reordered or processed twice, at most _bufferSize     *)
(* entries wait, and only a stop that waited for what was being processed  *)
(* drops what was not.                                                     *)
THEOREM ImplementsFifoCorrect == ASSUME SafeClients PROVE Spec => ImplementsFifo
<1>1. Init => Fifo!Init /\ IInv /\ ClientInv /\ RingInv /\ PlaceInv
  BY InitFifo, InitInv, InitClient, InitRing, InitPlace
<1>2. IInv /\ ClientInv /\ RingInv /\ PlaceInv /\ [Next]_vars =>
        (IInv /\ ClientInv /\ RingInv /\ PlaceInv)'
  <2> SUFFICES ASSUME IInv, ClientInv, RingInv, PlaceInv, [Next]_vars
               PROVE  (IInv /\ ClientInv /\ RingInv /\ PlaceInv)'
    OBVIOUS
  <2>1. IInv' /\ ClientInv' /\ RingInv'
    BY StepInv, StepClient, StepRing
  <2>2. CallsInv' /\ SlotsInv' /\ NewInv'
    <3>1. CallsInv'
      BY StepCalls DEF PlaceInv
    <3> QED
      BY <3>1, StepSlots, StepNew
  <2> QED
    BY <2>1, <2>2 DEF PlaceInv
<1> QED
  BY <1>1, <1>2, StepFifo, PTL DEF Spec, ImplementsFifo, Fifo!Spec
=============================================================================
