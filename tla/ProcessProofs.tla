---------------------------- MODULE ProcessProofs ----------------------------
(***************************************************************************)
(* Proofs about ProcessManager for any number of callers, children and     *)
(* process ids.  What a caller finds under its child's process id is that  *)
(* child's exit code because until an id comes back too soon no other      *)
(* child with it is alive, or collected and not yet written down.          *)
(***************************************************************************)
EXTENDS ProcessManager, TLAPS

Active(t) == caller[t] \notin {"idle", "done"}
Busy == {"waitpid", "keep", "notify", "call"}

ProcessType ==
  /\ started \in 0 .. MaxChildren
  /\ pid \in [Children -> Pids \cup {NoPid}]
  /\ status \in [Children -> Statuses \cup {"none"}]
  /\ state \in [Children -> {"none", "running", "zombie", "reaped"}]
  /\ \A c \in Children : (state[c] = "none" <=> c > started) /\ (pid[c] = NoPid <=> c > started)
  /\ told \in [Callbacks -> SUBSET Children] /\ registered \subseteq Callbacks

CallerType ==
  /\ caller \in [Callers -> {"idle", "read", "test", "look", "asleepSoon", "asleep", "done"}]
  /\ child \in [Callers -> 0 .. MaxChildren]
  /\ DOMAIN result = Callers
  /\ \A t \in Callers : Active(t) => child[t] \in 1 .. started
  /\ \A t \in Callers : caller[t] = "done" => result[t] = Failed \/ child[t] \in 1 .. started

HandlerInv ==
  /\ handler \in Busy => current \in 1 .. started
  /\ handler = "keep" => state[current] = "reaped"

(* Another child with the id of a caller's child is gone altogether.       *)
OthersGone ==
  ~reused => \A t \in Callers, d \in Children :
    Active(t) /\ d # child[t] /\ pid[d] = pid[child[t]] =>
      state[d] = "reaped" /\ ~(handler = "keep" /\ current = d)

KeptIsOwn ==
  ~reused => \A t \in Callers : Active(t) /\ KeptFor(t) =>
    /\ state[child[t]] = "reaped"
    /\ kept[pid[child[t]]][1] = ExitCode(status[child[t]])

ResultIsOwn ==
  ~reused => \A t \in Callers : caller[t] = "done" /\ result[t] # Failed =>
    /\ state[child[t]] = "reaped"
    /\ result[t] = ExitCode(status[child[t]])

SleepInv == \A t \in Callers : caller[t] = "asleepSoon" => ~KeptFor(t)

CallInv ==
  /\ toCall \subseteq registered
  /\ handler # "call" => toCall = {}
  /\ handler = "call" /\ Throwing \cap registered = {} =>
       \A b \in registered \ toCall : current \in told[b]

IInv ==
  /\ ProcessType /\ CallerType /\ HandlerInv /\ CallInv
  /\ OthersGone /\ KeptIsOwn /\ ResultIsOwn /\ SleepInv /\ NoLostWakeup
-----------------------------------------------------------------------------
CallerStates == {"idle", "read", "test", "look", "asleepSoon", "asleep", "done"}

LEMMA InitInv == Init => IInv
<1> SUFFICES ASSUME Init PROVE IInv
  OBVIOUS
<1> USE ProcessAssumption DEF Init
<1>1. ProcessType
  BY DEF ProcessType, Children
<1>2. CallerType
  BY DEF CallerType, Active
<1>3. HandlerInv /\ CallInv /\ OthersGone /\ KeptIsOwn /\ ResultIsOwn /\ SleepInv /\ NoLostWakeup
  BY DEF HandlerInv, Busy, CallInv, OthersGone, KeptIsOwn, ResultIsOwn, SleepInv, NoLostWakeup, Active
<1> QED
  BY <1>1, <1>2, <1>3 DEF IInv

(* What no step but that of a fork, a caller's own or Keep can disturb: a  *)
(* collected child stays as it is, and what is kept keeps its exit codes.  *)
LEMMA OwnStays ==
  ASSUME IInv, UNCHANGED <<started, pid, reused, child>>,
         \A d \in Children : state[d] = "reaped" => state'[d] = "reaped" /\ status'[d] = status[d],
         \A t \in Callers : caller'[t] \notin {"idle", "done"} => Active(t),
         DOMAIN kept' = DOMAIN kept, \A p \in DOMAIN kept : kept'[p][1] = kept[p][1],
         handler' = "keep" => (handler = "keep" /\ current' = current) \/ state[current'] # "reaped"
  PROVE  OthersGone' /\ KeptIsOwn'
<1>1. OthersGone'
  BY DEF IInv, OthersGone, Active
<1>2. KeptIsOwn'
  <2>1. \A t \in Callers : Active(t) => child[t] \in Children
    BY DEF IInv, CallerType, ProcessType, Children
  <2> QED
    BY <2>1 DEF IInv, KeptIsOwn, KeptFor, Active
<1> QED
  BY <1>1, <1>2

(* A result is that of an earlier step, a failure, or what is kept for the *)
(* caller's child.                                                         *)
LEMMA ResultStays ==
  ASSUME IInv, reused => reused',
         \A d \in Children : state[d] = "reaped" => state'[d] = "reaped" /\ status'[d] = status[d],
         \A t \in Callers : caller'[t] = "done" =>
            /\ child'[t] = child[t]
            /\ \/ result'[t] = Failed
               \/ caller[t] = "done" /\ result'[t] = result[t]
               \/ Active(t) /\ KeptFor(t) /\ result'[t] = kept[pid[child[t]]][1]
  PROVE  ResultIsOwn'
<1> SUFFICES ASSUME ~reused', NEW t \in Callers, caller'[t] = "done", result'[t] # Failed
             PROVE  state'[child'[t]] = "reaped" /\ result'[t] = ExitCode(status'[child'[t]])
  BY DEF ResultIsOwn
<1>1. CASE caller[t] = "done" /\ result'[t] = result[t]
  <2>1. child[t] \in Children
    BY <1>1 DEF IInv, CallerType, ProcessType, Children
  <2> QED
    BY <1>1, <2>1 DEF IInv, ResultIsOwn
<1>2. CASE Active(t) /\ KeptFor(t) /\ result'[t] = kept[pid[child[t]]][1]
  <2>1. child[t] \in Children
    BY <1>2 DEF IInv, CallerType, ProcessType, Children
  <2> QED
    BY <1>2, <2>1 DEF IInv, KeptIsOwn
<1> QED
  BY <1>1, <1>2

(* Steps that leave the children, the statuses and the callers alone,      *)
(* except that they wake callers.                                          *)
LEMMA OnlyWakes ==
  ASSUME IInv, UNCHANGED <<started, pid, state, status, reused, kept, child, result>>,
         \/ caller' = caller /\ (handler = "notify" => handler' = "notify")
         \/ WakeAll,
         handler' = "keep" => handler = "keep" /\ current' = current,
         told' \in [Callbacks -> SUBSET Children], registered' \subseteq Callbacks,
         HandlerInv', CallInv'
  PROVE  IInv'
<1>0. CallerType /\ caller \in [Callers -> CallerStates]
  BY DEF IInv, CallerType, CallerStates
<1>1. /\ caller' \in [Callers -> CallerStates]
      /\ \A t \in Callers : caller'[t] = caller[t] \/ (caller[t] = "asleep" /\ caller'[t] = "look")
      /\ caller' = caller \/ \A t \in Callers : caller'[t] # "asleep"
  BY <1>0 DEF WakeAll, CallerStates
<1>2. ProcessType'
  BY DEF IInv, ProcessType
<1>3. CallerType'
  BY <1>0, <1>1 DEF CallerType, CallerStates, Active
<1>4. OthersGone' /\ KeptIsOwn'
  BY <1>1, OwnStays DEF Active
<1>5. ResultIsOwn'
  BY <1>1, ResultStays
<1>6. SleepInv'
  BY <1>1 DEF IInv, SleepInv, KeptFor
<1>7. NoLostWakeup'
  BY <1>1 DEF IInv, NoLostWakeup, KeptFor, WakeAll
<1> QED
  BY <1>2, <1>3, <1>4, <1>5, <1>6, <1>7 DEF IInv

LEMMA StepHandler ==
  ASSUME IInv,
         \/ StartSignalHandler \/ Stop \/ Joined \/ Exit \/ PollNothing \/ SignalTimeout \/ Signalled
         \/ Notify \/ Called \/ \E b \in Callbacks : Call(b) \/ Register(b) \/ Unregister(b)
  PROVE  IInv'
<1> USE ProcessAssumption
<1>0. ProcessType /\ HandlerInv /\ CallInv
  BY DEF IInv
<1>1. CASE StartSignalHandler \/ Stop \/ Joined \/ Exit \/ PollNothing \/ SignalTimeout \/ Called
  <2>1. /\ UNCHANGED <<started, pid, state, status, reused, kept, child, result, current, toCall, registered, told>>
        /\ \/ caller' = caller /\ (handler = "notify" => handler' = "notify")
           \/ WakeAll
        /\ handler' = handler \/ handler' \notin Busy
        /\ handler = "call" => handler' = "call" \/ toCall = {}
    BY <1>1 DEF StartSignalHandler, Stop, Joined, Exit, PollNothing, SignalTimeout, Called, kernel,
       collector, callers, Busy
  <2>2. HandlerInv' /\ CallInv'
    BY <1>0, <2>1 DEF HandlerInv, CallInv, Busy
  <2> QED
    BY <1>0, <2>1, <2>2, OnlyWakes DEF ProcessType, Busy
<1>2. CASE Signalled
  <2>1. /\ UNCHANGED <<started, pid, state, status, reused, kept, toCall, registered, told, caller, child, result>>
        /\ handler = "sigwait"
        /\ \/ handler' = "poll"
           \/ handler' = "waitpid" /\ current' \in {c \in Children : state[c] \in {"running", "zombie"}}
    BY <1>2 DEF Signalled, kernel, callers
  <2>2. HandlerInv' /\ CallInv'
    BY <1>0, <2>1 DEF HandlerInv, CallInv, Busy, ProcessType, Children
  <2> QED
    BY <1>0, <2>1, <2>2, OnlyWakes DEF ProcessType
<1>3. CASE Notify
  <2>1. /\ UNCHANGED <<started, pid, state, status, reused, kept, current, registered, told, child, result>>
        /\ handler = "notify" /\ handler' = "call" /\ toCall' = registered /\ WakeAll
    BY <1>3 DEF Notify, kernel
  <2>2. HandlerInv' /\ CallInv'
    BY <1>0, <2>1 DEF HandlerInv, CallInv, Busy
  <2> QED
    BY <1>0, <2>1, <2>2, OnlyWakes DEF ProcessType
<1>4. ASSUME NEW b \in Callbacks, Call(b) PROVE IInv'
  <2>1. /\ UNCHANGED <<started, pid, state, status, reused, kept, handler, current, registered, caller, child, result>>
        /\ handler = "call" /\ b \in toCall
        /\ told' = [told EXCEPT ![b] = told[b] \cup {current}]
        /\ toCall' = IF b \in Throwing THEN {} ELSE toCall \ {b}
    BY <1>4 DEF Call, kernel, callers
  <2>2. current \in Children /\ b \in registered
    BY <1>0, <2>1 DEF HandlerInv, CallInv, Busy, ProcessType, Children
  <2>3. told' \in [Callbacks -> SUBSET Children]
    BY <1>0, <2>1, <2>2 DEF ProcessType
  <2>4. \A a \in Callbacks : told'[a] = IF a = b THEN told[b] \cup {current} ELSE told[a]
    BY <1>0, <2>1 DEF ProcessType
  <2>5. CallInv'
    <3>1. toCall' \subseteq registered' /\ handler' = "call"
      BY <1>0, <2>1 DEF CallInv
    <3>2. ASSUME Throwing \cap registered = {}, NEW a \in registered \ toCall' PROVE current \in told'[a]
      <4>1. toCall' = toCall \ {b} /\ a \in Callbacks
        BY <1>0, <2>1, <2>2, <3>2 DEF ProcessType
      <4> QED
        BY <1>0, <2>1, <2>4, <3>2, <4>1 DEF CallInv
    <3> QED
      BY <2>1, <3>1, <3>2 DEF CallInv
  <2>6. HandlerInv'
    BY <1>0, <2>1 DEF HandlerInv
  <2> QED
    BY <1>0, <2>1, <2>3, <2>5, <2>6, OnlyWakes DEF ProcessType
<1>5. ASSUME NEW b \in Callbacks, Register(b) \/ Unregister(b) PROVE IInv'
  <2>1. /\ UNCHANGED <<started, pid, state, status, reused, kept, handler, current, toCall, told, caller, child, result>>
        /\ handler # "call" /\ registered' \subseteq registered \cup {b}
    BY <1>5 DEF Register, Unregister, CallbacksMutexFree, kernel, collector, callers
  <2>2. HandlerInv' /\ CallInv' /\ registered' \subseteq Callbacks
    BY <1>0, <2>1 DEF HandlerInv, CallInv, ProcessType
  <2> QED
    BY <1>0, <2>1, <2>2, OnlyWakes DEF ProcessType
<1> QED
  BY <1>1, <1>2, <1>3, <1>4, <1>5

(* A child ends or is collected, its output is closed, or a minute passes. *)
LEMMA StepChild ==
  ASSUME IInv,
         \/ \E c \in Children : Poll(c) \/ ClosePipe(c) \/ \E s \in Statuses : End(c, s)
         \/ WaitPid \/ Minute
  PROVE  IInv'
<1> USE ProcessAssumption
<1>0. ProcessType /\ CallerType /\ HandlerInv /\ CallInv
  BY DEF IInv
<1>1. CASE Minute \/ \E c \in Children : ClosePipe(c)
  <2>1. /\ UNCHANGED <<started, pid, state, status, reused, handler, current, toCall, registered, told, caller, child, result>>
        /\ kept' = kept \/ kept' = [p \in DOMAIN kept |-> <<kept[p][1], TRUE>>]
    BY <1>1 DEF ClosePipe, Minute, kernel, collector, callers
  <2>2. DOMAIN kept' = DOMAIN kept /\ \A p \in DOMAIN kept : kept'[p][1] = kept[p][1]
    <3>1. CASE kept' = [p \in DOMAIN kept |-> <<kept[p][1], TRUE>>]
      BY <3>1
    <3> QED
      BY <2>1, <3>1
  <2>3. ProcessType' /\ CallerType' /\ HandlerInv' /\ CallInv'
    BY <1>0, <2>1 DEF ProcessType, CallerType, HandlerInv, CallInv, Active
  <2>4. OthersGone' /\ KeptIsOwn'
    BY <2>1, <2>2, OwnStays DEF Active
  <2>5. ResultIsOwn'
    BY <2>1, ResultStays
  <2>6. SleepInv' /\ NoLostWakeup'
    BY <2>1, <2>2 DEF IInv, SleepInv, NoLostWakeup, KeptFor
  <2> QED
    BY <2>3, <2>4, <2>5, <2>6 DEF IInv
<1>2. ASSUME NEW c \in Children, Poll(c) \/ (WaitPid /\ c = current) PROVE IInv'
  <2>1. /\ UNCHANGED <<started, pid, status, reused, toCall, kept, registered, told, caller, child, result>>
        /\ handler \in {"poll", "waitpid"} /\ state[c] = "zombie" /\ handler' = "keep" /\ current' = c
        /\ state' = [state EXCEPT ![c] = "reaped"]
    BY <1>2 DEF Poll, WaitPid, Reap, callers
  <2>2. \A d \in Children : state'[d] = IF d = c THEN "reaped" ELSE state[d]
    BY <1>0, <2>1 DEF ProcessType
  <2>3. ProcessType'
    BY <1>0, <1>2, <2>1, <2>2 DEF ProcessType
  <2>4. CallerType'
    BY <1>0, <2>1 DEF CallerType, Active
  <2>5. HandlerInv' /\ CallInv'
    BY <1>0, <2>1, <2>2 DEF HandlerInv, CallInv, ProcessType, Children
  <2>6. OthersGone' /\ KeptIsOwn'
    BY <2>1, <2>2, OwnStays DEF Active
  <2>7. ResultIsOwn'
    BY <2>1, <2>2, ResultStays
  <2>8. SleepInv' /\ NoLostWakeup'
    BY <2>1 DEF IInv, SleepInv, NoLostWakeup, KeptFor
  <2> QED
    BY <2>3, <2>4, <2>5, <2>6, <2>7, <2>8 DEF IInv
<1>3. ASSUME NEW c \in Children, NEW s \in Statuses, End(c, s) PROVE IInv'
  <2>1. /\ UNCHANGED <<started, pid, reused, handler, current, toCall, kept, registered, told, caller, child, result>>
        /\ state[c] = "running"
        /\ state' = [state EXCEPT ![c] = "zombie"] /\ status' = [status EXCEPT ![c] = s]
    BY <1>3 DEF End, collector, callers
  <2>2. \A d \in Children : /\ state'[d] = IF d = c THEN "zombie" ELSE state[d]
                            /\ status'[d] = IF d = c THEN s ELSE status[d]
    BY <1>0, <2>1 DEF ProcessType
  <2>3. ProcessType'
    BY <1>0, <1>3, <2>1, <2>2 DEF ProcessType
  <2>4. CallerType'
    BY <1>0, <2>1 DEF CallerType, Active
  <2>5. HandlerInv' /\ CallInv'
    BY <1>0, <2>1, <2>2 DEF HandlerInv, CallInv, ProcessType, Children, Busy
  <2>6. OthersGone' /\ KeptIsOwn'
    BY <2>1, <2>2, OwnStays DEF Active
  <2>7. ResultIsOwn'
    BY <2>1, <2>2, ResultStays
  <2>8. SleepInv' /\ NoLostWakeup'
    BY <2>1 DEF IInv, SleepInv, NoLostWakeup, KeptFor
  <2> QED
    BY <2>3, <2>4, <2>5, <2>6, <2>7, <2>8 DEF IInv
<1>4. WaitPid => current \in Children
  BY <1>0 DEF WaitPid, HandlerInv, Busy, ProcessType, Children
<1> QED
  BY <1>1, <1>2, <1>3, <1>4

(* The exit code that is written down is that of the caller's own child    *)
(* whenever the process id is.                                             *)
LEMMA StepKeep == IInv /\ Keep => IInv'
<1> SUFFICES ASSUME IInv, Keep PROVE IInv'
  OBVIOUS
<1> USE ProcessAssumption
<1>0. ProcessType /\ CallerType /\ HandlerInv /\ CallInv
  BY DEF IInv
<1>1. /\ UNCHANGED <<started, pid, state, status, reused, current, toCall, registered, told, caller, child, result>>
      /\ handler = "keep" /\ handler' = "notify" /\ \A t \in Callers : caller[t] # "asleepSoon"
  BY DEF Keep, StatusMutexFree, kernel, callers
<1>2. /\ DOMAIN kept' \subseteq DOMAIN kept \cup {pid[current]}
      /\ kept'[pid[current]][1] = ExitCode(status[current])
      /\ \A p \in DOMAIN kept' : p # pid[current] => p \in DOMAIN kept /\ kept'[p] = kept[p]
  BY DEF Keep, Expired
<1>3. ProcessType' /\ CallerType'
  BY <1>0, <1>1 DEF ProcessType, CallerType, Active
<1>4. HandlerInv' /\ CallInv'
  BY <1>0, <1>1 DEF HandlerInv, CallInv, Busy
<1>5. OthersGone'
  BY <1>1 DEF IInv, OthersGone, Active
<1>6. KeptIsOwn'
  <2> SUFFICES ASSUME ~reused, NEW t \in Callers, Active(t), pid[child[t]] \in DOMAIN kept'
               PROVE  state[child[t]] = "reaped" /\ kept'[pid[child[t]]][1] = ExitCode(status[child[t]])
    BY <1>1 DEF KeptIsOwn, KeptFor, Active
  <2>1. current \in Children /\ state[current] = "reaped"
    BY <1>0, <1>1 DEF HandlerInv, Busy, ProcessType, Children
  <2>2. CASE pid[child[t]] = pid[current]
    <3>1. current = child[t]
      BY <1>1, <2>1, <2>2 DEF IInv, OthersGone
    <3> QED
      BY <1>2, <2>1, <3>1
  <2>3. CASE pid[child[t]] # pid[current]
    BY <1>2, <2>3 DEF IInv, KeptIsOwn, KeptFor
  <2> QED
    BY <2>2, <2>3
<1>7. ResultIsOwn'
  BY <1>1, ResultStays
<1>8. SleepInv' /\ NoLostWakeup'
  BY <1>1 DEF SleepInv, NoLostWakeup
<1> QED
  BY <1>3, <1>4, <1>5, <1>6, <1>7, <1>8 DEF IInv

(* A new child has an id nobody has a use for, or reused is set.           *)
LEMMA StepFork ==
  ASSUME IInv, NEW p \in Pids, System(p) \/ \E t \in Callers : Exec(t, p)
  PROVE  IInv'
<1> USE ProcessAssumption
<1>0. ProcessType /\ CallerType /\ HandlerInv /\ CallInv
  BY DEF IInv
<1> DEFINE n == started + 1
<1>1. /\ started' = n /\ n \in Children /\ n \notin 1 .. started /\ p \notin PidsInUse
      /\ pid' = [pid EXCEPT ![n] = p] /\ state' = [state EXCEPT ![n] = "running"]
      /\ ~reused' => ~reused /\ p \notin PidsRemembered
      /\ UNCHANGED <<status, handler, current, toCall, kept, registered, told, result>>
  <2>1. PICK open \in BOOLEAN : /\ Fork(p, open)
                               /\ UNCHANGED <<collector, kept, registered, told, result>>
    BY DEF System, Exec, callers
  <2>2. n \in Children /\ n \notin 1 .. started
    BY <1>0, <2>1 DEF Fork, ProcessType, Children
  <2> QED
    BY <2>1, <2>2 DEF Fork, collector
<1>2. \/ UNCHANGED <<caller, child>>
      \/ \E t \in Callers : /\ caller[t] = "idle" /\ caller' = [caller EXCEPT ![t] = "read"]
                            /\ child' = [child EXCEPT ![t] = n]
  BY <1>1 DEF System, Exec, Fork, callers
<1> HIDE DEF n
<1>3. /\ \A d \in Children : /\ pid'[d] = IF d = n THEN p ELSE pid[d]
                             /\ state'[d] = IF d = n THEN "running" ELSE state[d]
      /\ state[n] = "none" /\ n \in Nat /\ 1 .. started' = (1 .. started) \cup {n} /\ 1 .. started \subseteq Children
  BY <1>0, <1>1 DEF ProcessType, n, Children
<1>4. /\ caller' \in [Callers -> CallerStates] /\ child' \in [Callers -> 0 .. MaxChildren]
      /\ \A t \in Callers : \/ caller'[t] = caller[t] /\ child'[t] = child[t]
                            \/ caller[t] = "idle" /\ caller'[t] = "read" /\ child'[t] = n
  BY <1>0, <1>1, <1>2 DEF CallerType, CallerStates, Children
<1>5. ProcessType'
  <2>1. started' \in 0 .. MaxChildren
    BY <1>1 DEF Children
  <2>2. /\ pid' \in [Children -> Pids \cup {NoPid}]
        /\ state' \in [Children -> {"none", "running", "zombie", "reaped"}]
    BY <1>0, <1>1 DEF ProcessType
  <2>3. \A c \in Children : (c > started' <=> c > started /\ c # n)
    BY <1>0, <1>1 DEF ProcessType, n, Children
  <2> QED
    BY <1>0, <1>1, <1>3, <2>1, <2>2, <2>3 DEF ProcessType
<1>6. CallerType'
  BY <1>0, <1>1, <1>3, <1>4 DEF CallerType, CallerStates, Active
<1>7. HandlerInv' /\ CallInv'
  BY <1>0, <1>1, <1>3 DEF HandlerInv, CallInv
<1>8. \A t \in Callers : Active(t) => child[t] \in 1 .. started /\ child[t] # n /\ pid'[child[t]] = pid[child[t]]
  BY <1>0, <1>1, <1>3 DEF CallerType
<1>9. OthersGone'
  <2> SUFFICES ASSUME ~reused', NEW t \in Callers, NEW d \in Children, Active(t)',
                      d # child'[t], pid'[d] = pid'[child'[t]]
               PROVE  state'[d] = "reaped" /\ ~(handler = "keep" /\ current = d)
    BY <1>1 DEF OthersGone
  <2>1. /\ pid[d] = p /\ d \in 1 .. started => state[d] = "reaped" /\ ~(handler = "keep" /\ current = d)
        /\ Active(t) => pid[child[t]] # p
    <3>1. state[d] \in {"none", "running", "zombie", "reaped"} /\ (d \in 1 .. started => state[d] # "none")
      BY <1>0 DEF ProcessType, Children
    <3> QED
      BY <1>1, <3>1 DEF PidsInUse, PidsRemembered, Active
  <2>2. CASE Active(t) /\ child'[t] = child[t]
    <3>1. d # n
      BY <1>3, <1>8, <2>1, <2>2
    <3> QED
      BY <1>1, <1>3, <1>8, <2>2, <3>1 DEF IInv, OthersGone
  <2>3. CASE child'[t] = n
    <3>1. d # n /\ pid[d] = p /\ pid[d] # NoPid
      BY <1>1, <1>3, <2>3
    <3>2. d \in 1 .. started
      BY <1>0, <3>1 DEF ProcessType, Children
    <3> QED
      BY <1>3, <2>1, <3>1, <3>2
  <2> QED
    BY <1>4, <2>2, <2>3 DEF Active
<1>10. KeptIsOwn'
  <2> SUFFICES ASSUME ~reused', NEW t \in Callers, Active(t)', pid'[child'[t]] \in DOMAIN kept
               PROVE  /\ state'[child'[t]] = "reaped"
                      /\ kept[pid'[child'[t]]][1] = ExitCode(status[child'[t]])
    BY <1>1 DEF KeptIsOwn, KeptFor
  <2>1. child'[t] # n
    BY <1>1, <1>3 DEF PidsRemembered
  <2>2. Active(t) /\ child'[t] = child[t]
    BY <1>4, <2>1 DEF Active
  <2> QED
    BY <1>1, <1>3, <1>8, <2>2 DEF IInv, KeptIsOwn, KeptFor
<1>11. ResultIsOwn'
  BY <1>1, <1>3, <1>4, ResultStays
<1>12. SleepInv' /\ NoLostWakeup'
  <2>1. ASSUME NEW t \in Callers, caller'[t] \in {"asleepSoon", "asleep"}
        PROVE  caller'[t] = caller[t] /\ child'[t] = child[t] /\ pid'[child[t]] = pid[child[t]]
    BY <1>4, <1>8, <2>1 DEF Active
  <2> QED
    BY <1>1, <2>1 DEF IInv, SleepInv, NoLostWakeup, KeptFor
<1> QED
  BY <1>5, <1>6, <1>7, <1>9, <1>10, <1>11, <1>12 DEF IInv

LEMMA StepCaller ==
  ASSUME IInv, NEW t \in Callers, ForkFails(t) \/ CallerStep(t)
  PROVE  IInv'
<1> USE ProcessAssumption
<1>0. ProcessType /\ CallerType /\ HandlerInv /\ CallInv
  BY DEF IInv
<1>1. /\ UNCHANGED <<started, pid, state, status, reused, handler, current, toCall, kept, registered, told, child>>
      /\ \A u \in Callers \ {t} : caller'[u] = caller[u] /\ result'[u] = result[u]
      /\ caller' \in [Callers -> CallerStates] /\ DOMAIN result' = Callers
      /\ caller'[t] \notin {"idle", "done"} => Active(t)
      /\ caller'[t] = "asleepSoon" => ~KeptFor(t)
      /\ caller'[t] = "asleep" => caller[t] = "asleepSoon"
      /\ caller'[t] = "done" => \/ result'[t] = Failed
                                \/ caller[t] = "look" /\ KeptFor(t) /\ result'[t] = kept[pid[child[t]]][1]
  <2>1. CASE ForkFails(t) \/ Stopped(t)
    BY <1>0, <2>1 DEF ForkFails, Stopped, Return, kernel, collector, CallerType, CallerStates
  <2>2. CASE Found(t)
    BY <1>0, <2>2 DEF Found, Return, kernel, collector, CallerType, CallerStates
  <2>3. CASE OutputRead(t) \/ TestStop(t) \/ Timeout(t)
    BY <1>0, <2>3 DEF OutputRead, TestStop, Timeout, kernel, collector, CallerType, CallerStates, Active
  <2>4. CASE NotFound(t) \/ Sleep(t)
    BY <1>0, <2>4 DEF NotFound, Sleep, kernel, collector, CallerType, CallerStates, Active
  <2> QED
    BY <2>1, <2>2, <2>3, <2>4 DEF CallerStep
<1>2. \A u \in Callers : Active(u)' => Active(u)
  BY <1>1 DEF Active
<1>3. CallerType'
  <2>1. \A u \in Callers : Active(u)' => child'[u] \in 1 .. started'
    BY <1>0, <1>1, <1>2 DEF CallerType
  <2>2. ASSUME NEW u \in Callers, caller'[u] = "done"
        PROVE  result'[u] = Failed \/ child'[u] \in 1 .. started'
    BY <1>0, <1>1, <2>2 DEF CallerType, Active
  <2> QED
    BY <1>0, <1>1, <2>1, <2>2 DEF CallerType, CallerStates
<1>4. ProcessType' /\ HandlerInv' /\ CallInv'
  BY <1>0, <1>1 DEF ProcessType, HandlerInv, CallInv
<1>5. OthersGone' /\ KeptIsOwn'
  BY <1>1, OwnStays DEF Active
<1>6. ResultIsOwn'
  BY <1>1, ResultStays DEF Active
<1>7. SleepInv' /\ NoLostWakeup'
  BY <1>1 DEF IInv, SleepInv, NoLostWakeup, KeptFor
<1> QED
  BY <1>3, <1>4, <1>5, <1>6, <1>7 DEF IInv

LEMMA StepInv == IInv /\ [Next]_vars => IInv'
<1> SUFFICES ASSUME IInv, [Next]_vars PROVE IInv'
  OBVIOUS
<1>1. CASE Next
  BY <1>1, StepHandler, StepChild, StepKeep, StepFork, StepCaller DEF Next, HandlerStep
<1>2. CASE UNCHANGED vars
  <2>1. /\ UNCHANGED <<started, pid, state, status, reused, kept, caller, child, result, handler, current>>
        /\ UNCHANGED <<toCall, told, registered>>
    BY <1>2 DEF vars, kernel, collector, callers
  <2>2. HandlerInv' /\ CallInv'
    BY <2>1 DEF IInv, HandlerInv, CallInv
  <2>3. told' \in [Callbacks -> SUBSET Children] /\ registered' \subseteq Callbacks
    BY <2>1 DEF IInv, ProcessType
  <2> QED
    BY <2>1, <2>2, <2>3, OnlyWakes
<1> QED
  BY <1>1, <1>2
-----------------------------------------------------------------------------
(* exec() returns the exit code of its own child, or fails, and does not   *)
(* sleep while that exit code is kept, for any number of callers that run  *)
(* beside other children, until a process id comes back too soon.          *)
THEOREM ExecGetsStatusCorrect == Spec => []ExecGetsStatus
<1>1. IInv => ExecGetsStatus
  BY DEF IInv, ResultIsOwn, OwnStatus, ExecGetsStatus
<1> QED
  BY InitInv, StepInv, <1>1, PTL DEF Spec

(* No callback is told of a child when it is not registered, and when the  *)
(* handler is done with a child all that are registered know of it.        *)
THEOREM ToldExactlyCorrect == Spec => ToldExactly
<1> DEFINE Told ==
       /\ \A b \in Callbacks : told'[b] # told[b] => b \in registered
       /\ handler = "call" /\ handler' = "poll" /\ Throwing \cap registered = {}
            => \A b \in registered : current \in told[b]
<1>1. IInv /\ [Next]_vars => [Told]_vars
  <2> SUFFICES ASSUME IInv, Next PROVE Told
    OBVIOUS
  <2>1. CASE \E b \in Callbacks : Call(b)
    <3>1. PICK b \in Callbacks : Call(b)
      BY <2>1
    <3>2. b \in registered /\ handler' = "call" /\ told' = [told EXCEPT ![b] = told[b] \cup {current}]
      BY <3>1 DEF Call, IInv, CallInv
    <3> QED
      BY <3>2 DEF IInv, ProcessType
  <2>2. CASE Called
    BY <2>2 DEF Called, IInv, CallInv
  <2>3. CASE ~Called /\ ~\E b \in Callbacks : Call(b)
    <3>1. told' = told
      BY <2>3 DEF Next, HandlerStep, CallerStep, End, ClosePipe, Minute, StartSignalHandler, Stop, Joined,
         Exit, Poll, PollNothing, SignalTimeout, Signalled, WaitPid, Keep, Notify, Register, Unregister,
         System, Exec, ForkFails, OutputRead, TestStop, Found, Stopped, NotFound, Sleep, Timeout, Return
    <3>2. handler = "call" => handler' = "call"
      BY <2>3 DEF Next, HandlerStep, CallerStep, End, ClosePipe, Minute, StartSignalHandler, Stop, Joined,
         Exit, Poll, PollNothing, SignalTimeout, Signalled, WaitPid, Keep, Notify, Register, Unregister,
         System, Exec, ForkFails, OutputRead, TestStop, Found, Stopped, NotFound, Sleep, Timeout, Return,
         collector
    <3> QED
      BY <3>1, <3>2
  <2> QED
    BY <2>1, <2>2, <2>3
<1>2. Spec => []IInv
  BY InitInv, StepInv, PTL DEF Spec
<1> QED
  BY <1>1, <1>2, PTL DEF Spec, ToldExactly
=============================================================================
