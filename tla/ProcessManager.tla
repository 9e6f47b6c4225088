----------------------------- MODULE ProcessManager -----------------------------
(***************************************************************************)
(* Child processes of BaseLib::ProcessManager: callers run exec(), which   *)
(* starts a program, reads its output and waits for its exit status; one   *)
(* thread, signalHandler(), collects the children that ended, keeps their  *)
(* exit statuses by process id and calls the registered callbacks.         *)
(*                                                                         *)
(* The kernel is modelled as this code meets it: an ended child is a       *)
(* zombie until waitpid() collects it, its process id is then free for     *)
(* another child, and SIGCHLD is blocked and pending at most once.         *)
(* Children are numbered in the order they are started.                    *)
(***************************************************************************)
EXTENDS Naturals

CONSTANTS
  Callers,      \* threads that call exec()
  Pids,         \* process ids
  NoPid,        \* none of them
  Callbacks,    \* callback handlers
  Throwing,     \* the callback handlers that throw
  Statuses,     \* how a child ends: "exit0", "exit1" or "signal"
  MaxChildren   \* bound on the children started

ASSUME ProcessAssumption ==
  /\ NoPid \notin Pids /\ MaxChildren \in Nat /\ Statuses \subseteq {"exit0", "exit1", "signal"}
  /\ Throwing \subseteq Callbacks

Children == 1 .. MaxChildren
Failed == 256    \* any value that is no exit code, for the -1 of exec()

(* WEXITSTATUS is zero also for a child that was ended by a signal.        *)
ExitCode(s) == IF s = "exit1" THEN 1 ELSE 0

VARIABLES
  started,    \* number of children started
  pid,        \* the process id of each child
  state,      \* of each child: "none", "running", "zombie" or "reaped"
  status,     \* how each child ended
  pipe,       \* children whose output is open
  reused,     \* history: a process id was used again too soon
  signal,     \* the process id in the pending SIGCHLD, or NoPid
  stop,       \* _stopSignalHandlerThread
  handler,    \* where the signal handler thread is
  current,    \* the child it collected, or the one it waits for
  kept,       \* _lastExitStatus: from process ids to exit code and age
  registered, \* _callbackHandlers
  toCall,     \* callbacks still to be called, in the loop that holds the mutex
  told,       \* the children each callback was told of
  caller, child, result  \* where each caller is, its child and its result

kernel == <<started, pid, state, status, pipe, reused>>
collector == <<handler, current, toCall>>
callers == <<caller, child, result>>
vars == <<kernel, signal, stop, collector, kept, registered, told, callers>>

TypeOK ==
  /\ started \in 0 .. MaxChildren
  /\ pid \in [Children -> Pids \cup {NoPid}] /\ status \in [Children -> Statuses \cup {"none"}]
  /\ state \in [Children -> {"none", "running", "zombie", "reaped"}]
  /\ pipe \subseteq Children /\ signal \in Pids \cup {NoPid} /\ stop \in BOOLEAN /\ reused \in BOOLEAN
  /\ handler \in {"none", "poll", "sigwait", "waitpid", "keep", "notify", "call", "exited", "joined"}
  /\ current \in 0 .. MaxChildren
  /\ DOMAIN kept \subseteq Pids /\ \A p \in DOMAIN kept : kept[p] \in {0, 1} \X BOOLEAN
  /\ registered \subseteq Callbacks /\ toCall \subseteq Callbacks
  /\ told \in [Callbacks -> SUBSET Children]
  /\ caller \in [Callers -> {"idle", "read", "test", "look", "asleepSoon", "asleep", "done"}]
  /\ child \in [Callers -> 0 .. MaxChildren] /\ result \in [Callers -> {0, 1, Failed}]

Init ==
  /\ started = 0 /\ pid = [c \in Children |-> NoPid]
  /\ state = [c \in Children |-> "none"] /\ status = [c \in Children |-> "none"]
  /\ pipe = {} /\ reused = FALSE /\ signal = NoPid /\ stop = TRUE
  /\ handler = "none" /\ current = 0 /\ toCall = {}
  /\ kept = [p \in {} |-> <<0, FALSE>>] /\ registered = {}
  /\ told = [b \in Callbacks |-> {}]
  /\ caller = [t \in Callers |-> "idle"] /\ child = [t \in Callers |-> 0]
  /\ result = [t \in Callers |-> Failed]

-----------------------------------------------------------------------------
(* The kernel.                                                             *)

PidsInUse == {pid[c] : c \in {c \in Children : state[c] \in {"running", "zombie"}}}
(* The ids this code still has a use for: kernels hand out all others      *)
(* first, but nothing makes them.                                          *)
PidsRemembered ==
  DOMAIN kept \cup {signal} \cup (IF handler = "keep" THEN {pid[current]} ELSE {})
    \cup {pid[child[t]] : t \in {t \in Callers : caller[t] \notin {"idle", "done"}}}

Fork(p, open) ==
  /\ started < MaxChildren /\ p \notin PidsInUse
  /\ started' = started + 1
  /\ pid' = [pid EXCEPT ![started'] = p]
  /\ state' = [state EXCEPT ![started'] = "running"]
  /\ pipe' = pipe \cup (IF open THEN {started'} ELSE {})
  /\ reused' = (reused \/ p \in PidsRemembered)
  /\ UNCHANGED status

(* A child ends; a SIGCHLD that is pending already stays as it is.  Its    *)
(* output is closed unless a grandchild has it, too.                       *)
End(c, s) ==
  /\ state[c] = "running"
  /\ state' = [state EXCEPT ![c] = "zombie"] /\ status' = [status EXCEPT ![c] = s]
  /\ pipe' \in {pipe, pipe \ {c}}
  /\ signal' = IF signal = NoPid THEN pid[c] ELSE signal
  /\ UNCHANGED <<started, pid, reused, stop, collector, kept, registered, told, callers>>

(* A grandchild closes the output at last.                                 *)
ClosePipe(c) ==
  /\ c \in pipe /\ state[c] \in {"zombie", "reaped"} /\ pipe' = pipe \ {c}
  /\ UNCHANGED <<started, pid, state, status, reused, signal, stop, collector, kept, registered, told, callers>>

(* A minute passes; a caller that can go on needs less.                    *)
Minute ==
  /\ \A t \in Callers :
       /\ caller[t] \notin {"test", "look", "asleepSoon"}
       /\ caller[t] = "read" => child[t] \in pipe
       /\ caller[t] = "asleep" => pid[child[t]] \notin DOMAIN kept
  /\ kept # [p \in DOMAIN kept |-> <<kept[p][1], TRUE>>]
  /\ kept' = [p \in DOMAIN kept |-> <<kept[p][1], TRUE>>]
  /\ UNCHANGED <<kernel, signal, stop, collector, registered, told, callers>>

-----------------------------------------------------------------------------
(* signalHandler() and its thread, which is started once.                  *)

StartSignalHandler ==
  /\ handler = "none" /\ handler' = "poll" /\ stop' = FALSE
  /\ UNCHANGED <<kernel, signal, current, toCall, kept, registered, told, callers>>

(* stopSignalHandler() joins the thread before it wakes the callers.       *)
Stop ==
  /\ ~stop /\ stop' = TRUE
  /\ UNCHANGED <<kernel, signal, collector, kept, registered, told, callers>>

WakeAll == caller' = [t \in Callers |-> IF caller[t] = "asleep" THEN "look" ELSE caller[t]]

Joined ==
  /\ stop /\ handler = "exited" /\ handler' = "joined"
  /\ WakeAll
  /\ UNCHANGED <<kernel, signal, stop, current, toCall, kept, registered, told, child, result>>

Exit ==
  /\ handler = "poll" /\ stop /\ handler' = "exited"
  /\ UNCHANGED <<kernel, signal, stop, current, toCall, kept, registered, told, callers>>

Reap(c) == state' = [state EXCEPT ![c] = "reaped"] /\ UNCHANGED <<started, pid, status, pipe, reused>>

\* mutant: only signals are waited for
PollNever(c) == FALSE /\ state[c] = "zombie" /\ UNCHANGED vars

Poll(c) ==
  /\ handler = "poll" /\ ~stop /\ state[c] = "zombie"
  /\ Reap(c) /\ handler' = "keep" /\ current' = c
  /\ UNCHANGED <<signal, stop, toCall, kept, registered, told, callers>>

PollNothing ==
  /\ handler = "poll" /\ ~stop /\ \A c \in Children : state[c] # "zombie"
  /\ handler' = "sigwait"
  /\ UNCHANGED <<kernel, signal, stop, current, toCall, kept, registered, told, callers>>

SignalTimeout ==
  /\ handler = "sigwait" /\ signal = NoPid /\ handler' = "poll"
  /\ UNCHANGED <<kernel, signal, stop, current, toCall, kept, registered, told, callers>>

(* The signal may be about a child that was collected before; waitpid()    *)
(* then fails, unless another child has the same process id.               *)
Signalled ==
  /\ handler = "sigwait" /\ signal # NoPid /\ signal' = NoPid
  /\ LET same == {c \in Children : pid[c] = signal /\ state[c] \in {"running", "zombie"}}
     IN IF same = {} THEN handler' = "poll" /\ UNCHANGED current
        ELSE handler' = "waitpid" /\ current' \in same
  /\ UNCHANGED <<kernel, stop, toCall, kept, registered, told, callers>>

WaitPid ==
  /\ handler = "waitpid" /\ state[current] = "zombie"
  /\ Reap(current) /\ handler' = "keep"
  /\ UNCHANGED <<signal, stop, current, toCall, kept, registered, told, callers>>

\* mutant: the handler does not take _lastExitStatusMutex
StatusMutexIgnored == \A t \in Callers : caller[t] # "none"

(* _lastExitStatusMutex is held from a look at the statuses to the sleep.  *)
StatusMutexFree == \A t \in Callers : caller[t] # "asleepSoon"

\* mutant: every other status is erased
ExpiredAll == DOMAIN kept \ {pid[current]}

Expired == {p \in DOMAIN kept : kept[p][2] /\ p # pid[current]}

Keep ==
  /\ handler = "keep" /\ StatusMutexFree
  /\ kept' = [p \in (DOMAIN kept \ Expired) \cup {pid[current]} |->
                IF p = pid[current] THEN <<ExitCode(status[current]), FALSE>> ELSE kept[p]]
  /\ handler' = "notify"
  /\ UNCHANGED <<kernel, signal, stop, current, toCall, registered, told, callers>>

Notify ==
  /\ handler = "notify" /\ WakeAll
  /\ handler' = "call" /\ toCall' = registered
  /\ UNCHANGED <<kernel, signal, stop, current, kept, registered, told, child, result>>

(* What a callback throws is caught outside the loop over the callbacks.   *)
Call(b) ==
  /\ handler = "call" /\ b \in toCall
  /\ told' = [told EXCEPT ![b] = @ \cup {current}]
  /\ toCall' = IF b \in Throwing THEN {} ELSE toCall \ {b}
  /\ UNCHANGED <<kernel, signal, stop, handler, current, kept, registered, callers>>

Called ==
  /\ handler = "call" /\ toCall = {} /\ handler' = "poll"
  /\ UNCHANGED <<kernel, signal, stop, current, toCall, kept, registered, told, callers>>

\* mutant: the callbacks are called without the mutex
CallbacksMutexIgnored == handler # "none"

CallbacksMutexFree == handler # "call"

Register(b) ==
  /\ b \notin registered /\ CallbacksMutexFree /\ registered' = registered \cup {b}
  /\ UNCHANGED <<kernel, signal, stop, collector, kept, told, callers>>

Unregister(b) ==
  /\ b \in registered /\ CallbacksMutexFree /\ registered' = registered \ {b}
  /\ UNCHANGED <<kernel, signal, stop, collector, kept, told, callers>>

-----------------------------------------------------------------------------
(* system() and systemp() start a child and return; exec() waits for it.   *)

System(p) ==
  /\ Fork(p, FALSE)
  /\ UNCHANGED <<signal, stop, collector, kept, registered, told, callers>>

Exec(t, p) ==
  /\ caller[t] = "idle" /\ Fork(p, TRUE)
  /\ caller' = [caller EXCEPT ![t] = "read"] /\ child' = [child EXCEPT ![t] = started']
  /\ UNCHANGED <<result, signal, stop, collector, kept, registered, told>>

Return(t, r) ==
  /\ caller' = [caller EXCEPT ![t] = "done"] /\ result' = [result EXCEPT ![t] = r]
  /\ UNCHANGED <<kernel, signal, stop, collector, kept, registered, told, child>>

ForkFails(t) == caller[t] = "idle" /\ Return(t, Failed)

OutputRead(t) ==
  /\ caller[t] = "read" /\ child[t] \notin pipe
  /\ caller' = [caller EXCEPT ![t] = "test"]
  /\ UNCHANGED <<kernel, signal, stop, collector, kept, registered, told, child, result>>

(* The wait ends after a second at the latest.                             *)
Timeout(t) ==
  /\ caller[t] = "asleep" /\ caller' = [caller EXCEPT ![t] = "look"]
  /\ UNCHANGED <<kernel, signal, stop, collector, kept, registered, told, child, result>>

(* The loop tests the flag before it takes the mutex; what wait_for() and  *)
(* find() see under the mutex is seen at once.                             *)
TestStop(t) ==
  /\ caller[t] = "test" /\ ~stop
  /\ caller' = [caller EXCEPT ![t] = "look"]
  /\ UNCHANGED <<kernel, signal, stop, collector, kept, registered, told, child, result>>

KeptFor(t) == pid[child[t]] \in DOMAIN kept

\* mutant: whatever status is kept is taken
FoundAny(t) ==
  /\ caller[t] = "look" /\ StatusMutexFree
  /\ \E p \in DOMAIN kept : Return(t, kept[p][1])

Found(t) ==
  /\ caller[t] = "look" /\ KeptFor(t) /\ StatusMutexFree
  /\ Return(t, kept[pid[child[t]]][1])

Stopped(t) ==
  /\ stop
  /\ \/ caller[t] = "test"
     \/ caller[t] = "look" /\ ~KeptFor(t) /\ StatusMutexFree
  /\ Return(t, Failed)

NotFound(t) ==
  /\ caller[t] = "look" /\ ~KeptFor(t) /\ StatusMutexFree /\ ~stop
  /\ caller' = [caller EXCEPT ![t] = "asleepSoon"]
  /\ UNCHANGED <<kernel, signal, stop, collector, kept, registered, told, child, result>>

Sleep(t) ==
  /\ caller[t] = "asleepSoon" /\ caller' = [caller EXCEPT ![t] = "asleep"]
  /\ UNCHANGED <<kernel, signal, stop, collector, kept, registered, told, child, result>>

-----------------------------------------------------------------------------
HandlerStep ==
  \/ Exit
  \/ \E c \in Children : Poll(c)
  \/ PollNothing
  \/ SignalTimeout
  \/ Signalled
  \/ WaitPid
  \/ Keep
  \/ Notify
  \/ \E b \in Callbacks : Call(b)
  \/ Called

CallerStep(t) ==
  \/ OutputRead(t)
  \/ TestStop(t)
  \/ Found(t)
  \/ Stopped(t)
  \/ NotFound(t)
  \/ Sleep(t)
  \/ Timeout(t)

Next ==
  \/ \E c \in Children, s \in Statuses : End(c, s)
  \/ \E c \in Children : ClosePipe(c)
  \/ Minute
  \/ StartSignalHandler
  \/ Stop
  \/ Joined
  \/ HandlerStep
  \/ \E b \in Callbacks : Register(b)
  \/ \E b \in Callbacks : Unregister(b)
  \/ \E p \in Pids : System(p)
  \/ \E t \in Callers, p \in Pids : Exec(t, p)
  \/ \E t \in Callers : ForkFails(t)
  \/ \E t \in Callers : CallerStep(t)

Spec == Init /\ [][Next]_vars

(* The threads run, the callbacks return, waits end, and a thread that     *)
(* waits for _lastExitStatusMutex, which is held for moments only, gets it *)
(* (SF). Nothing is said of when children end or close their output.       *)
FairSpec ==
  /\ Spec /\ WF_vars(HandlerStep) /\ SF_vars(Keep) /\ WF_vars(Joined)
  /\ \A t \in Callers : SF_vars(CallerStep(t))

-----------------------------------------------------------------------------
(* exec() returns the exit code of the child it started, or fails: never   *)
(* the exit code of another child, unless a process id came back too soon. *)
OwnStatus ==
  ~reused => \A t \in Callers :
    caller[t] = "done" => result[t] = Failed \/ result[t] = ExitCode(status[child[t]])

(* A caller that sleeps while the status of its child is kept is about to  *)
(* be woken: no notification is lost between its look and its sleep.       *)
NoLostWakeup ==
  \A t \in Callers : caller[t] = "asleep" /\ KeptFor(t) => handler = "notify"

(* exec() gets what it waits for: the status of its own child, at once.    *)
ExecGetsStatus == OwnStatus /\ NoLostWakeup

(* No callback is told of a child once unregisterCallbackHandler() is done *)
(* with it, when its owner may be deleted; and when the handler is done    *)
(* with a child, every callback that is then registered has been told of   *)
(* it, as long as none of them throws.                                     *)
ToldExactly ==
  [][/\ \A b \in Callbacks : told'[b] # told[b] => b \in registered
     /\ handler = "call" /\ handler' = "poll" /\ Throwing \cap registered = {}
          => \A b \in registered : current \in told[b]]_vars

(* exec() returns when its child has ended and closed its output, unless a *)
(* process id came back too soon or the status had been kept for a minute  *)
(* by then: signalHandler() erases it, and exec() waits in vain.           *)
InTime(t) ==
  \/ state[child[t]] # "reaped"
  \/ handler = "keep" /\ current = child[t]
  \/ KeptFor(t) /\ ~kept[pid[child[t]]][2]
PromptExecReturns ==
  \A t \in Callers : caller[t] = "test" /\ InTime(t) ~> caller[t] = "done" \/ reused

(* Each registered callback is told of each child that ended, although     *)
(* signals of children that end together are merged.                       *)
EndedIsTold ==
  \A c \in Children, b \in Callbacks :
    state[c] = "zombie" /\ b \in registered
      ~> c \in told[b] \/ b \notin registered \/ stop \/ reused

(* Whoever waits for the end of a child learns of it.                      *)
EndIsNoticed == PromptExecReturns /\ EndedIsTold
=============================================================================
