-------------------------- MODULE SerialReaderWriter --------------------------
(***************************************************************************)
(* Opening, reading, losing and closing a serial device by                 *)
(* BaseLib::SerialReaderWriter.  Three threads run its code: "user", which *)
(* calls openDevice() and closeDevice(), "reader", which reads lines and   *)
(* reconnects when the device is lost, and "opener", which the reader      *)
(* starts to call openDevice() again and which starts the next reader.     *)
(*                                                                         *)
(* Two mutexes guard the two std::thread objects; they are locked by hand, *)
(* so an exception in between leaves them locked.  A std::thread object    *)
(* is joinable until it is joined, also when its thread has "exited".      *)
(***************************************************************************)
EXTENDS Integers

CONSTANTS
  MaxHandles,    \* bound on the users of the object
  MaxCalls,      \* bound on the calls of openDevice() by users
  Worlds         \* what may go wrong with the device, as far as known

ASSUME SerialAssumption ==
  /\ MaxHandles \in Nat /\ MaxCalls \in Nat
  /\ Worlds \subseteq {"calm", "apart", "lost", "rough"}

VARIABLES
  pc,              \* where each thread is
  handles,         \* _handles
  open,            \* the descriptor is valid
  stopReadThread,
  readMutex, openMutex,  \* _readThreadMutex and _openDeviceThreadMutex
  world,           \* one of Worlds, chosen at the start
  plugged,         \* the device can be opened
  users,           \* openDevice() calls that returned, minus closeDevice() calls
  calls

shared == <<handles, open, stopReadThread, readMutex, openMutex>>
device == <<world, plugged>>
serialVars == <<pc, shared, device, users, calls>>

Lost == world # "calm"               \* reading may fail, so that the descriptor is closed
Apart == world = "apart"             \* not during a call, and nobody calls while it is lost
Unplugged == world = "rough"         \* the device may be gone when it is opened again
SetupFails == world = "rough"        \* the lock file or the terminal settings are refused

Threads == {"user", "reader", "opener"}
OpenStates == {"openCount", "openFile", "openLock", "openJoin"}
CloseStates == {"closeCount", "closeLock", "closeJoin", "closeLock2", "closeJoin2", "closeFile"}
ReaderStates == {"loop", "read", "catch", "sleep", "reopenLock", "reopenJoin"}

SerialTypeOK ==
  /\ DOMAIN pc = Threads
  /\ pc["user"] \in OpenStates \cup CloseStates \cup {"none", "dead"}
  /\ pc["reader"] \in {"closeCount", "closeLock", "closeJoin"} \cup ReaderStates
                     \cup {"none", "exited", "dead"}
  /\ pc["opener"] \in OpenStates \cup {"none", "exited", "dead"}
  /\ handles \in -2 .. MaxHandles + MaxCalls
  /\ world \in Worlds
  /\ {open, stopReadThread, plugged} \subseteq BOOLEAN
  /\ {readMutex, openMutex} \subseteq Threads \cup {"free"}
  /\ users \in 0 .. MaxHandles /\ calls \in 0 .. MaxCalls

SerialInit ==
  /\ pc = [t \in Threads |-> "none"]
  /\ handles = 0 /\ open = FALSE /\ stopReadThread = FALSE
  /\ readMutex = "free" /\ openMutex = "free"
  /\ world \in Worlds /\ plugged = TRUE /\ users = 0 /\ calls = 0

Goto(t, from, to) == pc[t] = from /\ pc' = [pc EXCEPT ![t] = to]

(* A call returns: to the user, to the thread function, to the reader.     *)
Back(t) == CASE t = "user" -> "none" [] t = "reader" -> "sleep" [] t = "opener" -> "exited"

Joinable(t) == pc[t] # "none"
Joined(t) == pc[t] \in {"none", "exited"}

-----------------------------------------------------------------------------
(* openDevice()                                                            *)

Reconnecting ==
  \/ users > 0 /\ ~open
  \/ pc["reader"] \in {"sleep", "reopenLock", "reopenJoin"} \cup CloseStates
  \/ pc["opener"] \notin {"none", "exited"}

OpenCall ==
  /\ users < MaxHandles /\ calls < MaxCalls /\ (Apart => ~Reconnecting)
  /\ Goto("user", "none", "openCount")
  /\ calls' = calls + 1
  /\ UNCHANGED <<shared, device, users>>

CountUsersOnly(t) ==                   \* mutant: a reconnect is not counted
  handles' = IF t = "user" THEN handles + 1 ELSE handles
CountIn(t) == handles' = handles + 1

OpenCount(t) ==
  /\ CountIn(t)
  /\ Goto(t, "openCount", IF open THEN Back(t) ELSE "openFile")
  /\ users' = IF t = "user" /\ open THEN users + 1 ELSE users
  /\ UNCHANGED <<open, stopReadThread, readMutex, openMutex, device, calls>>

OpenFile(t) ==
  /\ plugged
  /\ Goto(t, "openFile", "openLock")
  /\ open' = TRUE
  /\ stopReadThread' = FALSE
  /\ UNCHANGED <<handles, readMutex, openMutex, device, users, calls>>

(* The exception leaves the handle counted and, after a failed setup, the  *)
(* descriptor open.  In the opener nothing catches it: std::terminate().   *)
OpenFails(t) ==
  /\ ~plugged \/ SetupFails
  /\ pc[t] = "openFile"
  /\ pc' = IF t = "opener" THEN [u \in Threads |-> "dead"] ELSE [pc EXCEPT ![t] = Back(t)]
  /\ open' = plugged
  /\ UNCHANGED <<handles, stopReadThread, readMutex, openMutex, device, users, calls>>

OpenLock(t) ==
  /\ readMutex = "free"
  /\ Goto(t, "openLock", "openJoin")
  /\ readMutex' = t
  /\ UNCHANGED <<handles, open, stopReadThread, openMutex, device, users, calls>>

(* The last reader is joined and a new one started.                        *)
OpenJoin(t) ==
  /\ pc[t] = "openJoin" /\ Joined("reader")
  /\ pc' = [pc EXCEPT ![t] = Back(t), !["reader"] = "loop"]
  /\ readMutex' = "free"
  /\ users' = IF t = "user" THEN users + 1 ELSE users
  /\ UNCHANGED <<handles, open, stopReadThread, openMutex, device, calls>>

-----------------------------------------------------------------------------
(* closeDevice()                                                           *)

CloseCall ==
  /\ users > 0 /\ (Apart => ~Reconnecting)
  /\ Goto("user", "none", "closeCount")
  /\ users' = users - 1
  /\ UNCHANGED <<shared, device, calls>>

CloseCount(t) ==
  /\ handles' = handles - 1
  /\ Goto(t, "closeCount", IF handles > 1 THEN Back(t) ELSE "closeLock")
  /\ UNCHANGED <<open, stopReadThread, readMutex, openMutex, device, users, calls>>

NoStop == UNCHANGED stopReadThread     \* mutant: the reader is not told to stop
Stop == stopReadThread' = TRUE

CloseLock(t) ==
  /\ readMutex = "free"
  /\ Goto(t, "closeLock", "closeJoin")
  /\ readMutex' = t
  /\ Stop
  /\ UNCHANGED <<handles, open, openMutex, device, users, calls>>

StillRuns(t) == TRUE                   \* mutant: the reader is not joined
ReaderJoined(t) == Joined("reader")

CloseJoin(t) ==
  /\ t # "reader"
  /\ pc[t] = "closeJoin" /\ ReaderJoined(t)
  /\ pc' = [pc EXCEPT ![t] = "closeLock2",
                      !["reader"] = IF @ = "exited" THEN "none" ELSE @]
  /\ readMutex' = "free"
  /\ UNCHANGED <<handles, open, stopReadThread, openMutex, device, users, calls>>

(* A thread that joins itself gets an exception; the mutex stays locked.   *)
JoinItself ==
  /\ Goto("reader", "closeJoin", "catch")
  /\ UNCHANGED <<shared, device, users, calls>>

CloseLock2(t) ==
  /\ openMutex = "free"
  /\ Goto(t, "closeLock2", "closeJoin2")
  /\ openMutex' = t
  /\ UNCHANGED <<handles, open, stopReadThread, readMutex, device, users, calls>>

CloseJoin2(t) ==
  /\ pc[t] = "closeJoin2" /\ Joined("opener")
  /\ pc' = [pc EXCEPT ![t] = "closeFile", !["opener"] = "none"]
  /\ openMutex' = "free"
  /\ UNCHANGED <<handles, open, stopReadThread, readMutex, device, users, calls>>

CloseFile(t) ==
  /\ Goto(t, "closeFile", Back(t))
  /\ open' = FALSE
  /\ UNCHANGED <<handles, stopReadThread, readMutex, openMutex, device, users, calls>>

-----------------------------------------------------------------------------
(* readThread() and readLine()                                             *)

ReadLoop ==
  /\ Goto("reader", "loop", CASE stopReadThread -> "exited"
                              [] ~stopReadThread /\ ~open -> "closeCount"
                              [] OTHER -> "read")
  /\ UNCHANGED <<shared, device, users, calls>>

(* A line, a timeout, or the stop flag.                                    *)
Read ==
  /\ open /\ plugged
  /\ Goto("reader", "read", "loop")
  /\ UNCHANGED <<shared, device, users, calls>>

(* Polling or reading fails: the descriptor is closed.                     *)
ReadFails ==
  /\ (Lost /\ (Apart => pc["user"] = "none")) \/ ~plugged \/ ~open
  /\ Goto("reader", "read", "loop")
  /\ open' = FALSE
  /\ UNCHANGED <<handles, stopReadThread, readMutex, openMutex, device, users, calls>>

(* The handler of the loop prints the exception and closes the descriptor. *)
Catch ==
  /\ Goto("reader", "catch", "loop")
  /\ open' = FALSE
  /\ UNCHANGED <<handles, stopReadThread, readMutex, openMutex, device, users, calls>>

Slept == Goto("reader", "sleep", "reopenLock")
         /\ UNCHANGED <<shared, device, users, calls>>

ReopenLock ==
  /\ openMutex = "free"
  /\ Goto("reader", "reopenLock", "reopenJoin")
  /\ openMutex' = "reader"
  /\ UNCHANGED <<handles, open, stopReadThread, readMutex, device, users, calls>>

GiveUp == pc' = [pc EXCEPT !["reader"] = "exited"]    \* mutant: no new opener
StartOpener == pc' = [pc EXCEPT !["reader"] = "exited", !["opener"] = "openCount"]

ReopenJoin ==
  /\ pc["reader"] = "reopenJoin" /\ Joined("opener")
  /\ StartOpener
  /\ openMutex' = "free"
  /\ UNCHANGED <<handles, open, stopReadThread, readMutex, device, users, calls>>

Plug ==
  /\ Unplugged
  /\ plugged' = ~plugged
  /\ UNCHANGED <<pc, shared, world, users, calls>>

-----------------------------------------------------------------------------
OpenStep(t) == OpenCount(t) \/ OpenFile(t) \/ OpenFails(t) \/ OpenLock(t) \/ OpenJoin(t)
CloseStep(t) == CloseCount(t) \/ CloseLock(t) \/ CloseJoin(t) \/ CloseLock2(t)
                \/ CloseJoin2(t) \/ CloseFile(t)
ReaderStep == ReadLoop \/ Read \/ ReadFails \/ Catch \/ Slept \/ ReopenLock \/ ReopenJoin
              \/ JoinItself

SerialNext == \/ OpenCall \/ CloseCall
        \/ \E t \in Threads : OpenStep(t) \/ CloseStep(t)
        \/ ReaderStep
        \/ Plug

SerialSpec == SerialInit /\ [][SerialNext]_serialVars

(* Threads that can go on do; nobody has to call, and devices may be lost. *)
Fairness == /\ \A t \in Threads : WF_serialVars(OpenStep(t) \/ CloseStep(t))
            /\ WF_serialVars(ReaderStep)

FairSpec == SerialSpec /\ Fairness

-----------------------------------------------------------------------------
(* Properties                                                              *)

(* When the last user's closeDevice() has returned, no thread of the       *)
(* object runs, the descriptor is closed and both mutexes are free, unless *)
(* the device was lost during a call or failed to open.                    *)
Quiet ==
  world \in {"calm", "apart"} /\ users = 0 /\ pc["user"] = "none" =>
    ~open /\ Joined("reader") /\ Joined("opener") /\ readMutex = "free" /\ openMutex = "free"

(* A reconnect between calls gives back the handle it took, so that the    *)
(* last user's closeDevice() is the one that closes.                       *)
HandleBalance ==
  world \in {"calm", "apart"} /\ pc["user"] = "none" /\ ~Reconnecting => handles = users

Owed ==
  (IF pc["reader"] \in {"closeLock", "closeJoin", "catch", "sleep", "reopenLock", "reopenJoin"}
     THEN 1 ELSE 0)
  + (IF pc["opener"] = "openCount" THEN 1 ELSE 0)

(* Failed calls, losses and reconnects, in any order, never leave fewer    *)
(* handles than users, which would close the device under one of them,     *)
(* if each reconnect gives back the one it took.  The exception is a       *)
(* reader that gave back the last one: it joins itself, keeps its mutex    *)
(* locked and never reconnects.                                            *)
HandlesSuffice == pc["user"] = "none" /\ readMutex # "reader" => handles + Owed >= users

(* openDevice(), closeDevice() and the reader's own calls of both count    *)
(* handles so that the device is closed neither too early nor never.       *)
HandlesMatch == HandleBalance /\ HandlesSuffice

(* While another user holds a handle, the reader of a lost device opens it *)
(* again and a new reader is started.                                      *)
Reconnects == world = "apart" /\ users > 1 /\ ~open ~> open /\ pc["reader"] = "loop"

(* SerialReaderWriter.h of closeDevice(): "Closes the serial device."  It  *)
(* returns ...                                                             *)
CloseReturns == pc["user"] = "closeCount" ~> pc["user"] = "none"

(* ... if reading never failed, however calls follow on each other.        *)
CalmCloseReturns == world = "calm" /\ pc["user"] = "closeCount" ~> pc["user"] = "none"
=============================================================================
