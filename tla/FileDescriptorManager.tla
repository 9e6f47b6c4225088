------------------------- MODULE FileDescriptorManager -------------------------
(***************************************************************************)
(* BaseLib::FileDescriptorManager: a table from descriptor numbers to      *)
(* FileDescriptor objects under one mutex.  The kernel hands a number out  *)
(* again as soon as it is closed, so a number means nothing without the    *)
(* object it was given to.  A file is counted by the call that opened it:  *)
(* opening and add() are two steps of the caller, and so are the test of   *)
(* the object's number outside the mutex and the rest of remove(), close() *)
(* and shutdown().  TLS sessions and epoll are left out.                   *)
(***************************************************************************)
EXTENDS Integers, FiniteSets, Functions

CONSTANTS
  Threads,       \* callers
  Fds,           \* descriptor numbers of the process
  NoFd,          \* -1
  MaxFiles       \* bound on the files opened, and so on the objects

ASSUME FdAssumption == NoFd \notin Fds /\ MaxFiles \in Nat

VARIABLES
  file,          \* the file open at each number, 0 for none
  opened,        \* files opened so far
  descriptors,   \* the table: the object of each number, 0 for none
  descriptor,    \* the number of each object; objects are counted like files
  call,          \* the call each thread is in
  operand,       \* the number and the file to add, the object and number to close
  ownFile,       \* history: the file an object was added for
  removed,       \* history: the objects closed by remove()
  foreign,       \* history: a number was closed behind the manager's back
  closedOther    \* history: an object closed a file added for another one

history == <<removed, foreign, closedOther>>
vars == <<file, opened, descriptors, descriptor, call, operand, ownFile, history>>

Objects == 1 .. MaxFiles
Added == {h \in Objects : ownFile[h] # 0}
NoOperand == <<0, 0>>
Calls == {"none", "add", "remove", "close"}

TypeOK ==
  /\ file \in [Fds -> 0 .. opened] /\ opened \in 0 .. MaxFiles
  /\ descriptors \in [Fds -> Added \cup {0}]
  /\ descriptor \in [Objects -> Fds \cup {NoFd}]
  /\ call \in [Threads -> Calls]
  /\ operand \in [Threads -> {NoOperand} \cup (Fds \X (1 .. opened)) \cup (Added \X Fds)]
  /\ \A t \in Threads : /\ call[t] = "add" => operand[t] \in Fds \X (1 .. opened)
                        /\ call[t] \in {"remove", "close"} => operand[t] \in Added \X Fds
  /\ ownFile \in [Objects -> 0 .. opened] /\ removed \subseteq Added
  /\ foreign \in BOOLEAN /\ closedOther \in BOOLEAN

Init ==
  /\ file = [n \in Fds |-> 0] /\ opened = 0
  /\ descriptors = [n \in Fds |-> 0] /\ descriptor = [h \in Objects |-> NoFd]
  /\ call = [t \in Threads |-> "none"] /\ operand = [t \in Threads |-> NoOperand]
  /\ ownFile = [h \in Objects |-> 0] /\ removed = {} /\ foreign = FALSE
  /\ closedOther = FALSE

Return(t) == call' = [call EXCEPT ![t] = "none"] /\ operand' = [operand EXCEPT ![t] = NoOperand]

(* open() or socket(), whose result is the argument of add().              *)
Open(t, n) ==
  /\ call[t] = "none" /\ file[n] = 0 /\ opened < MaxFiles
  /\ opened' = opened + 1
  /\ file' = [file EXCEPT ![n] = opened + 1]
  /\ call' = [call EXCEPT ![t] = "add"]
  /\ operand' = [operand EXCEPT ![t] = <<n, opened + 1>>]
  /\ UNCHANGED <<descriptors, descriptor, ownFile, history>>

(* A library closes a file it was given the number of.                     *)
ForeignClose(n) ==
  /\ \E h \in Added : ownFile[h] = file[n]
  /\ file' = [file EXCEPT ![n] = 0]
  /\ foreign' = TRUE
  /\ UNCHANGED <<opened, descriptors, descriptor, call, operand, ownFile, removed, closedOther>>

(* An object that still has the number loses it.                           *)
KeepOld(n) == descriptor               \* mutant: the old object keeps its number
ReplaceOld(n) ==
  IF descriptors[n] = 0 THEN descriptor ELSE [descriptor EXCEPT ![descriptors[n]] = NoFd]

Add(t) ==
  /\ call[t] = "add"
  /\ LET n == operand[t][1]  h == Cardinality(Added) + 1
     IN  /\ descriptor' = [ReplaceOld(n) EXCEPT ![h] = n]
         /\ descriptors' = [descriptors EXCEPT ![n] = h]
         /\ ownFile' = [ownFile EXCEPT ![h] = operand[t][2]]
  /\ Return(t)
  /\ UNCHANGED <<file, opened, history>>

(* remove(), close() and shutdown() return at once for a closed object.    *)
CloseBegin(t, h, how) ==
  /\ call[t] = "none" /\ descriptor[h] # NoFd
  /\ call' = [call EXCEPT ![t] = how]
  /\ operand' = [operand EXCEPT ![t] = <<h, descriptor[h]>>]
  /\ UNCHANGED <<file, opened, descriptors, descriptor, ownFile, history>>

(* Under the mutex the object's number is read again and must be its own.  *)
TestedNumber(t) == operand[t][2]       \* mutant: the number read before the lock
OwnNumber(t) ==
  LET h == operand[t][1]  n == descriptor[h]
  IN  IF n # NoFd /\ descriptors[n] = h THEN n ELSE NoFd

(* The file n is that of another object only once it has been added.       *)
KeepFileOpen(h, n) ==                  \* mutant: ::close() is left out
  /\ descriptor' = [descriptor EXCEPT ![h] = NoFd]
  /\ UNCHANGED <<file, closedOther>>
CloseFile(h, n) ==
  /\ file' = [file EXCEPT ![n] = 0]
  /\ closedOther' = (closedOther \/ \E k \in Added \ {h} : ownFile[k] = file[n])
  /\ descriptor' = [descriptor EXCEPT ![h] = NoFd]

(* close() and shutdown() erase the entry and then close the object;       *)
(* remove() closes first, which leaves it nothing to erase the entry by.   *)
EraseNothing(n) == UNCHANGED descriptors    \* mutant: the entry is not erased
Erase(n) == descriptors' = [descriptors EXCEPT ![n] = 0]

CloseEnd(t) ==
  LET h == operand[t][1]  n == OwnNumber(t)
  IN  /\ call[t] \in {"remove", "close"}
      /\ IF n # NoFd
           THEN /\ CloseFile(h, n)
                /\ IF call[t] = "remove"
                     THEN removed' = removed \cup {h} /\ UNCHANGED descriptors
                     ELSE Erase(n) /\ UNCHANGED removed
           ELSE UNCHANGED <<file, descriptors, descriptor, removed, closedOther>>
      /\ Return(t)
      /\ UNCHANGED <<opened, ownFile, foreign>>

(* dispose(): every object is closed and the table emptied.                *)
Dispose ==
  LET registered == Range(descriptors) \ {0}
      numbers == {descriptor[h] : h \in registered}
  IN  /\ registered # {}
      /\ file' = [m \in Fds |-> IF m \in numbers THEN 0 ELSE file[m]]
      /\ closedOther' = (closedOther \/ \E h \in registered, k \in Added :
                           h # k /\ descriptor[h] # NoFd /\ ownFile[k] = file[descriptor[h]])
      /\ descriptor' = [h \in Objects |-> IF h \in registered THEN NoFd ELSE descriptor[h]]
      /\ descriptors' = [n \in Fds |-> 0]
      /\ UNCHANGED <<opened, call, operand, ownFile, removed, foreign>>

isValidNumber(n, h) == descriptors[n] = h
isValid(h) == descriptor[h] # NoFd /\ descriptors[descriptor[h]] = h

Next ==
  \/ \E t \in Threads : \/ \E n \in Fds : Open(t, n)
                        \/ Add(t)
                        \/ \E h \in Objects, how \in {"remove", "close"} : CloseBegin(t, h, how)
                        \/ CloseEnd(t)
  \/ \E n \in Fds : ForeignClose(n)
  \/ Dispose

Spec == Init /\ [][Next]_vars

-----------------------------------------------------------------------------
(* Properties                                                              *)

(* However calls race and numbers are reused, closing an object never      *)
(* closes a file that was added for another object, unless a number was    *)
(* closed behind the manager's back.                                       *)
NoOtherClosed == ~foreign => ~closedOther

(* An object that has a number is the one in the table at that number: it  *)
(* can still be closed, and no two objects have the same number, even if   *)
(* numbers were closed and reused behind the manager's back.               *)
Reachable == \A h \in Objects : descriptor[h] # NoFd => descriptors[descriptor[h]] = h

(* A pair of number and id that is valid names the file it was made for;   *)
(* so does a valid object.  After remove() the pair, but not the object,   *)
(* stays valid although the file is closed.                                *)
ValidPair ==
  ~foreign =>
    \A h \in Added :
      /\ \A n \in Fds : isValidNumber(n, h) => h \in removed \/ file[n] = ownFile[h]
      /\ isValid(h) => file[descriptor[h]] = ownFile[h]

(* However numbers are reused, a number, the object in the table and the   *)
(* file belong together.                                                   *)
NumbersMatch == Reachable /\ ValidPair

(* No file is forgotten: what is open is about to be added or is that of   *)
(* an object that can be closed.                                           *)
NoLeak ==
  ~foreign => \A n \in Fds : file[n] # 0 =>
    \/ \E t \in Threads : call[t] = "add" /\ operand[t] = <<n, file[n]>>
    \/ descriptors[n] # 0 /\ isValid(descriptors[n])
=============================================================================
