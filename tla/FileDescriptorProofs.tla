------------------------- MODULE FileDescriptorProofs -------------------------
(***************************************************************************)
(* Proofs about FileDescriptorManager for any number of threads, numbers   *)
(* and files.  IInv is inductive: every file is that of one object or of   *)
(* one thread that is about to add it, an object with a number is the one  *)
(* in the table there, and until a number is closed behind the manager's   *)
(* back the file at an object's number is its own.                         *)
(***************************************************************************)
EXTENDS FileDescriptorManager, FiniteSetTheorems, TLAPS

Adding(t) == call[t] = "add"

(* Objects are numbered in the order in which they are added.              *)
AddedInv == \E k \in 0 .. MaxFiles : Added = 1 .. k

(* A file is added once: no two objects, no two threads that are about to  *)
(* add it, and no such thread and an object have the same one.             *)
FilesDiffer ==
  /\ \A g, h \in Added : ownFile[g] = ownFile[h] => g = h
  /\ \A t, u \in Threads : Adding(t) /\ Adding(u) /\ operand[t][2] = operand[u][2] => t = u
  /\ \A t \in Threads, h \in Added : Adding(t) => operand[t][2] # ownFile[h]

(* An object in the table has that number, or none after remove().         *)
TableInv ==
  \A n \in Fds : LET h == descriptors[n]
                 IN  h # 0 => descriptor[h] = n \/ (descriptor[h] = NoFd /\ h \in removed)

(* A number that an object has or is about to get is that of its file.     *)
OwnInv ==
  ~foreign => /\ \A h \in Added : descriptor[h] # NoFd => file[descriptor[h]] = ownFile[h]
              /\ \A t \in Threads : Adding(t) => file[operand[t][1]] = operand[t][2]

IInv ==
  /\ TypeOK /\ AddedInv /\ FilesDiffer
  /\ Reachable /\ TableInv /\ OwnInv /\ NoOtherClosed /\ NoLeak
-----------------------------------------------------------------------------
(* As many objects as files at most: the object that is added next has a   *)
(* number within the bound, and it is new.                                 *)
LEMMA NextObject ==
  ASSUME IInv, NEW t \in Threads, Adding(t)
  PROVE  LET h == Cardinality(Added) + 1
         IN  h \in Objects /\ h \notin Added /\ Added \cup {h} = 1 .. h
<1> USE FdAssumption
<1>1. PICK k \in 0 .. MaxFiles : Added = 1 .. k
  BY DEF IInv, AddedInv
<1>2. Cardinality(Added) = k
  BY <1>1, FS_Interval
<1> DEFINE f == [g \in 1 .. k + 1 |-> IF g = k + 1 THEN operand[t][2] ELSE ownFile[g]]
<1>3. opened \in Nat /\ opened <= MaxFiles /\ operand[t][2] \in 1 .. opened
  BY DEF IInv, TypeOK, Adding
<1>4. \A g \in 1 .. k : g \in Added /\ ownFile[g] \in 1 .. opened
  <2>1. \A g \in Added : ownFile[g] \in 1 .. opened
    BY <1>3 DEF Added, IInv, TypeOK
  <2> QED
    BY <1>1, <2>1
<1>5. f \in Injection(1 .. k + 1, 1 .. opened)
  <2>1. f \in [1 .. k + 1 -> 1 .. opened]
    BY <1>3, <1>4
  <2>2. ASSUME NEW a \in 1 .. k + 1, NEW b \in 1 .. k + 1, f[a] = f[b] PROVE a = b
    BY <1>4, <2>2 DEF IInv, FilesDiffer
  <2> QED
    BY <2>1, <2>2 DEF Injection, IsInjective
<1>6. Cardinality(1 .. k + 1) <= Cardinality(1 .. opened)
  <2>1. IsFiniteSet(1 .. opened)
    BY <1>3, FS_Interval, opened \in Int, 1 \in Int
  <2> QED
    BY <1>5, <2>1, FS_Injection
<1>7. k + 1 <= opened
  <2>1. Cardinality(1 .. opened) = IF 1 > opened THEN 0 ELSE opened - 1 + 1
    BY <1>3, FS_Interval
  <2>2. Cardinality(1 .. k + 1) = IF 1 > k + 1 THEN 0 ELSE k + 1 - 1 + 1
    BY k + 1 \in Int, 1 \in Int, FS_Interval
  <2> QED
    BY <1>3, <1>6, <2>1, <2>2
<1> QED
  BY <1>1, <1>2, <1>3, <1>7 DEF Objects

(* A step of one thread that touches neither files nor objects, and is not *)
(* the end of add().                                                       *)
LEMMA CallStep ==
  ASSUME IInv, NEW t \in Threads, ~Adding(t), call'[t] # "add",
         \A u \in Threads \ {t} : call'[u] = call[u] /\ operand'[u] = operand[u],
         UNCHANGED <<file, opened, descriptors, descriptor, ownFile, history>>,
         TypeOK'
  PROVE  IInv'
<1>1. /\ Added' = Added /\ Objects' = Objects
      /\ UNCHANGED <<file, opened, descriptors, descriptor, ownFile, removed, foreign, closedOther>>
  BY DEF Added, history
<1>2. \A u \in Threads : Adding(u)' <=> Adding(u)
  BY DEF Adding
<1>3. \A u \in Threads : Adding(u) => operand'[u] = operand[u]
  OBVIOUS
<1>4. AddedInv' /\ Reachable' /\ TableInv' /\ NoOtherClosed'
  BY <1>1 DEF IInv, AddedInv, Reachable, TableInv, NoOtherClosed
<1>5. FilesDiffer'
  BY <1>1, <1>2, <1>3 DEF IInv, FilesDiffer
<1>6. OwnInv'
  BY <1>1, <1>2, <1>3 DEF IInv, OwnInv
<1>7. NoLeak'
  BY <1>1, <1>2, <1>3 DEF IInv, NoLeak, isValid, Adding
<1> QED
  BY <1>4, <1>5, <1>6, <1>7 DEF IInv

LEMMA InitInv == Init => IInv
<1> SUFFICES ASSUME Init PROVE IInv
  OBVIOUS
<1> USE FdAssumption
<1>1. Added = {} /\ 0 \in 0 .. MaxFiles /\ 1 .. 0 = {}
  BY DEF Init, Added, Objects
<1>2. AddedInv
  BY <1>1 DEF AddedInv
<1>3. TypeOK
  <2>1. /\ file \in [Fds -> 0 .. opened] /\ opened \in 0 .. MaxFiles
        /\ descriptors \in [Fds -> Added \cup {0}] /\ descriptor \in [Objects -> Fds \cup {NoFd}]
        /\ ownFile \in [Objects -> 0 .. opened]
    BY <1>1 DEF Init
  <2>2. /\ call \in [Threads -> Calls] /\ removed \subseteq Added
        /\ foreign \in BOOLEAN /\ closedOther \in BOOLEAN
        /\ operand \in [Threads -> {NoOperand} \cup (Fds \X (1 .. opened)) \cup (Added \X Fds)]
        /\ \A t \in Threads : call[t] = "none"
    BY <1>1 DEF Init, Calls
  <2> QED
    BY <2>1, <2>2 DEF TypeOK
<1> QED
  BY <1>1, <1>2, <1>3 DEF Init, IInv, FilesDiffer, Reachable, TableInv, OwnInv, NoOtherClosed, NoLeak,
     Adding, Objects, history

LEMMA OpenInv == ASSUME IInv, NEW t \in Threads, NEW n \in Fds, Open(t, n) PROVE IInv'
<1> USE FdAssumption
<1> DEFINE f == opened + 1
<1>1. /\ call[t] = "none" /\ file[n] = 0 /\ opened' = f /\ f \in 1 .. MaxFiles /\ opened \in Nat
      /\ file' = [file EXCEPT ![n] = f]
      /\ call' = [call EXCEPT ![t] = "add"] /\ operand' = [operand EXCEPT ![t] = <<n, f>>]
      /\ UNCHANGED <<descriptors, descriptor, ownFile, removed, foreign, closedOther>>
  BY DEF Open, history, IInv, TypeOK
<1>2. Added' = Added
  BY <1>1 DEF Added, Objects
<1>3. TypeOK'
  <2>1. 0 .. opened \subseteq 0 .. f /\ 1 .. opened \subseteq 1 .. f /\ f \in 1 .. f
    BY <1>1
  <2>2. file' \in [Fds -> 0 .. opened'] /\ opened' \in 0 .. MaxFiles /\ ownFile' \in [Objects -> 0 .. opened']
    BY <1>1, <2>1 DEF IInv, TypeOK
  <2>3. call' \in [Threads -> Calls]
    BY <1>1 DEF IInv, TypeOK, Calls
  <2>4. operand' \in [Threads -> {NoOperand} \cup (Fds \X (1 .. opened')) \cup (Added' \X Fds)]
    BY <1>1, <1>2, <2>1 DEF IInv, TypeOK
  <2>5. \A u \in Threads : /\ call'[u] = "add" => operand'[u] \in Fds \X (1 .. opened')
                           /\ call'[u] \in {"remove", "close"} => operand'[u] \in Added' \X Fds
    BY <1>1, <1>2, <2>1 DEF IInv, TypeOK
  <2> QED
    BY <1>1, <1>2, <2>2, <2>3, <2>4, <2>5 DEF IInv, TypeOK
<1>4. /\ \A u \in Threads \ {t} : call'[u] = call[u] /\ operand'[u] = operand[u]
      /\ call'[t] = "add" /\ operand'[t] = <<n, f>>
  BY <1>1 DEF IInv, TypeOK
<1>5. /\ \A h \in Added : ownFile[h] \in 1 .. opened
      /\ \A u \in Threads : Adding(u) => operand[u][1] \in Fds /\ operand[u][2] \in 1 .. opened
  BY <1>1 DEF IInv, TypeOK, Added, Objects, Adding
<1>6. AddedInv' /\ Reachable' /\ TableInv' /\ NoOtherClosed'
  BY <1>1, <1>2 DEF IInv, AddedInv, Reachable, TableInv, NoOtherClosed
<1>7. FilesDiffer'
  BY <1>1, <1>2, <1>4, <1>5 DEF IInv, FilesDiffer, Adding
<1>8. \A m \in Fds : file'[m] = IF m = n THEN f ELSE file[m]
  BY <1>1 DEF IInv, TypeOK
<1>9. OwnInv'
  <2>1. \A h \in Added : descriptor[h] \in Fds \cup {NoFd}
    BY DEF IInv, TypeOK, Added
  <2> QED
    BY <1>1, <1>2, <1>4, <1>5, <1>8, <2>1 DEF IInv, OwnInv, Adding
<1>10. NoLeak'
  <2> SUFFICES ASSUME ~foreign, NEW m \in Fds, m # n, file[m] # 0
               PROVE  \/ \E u \in Threads : call'[u] = "add" /\ operand'[u] = <<m, file[m]>>
                      \/ descriptors'[m] # 0 /\ isValid(descriptors[m])'
    BY <1>1, <1>4, <1>8 DEF NoLeak
  <2>1. CASE \E u \in Threads : call[u] = "add" /\ operand[u] = <<m, file[m]>>
    BY <1>1, <1>4, <2>1
  <2>2. CASE descriptors[m] # 0 /\ isValid(descriptors[m])
    BY <1>1, <2>2 DEF isValid
  <2> QED
    BY <2>1, <2>2 DEF IInv, NoLeak
<1> QED
  BY <1>3, <1>6, <1>7, <1>9, <1>10 DEF IInv

LEMMA ForeignCloseInv == ASSUME IInv, NEW n \in Fds, ForeignClose(n) PROVE IInv'
<1> USE FdAssumption
<1>1. /\ file' = [file EXCEPT ![n] = 0] /\ foreign' = TRUE
      /\ UNCHANGED <<opened, descriptors, descriptor, call, operand, ownFile, removed, closedOther>>
  BY DEF ForeignClose
<1>2. Added' = Added
  BY <1>1 DEF Added, Objects
<1>3. TypeOK'
  BY <1>1, <1>2 DEF IInv, TypeOK
<1>4. AddedInv' /\ FilesDiffer' /\ Reachable' /\ TableInv'
  BY <1>1, <1>2 DEF IInv, AddedInv, FilesDiffer, Reachable, TableInv, Adding
<1> QED
  BY <1>1, <1>3, <1>4 DEF IInv, OwnInv, NoOtherClosed, NoLeak

LEMMA AddInv == ASSUME IInv, NEW t \in Threads, Add(t) PROVE IInv'
<1> USE FdAssumption
<1> DEFINE n == operand[t][1]
           f == operand[t][2]
           h == Cardinality(Added) + 1
           old == descriptors[n]
<1>0. Adding(t) /\ call[t] = "add"
  BY DEF Add, Adding
<1>1. h \in Objects /\ h \notin Added /\ Added \cup {h} = 1 .. h
  BY <1>0, NextObject
<1>2. n \in Fds /\ f \in 1 .. opened /\ opened \in Nat
  BY <1>0 DEF IInv, TypeOK
<1> HIDE DEF h
<1>3. /\ descriptor' = [ReplaceOld(n) EXCEPT ![h] = n]
      /\ descriptors' = [descriptors EXCEPT ![n] = h]
      /\ ownFile' = [ownFile EXCEPT ![h] = f]
      /\ call' = [call EXCEPT ![t] = "none"] /\ operand' = [operand EXCEPT ![t] = NoOperand]
      /\ UNCHANGED <<file, opened, removed, foreign, closedOther>>
  BY DEF Add, Return, history, h
<1> HIDE DEF n, f
<1>4. /\ \A g \in Objects \ {h} : ownFile'[g] = ownFile[g]
      /\ ownFile'[h] = f
  BY <1>1, <1>3 DEF IInv, TypeOK
<1>5. Added' = Added \cup {h}
  BY <1>1, <1>2, <1>4 DEF Added
<1>6. /\ \A g \in Objects \ {h} : \/ descriptor'[g] = descriptor[g] /\ g # old
                                  \/ descriptor'[g] = NoFd /\ g = old
      /\ descriptor'[h] = n
  <2>1. old \in Added \cup {0} /\ descriptor \in [Objects -> Fds \cup {NoFd}] /\ Added \subseteq Objects
    BY <1>2 DEF IInv, TypeOK, Added
  <2>2. /\ ReplaceOld(n) \in [Objects -> Fds \cup {NoFd}]
        /\ \A g \in Objects : ReplaceOld(n)[g] = IF g = old THEN NoFd ELSE descriptor[g]
    <3>1. CASE old = 0
      BY <2>1, <3>1 DEF ReplaceOld, Objects
    <3>2. CASE old # 0
      <4>1. ReplaceOld(n) = [descriptor EXCEPT ![old] = NoFd]
        BY <3>2 DEF ReplaceOld
      <4> QED
        BY <2>1, <4>1
    <3> QED
      BY <3>1, <3>2
  <2> QED
    BY <1>1, <1>3, <2>2
<1>7. /\ \A m \in Fds \ {n} : descriptors'[m] = descriptors[m]
      /\ descriptors'[n] = h
  BY <1>2, <1>3 DEF IInv, TypeOK
<1>8. \A u \in Threads \ {t} : call'[u] = call[u] /\ operand'[u] = operand[u]
  BY <1>3 DEF IInv, TypeOK
<1>9. call'[t] = "none" /\ operand'[t] = NoOperand
  BY <1>3 DEF IInv, TypeOK
<1>10. TypeOK'
  <2>1. descriptors' \in [Fds -> Added' \cup {0}]
    BY <1>3, <1>5 DEF IInv, TypeOK
  <2>2. descriptor' \in [Objects -> Fds \cup {NoFd}]
    BY <1>2, <1>3 DEF IInv, TypeOK, ReplaceOld
  <2>3. call' \in [Threads -> Calls]
    BY <1>3 DEF IInv, TypeOK, Calls
  <2>4. operand' \in [Threads -> {NoOperand} \cup (Fds \X (1 .. opened')) \cup (Added' \X Fds)]
    BY <1>3, <1>5 DEF IInv, TypeOK
  <2>5. \A u \in Threads : /\ call'[u] = "add" => operand'[u] \in Fds \X (1 .. opened')
                           /\ call'[u] \in {"remove", "close"} => operand'[u] \in Added' \X Fds
    BY <1>3, <1>5, <1>8, <1>9 DEF IInv, TypeOK
  <2>6. ownFile' \in [Objects -> 0 .. opened'] /\ removed' \subseteq Added'
    <3>1. ownFile \in [Objects -> 0 .. opened] /\ removed \subseteq Added /\ f \in 0 .. opened
      BY <1>2 DEF IInv, TypeOK
    <3> QED
      BY <1>3, <1>5, <3>1
  <2> QED
    BY <1>3, <2>1, <2>2, <2>3, <2>4, <2>5, <2>6 DEF IInv, TypeOK
<1>11. AddedInv'
  BY <1>1, <1>5 DEF AddedInv, Objects
<1>12. FilesDiffer'
  <2>1. \A u \in Threads : Adding(u)' => u # t /\ Adding(u) /\ operand'[u] = operand[u]
    BY <1>8, <1>9 DEF Adding
  <2>2. \A g \in Added : g # h /\ ownFile'[g] = ownFile[g] /\ ownFile[g] # f
    BY <1>0, <1>1, <1>4 DEF IInv, FilesDiffer, Added, f
  <2>3. \A u \in Threads : Adding(u)' => operand'[u][2] # f
    BY <1>0, <2>1 DEF IInv, FilesDiffer, f
  <2>4. \A u, v \in Threads : Adding(u)' /\ Adding(v)' /\ operand'[u][2] = operand'[v][2] => u = v
    BY <2>1 DEF IInv, FilesDiffer
  <2>5. \A g, k \in Added' : ownFile'[g] = ownFile'[k] => g = k
    BY <1>4, <1>5, <2>2 DEF IInv, FilesDiffer
  <2>6. \A u \in Threads, g \in Added' : Adding(u)' => operand'[u][2] # ownFile'[g]
    BY <1>4, <1>5, <2>1, <2>2, <2>3 DEF IInv, FilesDiffer
  <2> QED
    BY <2>4, <2>5, <2>6 DEF FilesDiffer
<1>13. Reachable'
  <2> SUFFICES ASSUME NEW g \in Objects, descriptor'[g] # NoFd
               PROVE  descriptors'[descriptor'[g]] = g
    BY DEF Reachable, Objects
  <2>1. CASE g = h
    BY <1>6, <1>7, <2>1
  <2>2. CASE g # h
    <3>1. descriptor'[g] = descriptor[g] /\ g # old
      BY <1>6, <2>2
    <3>2. descriptors[descriptor[g]] = g /\ descriptor[g] \in Fds
      BY <3>1 DEF IInv, Reachable, TypeOK
    <3>3. descriptor[g] # n
      BY <3>1, <3>2
    <3> QED
      BY <1>7, <3>1, <3>2, <3>3
  <2> QED
    BY <2>1, <2>2
<1>14. TableInv'
  <2> SUFFICES ASSUME NEW m \in Fds, descriptors'[m] # 0
               PROVE  \/ descriptor'[descriptors'[m]] = m
                      \/ descriptor'[descriptors'[m]] = NoFd /\ descriptors'[m] \in removed'
    BY DEF TableInv
  <2>1. CASE m = n
    BY <1>6, <1>7, <2>1
  <2>2. CASE m # n
    <3>1. descriptors'[m] = descriptors[m] /\ descriptors[m] \in Added /\ descriptors[m] \in Objects \ {h}
      BY <1>1, <1>7, <2>2 DEF IInv, TypeOK, Added
    <3>2. \/ descriptor[descriptors[m]] = m
          \/ descriptor[descriptors[m]] = NoFd /\ descriptors[m] \in removed
      BY <3>1 DEF IInv, TableInv
    <3>3. CASE descriptors[m] # old
      BY <1>3, <1>6, <3>1, <3>2, <3>3
    <3>4. CASE descriptors[m] = old
      <4>1. descriptor[old] = n \/ (descriptor[old] = NoFd /\ old \in removed)
        BY <1>2, <3>1, <3>4 DEF IInv, TableInv
      <4> QED
        BY <1>2, <1>3, <1>6, <2>2, <3>1, <3>2, <3>4, <4>1
    <3> QED
      BY <3>3, <3>4
  <2> QED
    BY <2>1, <2>2
<1>15. OwnInv'
  <2> SUFFICES ASSUME ~foreign
               PROVE  /\ \A g \in Added' : descriptor'[g] # NoFd => file[descriptor'[g]] = ownFile'[g]
                      /\ \A u \in Threads : Adding(u)' => file[operand'[u][1]] = operand'[u][2]
    BY <1>3 DEF OwnInv
  <2>1. file[n] = f
    BY <1>0 DEF IInv, OwnInv, n, f
  <2>2. \A g \in Added : descriptor'[g] # NoFd => file[descriptor'[g]] = ownFile'[g]
    BY <1>1, <1>4, <1>6 DEF IInv, OwnInv, Added
  <2>3. \A u \in Threads : Adding(u)' => Adding(u) /\ operand'[u] = operand[u]
    BY <1>8, <1>9 DEF Adding
  <2> QED
    BY <1>4, <1>5, <1>6, <2>1, <2>2, <2>3 DEF IInv, OwnInv
<1>16. NoLeak'
  <2> SUFFICES ASSUME ~foreign, NEW m \in Fds, file[m] # 0
               PROVE  \/ \E u \in Threads : call'[u] = "add" /\ operand'[u] = <<m, file[m]>>
                      \/ descriptors'[m] # 0 /\ isValid(descriptors[m])'
    BY <1>3 DEF NoLeak
  <2>1. CASE m = n
    BY <1>1, <1>2, <1>6, <1>7, <2>1 DEF isValid, Objects
  <2>2. CASE m # n
    <3>1. CASE \E u \in Threads : call[u] = "add" /\ operand[u] = <<m, file[m]>>
      <4>1. PICK u \in Threads : call[u] = "add" /\ operand[u] = <<m, file[m]>>
        BY <3>1
      <4>2. u # t
        BY <2>2, <4>1 DEF n
      <4> QED
        BY <1>8, <4>1, <4>2
    <3>2. CASE descriptors[m] # 0 /\ isValid(descriptors[m])
      <4>1. descriptors[m] \in Added /\ descriptors[m] \in Objects \ {h} /\ descriptor[descriptors[m]] \in Fds
        BY <1>1, <3>2 DEF IInv, TypeOK, Added, isValid
      <4>2. descriptor[descriptors[m]] = m
        BY <3>2, <4>1 DEF IInv, TableInv, isValid
      <4>3. descriptors[m] # old
        <5>1. SUFFICES ASSUME descriptors[m] = old PROVE FALSE
          OBVIOUS
        <5>2. descriptor[old] = n \/ descriptor[old] = NoFd
          BY <1>2, <3>2, <5>1 DEF IInv, TableInv
        <5> QED
          BY <2>2, <4>2, <5>1, <5>2
      <4> QED
        BY <1>6, <1>7, <2>2, <3>2, <4>1, <4>2, <4>3 DEF isValid
    <3> QED
      BY <3>1, <3>2 DEF IInv, NoLeak
  <2> QED
    BY <2>1, <2>2
<1>17. NoOtherClosed'
  BY <1>3 DEF IInv, NoOtherClosed
<1> QED
  BY <1>10, <1>11, <1>12, <1>13, <1>14, <1>15, <1>16, <1>17 DEF IInv
LEMMA CloseBeginInv ==
  ASSUME IInv, NEW t \in Threads, NEW h \in Objects, NEW how \in {"remove", "close"},
         CloseBegin(t, h, how)
  PROVE  IInv'
<1> USE FdAssumption
<1>1. /\ call[t] = "none" /\ call' = [call EXCEPT ![t] = how]
      /\ operand' = [operand EXCEPT ![t] = <<h, descriptor[h]>>]
      /\ UNCHANGED <<file, opened, descriptors, descriptor, ownFile, history>>
  BY DEF CloseBegin
<1>2. descriptor[h] \in Fds /\ h \in Added
  <2>1. descriptor[h] \in Fds /\ descriptors[descriptor[h]] = h
    BY DEF CloseBegin, IInv, TypeOK, Reachable
  <2> QED
    BY <2>1 DEF IInv, TypeOK, Objects
<1>3. /\ \A u \in Threads \ {t} : call'[u] = call[u] /\ operand'[u] = operand[u]
      /\ call'[t] = how /\ operand'[t] = <<h, descriptor[h]>>
  BY <1>1 DEF IInv, TypeOK
<1>4. Added' = Added /\ UNCHANGED <<removed, foreign, closedOther>>
  BY <1>1 DEF Added, Objects, history
<1>5. TypeOK'
  <2>1. /\ call' \in [Threads -> Calls]
        /\ operand' \in [Threads -> {NoOperand} \cup (Fds \X (1 .. opened)) \cup (Added \X Fds)]
    BY <1>1, <1>2 DEF IInv, TypeOK, Calls
  <2>2. \A u \in Threads : /\ call'[u] = "add" => operand'[u] \in Fds \X (1 .. opened)
                           /\ call'[u] \in {"remove", "close"} => operand'[u] \in Added \X Fds
    <3>1. \A u \in Threads \ {t} : /\ call[u] = "add" => operand[u] \in Fds \X (1 .. opened)
                                   /\ call[u] \in {"remove", "close"} => operand[u] \in Added \X Fds
      BY DEF IInv, TypeOK
    <3>2. how # "add" /\ <<h, descriptor[h]>> \in Added \X Fds
      BY <1>2
    <3> QED
      BY <1>3, <3>1, <3>2
  <2> QED
    BY <1>1, <1>4, <2>1, <2>2 DEF IInv, TypeOK
<1> QED
  BY <1>1, <1>3, <1>5, CallStep DEF Adding

(* What closing the files of some objects leaves: the objects in closing   *)
(* are in the table, lose their numbers, and their entries are erased or   *)
(* stay with an object that was removed.                                   *)
LEMMA ClosedInv ==
  ASSUME IInv, NEW closing,
         \A h \in closing : h \in Added /\ descriptor[h] # NoFd,
         file' = [n \in Fds |-> IF \E h \in closing : descriptor[h] = n THEN 0 ELSE file[n]],
         descriptor' = [h \in Objects |-> IF h \in closing THEN NoFd ELSE descriptor[h]],
         closedOther' = (closedOther \/ \E h \in closing, k \in Added :
                                          h # k /\ ownFile[k] = file[descriptor[h]]),
         UNCHANGED <<opened, ownFile, foreign>>,
         \A n \in Fds : \/ descriptors'[n] = descriptors[n]
                        \/ descriptors'[n] = 0 /\ \A h \in Objects : descriptor'[h] # n,
         \A n \in Fds : descriptors'[n] \in closing => descriptors'[n] \in removed',
         removed \subseteq removed',
         \A u \in Threads : Adding(u)' => Adding(u) /\ operand'[u] = operand[u],
         \A u \in Threads : Adding(u) => call'[u] = "add" /\ operand'[u] = operand[u],
         TypeOK'
  PROVE  IInv'
<1> USE FdAssumption
<1>1. Added' = Added /\ AddedInv'
  BY DEF IInv, Added, AddedInv, Objects
<1>2. \A n \in Fds : file'[n] = IF \E h \in closing : descriptor[h] = n THEN 0 ELSE file[n]
  OBVIOUS
<1>3. \A h \in Objects : descriptor'[h] = IF h \in closing THEN NoFd ELSE descriptor[h]
  OBVIOUS
<1>4. FilesDiffer'
  BY <1>1 DEF IInv, FilesDiffer
<1>5. Reachable'
  BY <1>3 DEF IInv, Reachable, TypeOK
<1>6. TableInv'
  <2> SUFFICES ASSUME NEW n \in Fds, descriptors'[n] # 0
               PROVE  \/ descriptor'[descriptors'[n]] = n
                      \/ descriptor'[descriptors'[n]] = NoFd /\ descriptors'[n] \in removed'
    BY DEF TableInv
  <2>1. /\ descriptors'[n] = descriptors[n] /\ descriptors[n] \in Objects
        /\ \/ descriptor[descriptors[n]] = n
           \/ descriptor[descriptors[n]] = NoFd /\ descriptors[n] \in removed
    BY DEF IInv, TableInv, TypeOK, Added
  <2> QED
    BY <1>3, <2>1
<1>7. \A h \in Added : h \in Objects /\ descriptor[h] \in Fds \cup {NoFd}
  BY DEF IInv, TypeOK, Added
<1>8. ASSUME NEW g \in Objects, NEW h \in Objects, descriptor[g] = descriptor[h], descriptor[g] # NoFd
      PROVE  g = h
  BY <1>8 DEF IInv, Reachable
<1>9. ASSUME ~foreign
      PROVE  /\ \A h \in Added : descriptor[h] # NoFd => file[descriptor[h]] = ownFile[h]
             /\ \A u \in Threads : Adding(u) => file[operand[u][1]] = operand[u][2]
             /\ ~closedOther
  BY <1>9 DEF IInv, OwnInv, NoOtherClosed
<1>10. OwnInv'
  <2> SUFFICES ASSUME ~foreign
               PROVE  /\ \A h \in Added : descriptor'[h] # NoFd => file'[descriptor'[h]] = ownFile[h]
                      /\ \A u \in Threads : Adding(u) => file'[operand[u][1]] = operand[u][2]
    BY <1>1 DEF OwnInv
  <2>1. ASSUME NEW h \in Added, descriptor'[h] # NoFd PROVE file'[descriptor'[h]] = ownFile[h]
    <3>1. h \notin closing /\ descriptor'[h] = descriptor[h] /\ descriptor[h] \in Fds
      BY <1>3, <1>7, <2>1
    <3>2. \A g \in closing : descriptor[g] # descriptor[h]
      BY <1>7, <1>8, <3>1
    <3> QED
      BY <1>2, <1>9, <3>1, <3>2
  <2>2. ASSUME NEW u \in Threads, Adding(u) PROVE file'[operand[u][1]] = operand[u][2]
    <3>1. operand[u][1] \in Fds /\ file[operand[u][1]] = operand[u][2]
      BY <1>9, <2>2 DEF IInv, TypeOK, Adding
    <3>2. \A g \in closing : file[descriptor[g]] = ownFile[g] /\ ownFile[g] # operand[u][2]
      BY <1>9, <2>2 DEF IInv, FilesDiffer
    <3> QED
      BY <1>2, <3>1, <3>2
  <2> QED
    BY <2>1, <2>2
<1>11. NoOtherClosed'
  <2>1. ~foreign => \A h \in closing, k \in Added : h # k => ownFile[k] # file[descriptor[h]]
    BY <1>9 DEF IInv, FilesDiffer
  <2> QED
    BY <1>9, <2>1 DEF NoOtherClosed
<1>12. NoLeak'
  <2> SUFFICES ASSUME ~foreign, NEW n \in Fds, file'[n] # 0
               PROVE  \/ \E u \in Threads : call'[u] = "add" /\ operand'[u] = <<n, file'[n]>>
                      \/ descriptors'[n] # 0 /\ isValid(descriptors[n])'
    BY DEF NoLeak
  <2>1. file'[n] = file[n] /\ \A h \in closing : descriptor[h] # n
    BY <1>2
  <2>2. CASE \E u \in Threads : call[u] = "add" /\ operand[u] = <<n, file[n]>>
    BY <2>1, <2>2 DEF Adding
  <2>3. CASE descriptors[n] # 0 /\ isValid(descriptors[n])
    <3>1. descriptors[n] \in Objects /\ descriptor[descriptors[n]] # NoFd
      BY <2>3 DEF IInv, TypeOK, Added, isValid
    <3>2. descriptor[descriptors[n]] = n
      BY <2>3, <3>1 DEF IInv, TableInv
    <3>3. descriptor'[descriptors[n]] = n
      BY <1>3, <2>1, <3>1, <3>2
    <3>4. descriptors'[n] = descriptors[n]
      BY <3>1, <3>3
    <3> QED
      BY <2>3, <3>3, <3>4 DEF isValid
  <2> QED
    BY <2>1, <2>2, <2>3 DEF IInv, NoLeak
<1> QED
  BY <1>1, <1>4, <1>5, <1>6, <1>10, <1>11, <1>12 DEF IInv

LEMMA CloseEndInv == ASSUME IInv, NEW t \in Threads, CloseEnd(t) PROVE IInv'
<1> USE FdAssumption
<1> DEFINE h == operand[t][1]
           n == OwnNumber(t)
<1>1. /\ call[t] \in {"remove", "close"} /\ h \in Added /\ h \in Objects
      /\ call' = [call EXCEPT ![t] = "none"] /\ operand' = [operand EXCEPT ![t] = NoOperand]
      /\ UNCHANGED <<opened, ownFile, foreign>>
  BY DEF CloseEnd, Return, IInv, TypeOK, Added
<1>2. /\ \A u \in Threads \ {t} : call'[u] = call[u] /\ operand'[u] = operand[u]
      /\ call'[t] = "none" /\ operand'[t] = NoOperand
  BY <1>1 DEF IInv, TypeOK
<1>3. Added' = Added /\ Objects' = Objects
  BY <1>1 DEF Added, Objects
<1>4. /\ call' \in [Threads -> Calls]
      /\ operand' \in [Threads -> {NoOperand} \cup (Fds \X (1 .. opened)) \cup (Added \X Fds)]
      /\ \A u \in Threads : /\ call'[u] = "add" => operand'[u] \in Fds \X (1 .. opened)
                            /\ call'[u] \in {"remove", "close"} => operand'[u] \in Added \X Fds
  BY <1>1, <1>2 DEF IInv, TypeOK, Calls
<1>5. CASE n = NoFd
  <2>1. UNCHANGED <<file, descriptors, descriptor, removed, closedOther>>
    BY <1>5 DEF CloseEnd
  <2>2. TypeOK'
    BY <1>1, <1>3, <1>4, <2>1 DEF IInv, TypeOK
  <2> QED
    BY <1>1, <1>2, <2>1, <2>2, CallStep DEF Adding, history
<1>6. CASE n # NoFd
  <2>1. n = descriptor[h] /\ descriptors[n] = h /\ n \in Fds
    BY <1>1, <1>6 DEF OwnNumber, IInv, TypeOK
  <2>2. /\ file' = [file EXCEPT ![n] = 0] /\ descriptor' = [descriptor EXCEPT ![h] = NoFd]
        /\ closedOther' = (closedOther \/ \E k \in Added \ {h} : ownFile[k] = file[n])
        /\ \/ removed' = removed \cup {h} /\ descriptors' = descriptors
           \/ removed' = removed /\ descriptors' = [descriptors EXCEPT ![n] = 0]
    BY <1>6 DEF CloseEnd, CloseFile, Erase
  <2> HIDE DEF h, n
  <2>3. file' = [m \in Fds |-> IF \E g \in {h} : descriptor[g] = m THEN 0 ELSE file[m]]
    BY <2>1, <2>2 DEF IInv, TypeOK
  <2>4. descriptor' = [g \in Objects |-> IF g \in {h} THEN NoFd ELSE descriptor[g]]
    BY <2>2 DEF IInv, TypeOK
  <2>5. closedOther' = (closedOther \/ \E g \in {h}, k \in Added : g # k /\ ownFile[k] = file[descriptor[g]])
    BY <2>1, <2>2
  <2>6. /\ removed \subseteq removed' /\ removed' \subseteq Added
        /\ descriptors' \in [Fds -> Added \cup {0}]
    BY <1>1, <2>2 DEF IInv, TypeOK
  <2>7. \A m \in Fds : \/ descriptors'[m] = descriptors[m]
                       \/ descriptors'[m] = 0 /\ \A g \in Objects : descriptor'[g] # m
    <3>1. \A g \in Objects \ {h} : descriptor[g] # n
      BY <2>1, <1>6 DEF IInv, Reachable
    <3>2. \A g \in Objects : descriptor'[g] # n
      BY <1>6, <2>4, <3>1
    <3> QED
      BY <2>2, <3>2 DEF IInv, TypeOK
  <2>8. \A m \in Fds : descriptors'[m] \in {h} => descriptors'[m] \in removed'
    <3>1. ASSUME NEW m \in Fds, descriptors[m] = h PROVE m = n
      BY <1>1, <1>6, <2>1, <3>1 DEF IInv, TableInv, Objects
    <3> QED
      BY <1>1, <2>2, <3>1 DEF IInv, TypeOK, Objects
  <2>9. TypeOK'
    <3>1. file' \in [Fds -> 0 .. opened'] /\ descriptor' \in [Objects -> Fds \cup {NoFd}]
      BY <1>1, <2>3, <2>4 DEF IInv, TypeOK
    <3> QED
      BY <1>1, <1>3, <1>4, <2>2, <2>6, <3>1 DEF IInv, TypeOK
  <2>10. /\ \A u \in Threads : Adding(u)' => Adding(u) /\ operand'[u] = operand[u]
         /\ \A u \in Threads : Adding(u) => call'[u] = "add" /\ operand'[u] = operand[u]
    BY <1>1, <1>2 DEF Adding
  <2>11. \A g \in {h} : g \in Added /\ descriptor[g] # NoFd
    BY <1>1, <1>6, <2>1
  <2> QED
    BY <1>1, <2>3, <2>4, <2>5, <2>6, <2>7, <2>8, <2>9, <2>10, <2>11, ClosedInv
<1> QED
  BY <1>5, <1>6

LEMMA DisposeInv == ASSUME IInv, Dispose PROVE IInv'
<1> USE FdAssumption
<1> DEFINE registered == Range(descriptors) \ {0}
           closing == {h \in registered : descriptor[h] # NoFd}
<1>1. /\ file' = [m \in Fds |-> IF m \in {descriptor[h] : h \in registered} THEN 0 ELSE file[m]]
      /\ closedOther' = (closedOther \/ \E h \in registered, k \in Added :
                           h # k /\ descriptor[h] # NoFd /\ ownFile[k] = file[descriptor[h]])
      /\ descriptor' = [h \in Objects |-> IF h \in registered THEN NoFd ELSE descriptor[h]]
      /\ descriptors' = [n \in Fds |-> 0]
      /\ UNCHANGED <<opened, call, operand, ownFile, removed, foreign>>
  BY DEF Dispose
<1>2. registered \subseteq Added
  BY DEF IInv, TypeOK, Range
<1>3. Added' = Added
  BY <1>1 DEF Added, Objects
<1> HIDE DEF registered
<1>4. \A h \in closing : h \in Added /\ descriptor[h] # NoFd
  BY <1>2
<1>5. file' = [m \in Fds |-> IF \E h \in closing : descriptor[h] = m THEN 0 ELSE file[m]]
  BY <1>1
<1>6. descriptor' = [h \in Objects |-> IF h \in closing THEN NoFd ELSE descriptor[h]]
  BY <1>1
<1>7. closedOther' = (closedOther \/ \E h \in closing, k \in Added : h # k /\ ownFile[k] = file[descriptor[h]])
  BY <1>1
<1>8. \A m \in Fds : \/ descriptors'[m] = descriptors[m]
                     \/ descriptors'[m] = 0 /\ \A h \in Objects : descriptor'[h] # m
  <2>1. \A h \in Objects : descriptor[h] # NoFd => h \in registered
    BY DEF IInv, TypeOK, Reachable, Range, registered, Objects
  <2>2. \A h \in Objects : descriptor'[h] = NoFd
    BY <1>1, <2>1
  <2> QED
    BY <1>1, <2>2
<1>9. \A m \in Fds : descriptors'[m] \in closing => descriptors'[m] \in removed'
  <2>1. \A m \in Fds : descriptors'[m] = 0
    BY <1>1
  <2> QED
    BY <2>1 DEF registered
<1>10. TypeOK'
  BY <1>1, <1>3 DEF IInv, TypeOK
<1>11. \A u \in Threads : Adding(u)' <=> Adding(u)
  BY <1>1 DEF Adding
<1> HIDE DEF closing
<1> QED
  BY <1>1, <1>4, <1>5, <1>6, <1>7, <1>8, <1>9, <1>10, <1>11, ClosedInv DEF Adding

-----------------------------------------------------------------------------
LEMMA StepInv == IInv /\ [Next]_vars => IInv'
<1> SUFFICES ASSUME IInv, [Next]_vars PROVE IInv'
  OBVIOUS
<1>1. CASE UNCHANGED vars
  <2>1. UNCHANGED <<file, opened, descriptors, descriptor, call, operand, ownFile, removed, foreign, closedOther>>
    BY <1>1 DEF vars, history
  <2>2. Added' = Added
    BY <2>1 DEF Added, Objects
  <2>3. TypeOK' /\ AddedInv' /\ FilesDiffer'
    BY <2>1, <2>2 DEF IInv, TypeOK, AddedInv, FilesDiffer, Adding
  <2>4. Reachable' /\ TableInv' /\ OwnInv' /\ NoOtherClosed'
    BY <2>1, <2>2 DEF IInv, Reachable, TableInv, OwnInv, NoOtherClosed, Adding
  <2>5. NoLeak'
    BY <2>1 DEF IInv, NoLeak, isValid
  <2> QED
    BY <2>3, <2>4, <2>5 DEF IInv
<1> QED
  BY <1>1, OpenInv, AddInv, CloseBeginInv, CloseEndInv, ForeignCloseInv, DisposeInv DEF Next

THEOREM InvCorrect == Spec => []IInv
  BY InitInv, StepInv, PTL DEF Spec

(* However calls race and numbers are reused, closing an object never      *)
(* closes another object's file.                                           *)
THEOREM NoOtherClosedCorrect == Spec => []NoOtherClosed
<1>1. IInv => NoOtherClosed
  BY DEF IInv
<1> QED
  BY InvCorrect, <1>1, PTL

(* Number, object and file belong together: an object with a number is in  *)
(* the table there, and what is valid names the file it was made for.      *)
THEOREM NumbersMatchCorrect == Spec => []NumbersMatch
<1>1. ASSUME IInv PROVE ValidPair
  <2> USE FdAssumption
  <2> SUFFICES ASSUME ~foreign, NEW h \in Added
               PROVE  /\ \A n \in Fds : isValidNumber(n, h) => h \in removed \/ file[n] = ownFile[h]
                      /\ isValid(h) => file[descriptor[h]] = ownFile[h]
    BY DEF ValidPair
  <2>1. h # 0 /\ (descriptor[h] # NoFd => file[descriptor[h]] = ownFile[h])
    BY <1>1 DEF IInv, OwnInv, Added, Objects
  <2>2. \A n \in Fds : descriptors[n] = h => descriptor[h] = n \/ h \in removed
    BY <1>1, <2>1 DEF IInv, TableInv
  <2> QED
    BY <2>1, <2>2 DEF isValid, isValidNumber
<1>2. IInv => NumbersMatch
  BY <1>1 DEF IInv, NumbersMatch
<1> QED
  BY InvCorrect, <1>2, PTL

(* No file is forgotten: whatever is open can still be closed.             *)
THEOREM NoLeakCorrect == Spec => []NoLeak
<1>1. IInv => NoLeak
  BY DEF IInv
<1> QED
  BY InvCorrect, <1>1, PTL
=============================================================================
