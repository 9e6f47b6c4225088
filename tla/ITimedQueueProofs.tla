-------------------------- MODULE ITimedQueueProofs --------------------------
(***************************************************************************)
(* Proofs about ITimedQueue for any number of clients, any finite set of   *)
(* entries and any times.  An id that is given out is in the future of its *)
(* client's wish, and stays with its entry in the buffer, with a client    *)
(* that gave it back, or in the past: so a removal can only meet another   *)
(* entry where that one was late already when it was queued.               *)
(***************************************************************************)
EXTENDS ITimedQueue, FiniteSetTheorems, WellFoundedInduction, TLAPS

EntryType ==
  /\ now \in Nat /\ buffer \in [Ids -> Entries \cup {NoEntry}]
  /\ inHand \in Entries \cup {NoEntry}
  /\ timeOf \in [Entries -> Times \cup {0}] /\ idOf \in [Entries -> Ids \cup {0}]
  /\ processed \subseteq Entries /\ removed \subseteq Entries
  /\ cancelled \subseteq Entries /\ overdue \subseteq Entries

(* The thread has an entry in its hand exactly while it processes one, and *)
(* is gone while the queue is stopped.                                     *)
ThreadInv ==
  /\ worker = "process" <=> inHand # NoEntry
  /\ owner = "stopped" => worker = "none"

(* An entry that was queued is where its id says, in the thread's hand,    *)
(* processed or removed, and in one of these places only.                  *)
PlaceInv ==
  /\ \A e \in Entries : timeOf[e] = 0 <=> idOf[e] = 0
  /\ \A i \in Ids : buffer[i] # NoEntry =>
       /\ idOf[buffer[i]] = i /\ buffer[i] # inHand
       /\ buffer[i] \notin processed /\ buffer[i] \notin removed
  /\ inHand # NoEntry => idOf[inHand] # 0 /\ inHand \notin processed /\ inHand \notin removed
  /\ \A e \in processed : idOf[e] # 0 /\ e \notin removed
  /\ \A e \in removed : idOf[e] # 0
  /\ \A e \in Entries : idOf[e] # 0 =>
       buffer[idOf[e]] = e \/ e = inHand \/ e \in processed \/ e \in removed

(* What an id that is given out stands for.                                *)
IdInv ==
  /\ \A e \in Entries : timeOf[e] <= idOf[e]
  /\ \A e \in Entries : idOf[e] # 0 => e \in cancelled \/ buffer[idOf[e]] = e \/ idOf[e] <= now
  /\ \A e \in Entries : idOf[e] # 0 /\ buffer[idOf[e]] \notin overdue \cup {e, NoEntry} => e \in cancelled

IInv == EntryType /\ ThreadInv /\ PlaceInv /\ IdInv /\ RemovesOwn /\ NeverEarly
-----------------------------------------------------------------------------
LEMMA MinIsLeast ==
  ASSUME NEW S, S \subseteq Nat, S # {}
  PROVE  Min(S) \in S /\ \A i \in S : Min(S) <= i
<1> DEFINE Less == {p \in Nat \X Nat : p[1] < p[2]}
<1>1. IsWellFoundedOn(Less, Nat)
  BY NatLessThanWellFounded DEF OpToRel
<1>2. PICK m \in S : \A i \in S : ~ (<<i, m>> \in Less)
  BY <1>1, WFMin
<1>3. \A i \in S : m <= i
  <2> SUFFICES ASSUME NEW i \in S, i < m PROVE FALSE
    OBVIOUS
  <2>1. <<i, m>> \in Less
    OBVIOUS
  <2> QED
    BY <1>2, <2>1
<1> QED
  BY <1>3 DEF Min

(* There is always a free id: as many ids follow a time as there are       *)
(* entries, and the time itself.                                           *)
LEMMA FreeIdIsFree ==
  ASSUME EntryType, PlaceInv, NEW t \in Times
  PROVE  FreeId(t) \in Ids /\ FreeId(t) >= t /\ buffer[FreeId(t)] = NoEntry
<1> USE TimeAssumption
<1>1. Cardinality(Entries) \in Nat
  BY FS_CardinalityType
<1> DEFINE M == MaxTime + Cardinality(Entries)
           free == {i \in Ids : i >= t /\ i \notin Used}
<1>2. t \in Nat /\ t >= 1 /\ t <= MaxTime /\ M \in Nat /\ t \in Int /\ M \in Int
  BY <1>1 DEF Times
<1>3. free # {}
  <2> SUFFICES ASSUME free = {} PROVE FALSE
    OBVIOUS
  <2>1. \A i \in t .. M : i \in Ids /\ buffer[i] # NoEntry
    BY <1>2 DEF Used, Ids
  <2>2. IsFiniteSet(t .. M) /\ Cardinality(t .. M) = IF t > M THEN 0 ELSE M - t + 1
    BY <1>2, FS_Interval
  <2>3. Cardinality(t .. M) \in Nat /\ Cardinality(Entries) + 1 <= Cardinality(t .. M)
    BY <1>1, <1>2, <2>2
  <2> DEFINE f == [i \in t .. M |-> buffer[i]]
  <2>4. f \in Injection(t .. M, Entries)
    <3>1. f \in [t .. M -> Entries]
      BY <2>1 DEF EntryType
    <3>2. ASSUME NEW i \in t .. M, NEW j \in t .. M, f[i] = f[j] PROVE i = j
      BY <2>1, <3>2 DEF PlaceInv
    <3> QED
      BY <3>1, <3>2 DEF Injection, IsInjective
  <2>5. Cardinality(t .. M) <= Cardinality(Entries)
    BY <2>4, FS_Injection
  <2> QED
    BY <1>1, <2>3, <2>5
<1>4. free \subseteq Nat
  BY <1>2 DEF Ids
<1>5. Min(free) \in free
  BY <1>3, <1>4, MinIsLeast
<1> QED
  BY <1>5 DEF FreeId, Used

LEMMA FirstIsUsed ==
  ASSUME EntryType, ~Empty
  PROVE  First \in Ids /\ First \in Nat /\ buffer[First] \in Entries
<1> USE TimeAssumption
<1>1. Cardinality(Entries) \in Nat
  BY FS_CardinalityType
<1>2. Used \subseteq Nat /\ Used # {}
  BY <1>1 DEF Used, Ids, Empty
<1>3. First \in Used
  BY <1>2, MinIsLeast DEF First
<1> QED
  BY <1>2, <1>3 DEF Used, EntryType

LEMMA InitInv == Init => IInv
<1> SUFFICES ASSUME Init PROVE IInv
  OBVIOUS
<1> USE TimeAssumption DEF Init
<1>1. EntryType
  BY DEF EntryType
<1>2. ThreadInv /\ PlaceInv /\ IdInv
  BY DEF ThreadInv, PlaceInv, IdInv
<1> QED
  BY <1>1, <1>2 DEF IInv, RemovesOwn, NeverEarly

(* Whatever only concerns threads, waits and notifications.                *)
LEMMA EntriesStay ==
  ASSUME IInv, ThreadInv',
         UNCHANGED <<now, buffer, inHand, processed, timeOf, idOf, cancelled, removed, overdue, early>>
  PROVE  IInv'
  BY DEF IInv, EntryType, PlaceInv, IdInv, RemovesOwn, NeverEarly

LEMMA StepTick == IInv /\ Tick => IInv'
<1> SUFFICES ASSUME IInv, Tick PROVE IInv'
  OBVIOUS
<1>1. /\ now' = now + 1
      /\ UNCHANGED <<buffer, worker, inHand, processed, timeOf, idOf, cancelled, removed, overdue, early, owner>>
  BY DEF Tick, threadVars, clientVars, ownerVars
<1>2. EntryType'
  BY <1>1 DEF IInv, EntryType
<1>3. IdInv'
  <2>1. \A e \in Entries : idOf[e] \in Int /\ now \in Int
    BY TimeAssumption, FS_CardinalityType DEF IInv, EntryType, Ids
  <2> QED
    BY <1>1, <2>1 DEF IInv, IdInv
<1> QED
  BY <1>1, <1>2, <1>3 DEF IInv, ThreadInv, PlaceInv, RemovesOwn, NeverEarly

LEMMA StepEnqueue ==
  ASSUME IInv, NEW c \in Clients, NEW x \in Entries, NEW t \in Times, Enqueue(c, x, t)
  PROVE  IInv'
<1> USE TimeAssumption
<1>0. EntryType /\ ThreadInv /\ PlaceInv /\ IdInv /\ RemovesOwn /\ NeverEarly
  BY DEF IInv
<1> DEFINE id == FreeId(t)
<1>1. id \in Ids /\ id >= t /\ buffer[id] = NoEntry
  BY <1>0, FreeIdIsFree
<1>2. /\ timeOf[x] = 0
      /\ buffer' = [buffer EXCEPT ![id] = x] /\ idOf' = [idOf EXCEPT ![x] = id]
      /\ timeOf' = [timeOf EXCEPT ![x] = t]
      /\ overdue' = IF t > now THEN overdue ELSE overdue \cup {x}
      /\ UNCHANGED <<now, worker, inHand, processed, cancelled, removed, early, owner>>
  BY DEF Enqueue, threadVars, ownerVars
<1> HIDE DEF id
<1>3. t \in Nat \ {0} /\ id \in Nat \ {0} /\ now \in Nat
  BY <1>0, <1>1, FS_CardinalityType DEF EntryType, Ids, Times
<1>4. EntryType'
  BY <1>0, <1>1, <1>2 DEF EntryType
<1>5. /\ \A i \in Ids : buffer'[i] = IF i = id THEN x ELSE buffer[i]
      /\ \A e \in Entries : idOf'[e] = IF e = x THEN id ELSE idOf[e]
      /\ \A e \in Entries : timeOf'[e] = IF e = x THEN t ELSE timeOf[e]
  BY <1>0, <1>1, <1>2 DEF EntryType
<1>6. /\ idOf[x] = 0 /\ x # inHand /\ x \notin processed /\ x \notin removed
      /\ \A i \in Ids : buffer[i] # x
  <2>1. idOf[x] = 0 /\ x # NoEntry
    BY <1>0, <1>2 DEF PlaceInv
  <2>2. \A i \in Ids : buffer[i] # x
    BY <1>0, <1>3, <2>1, FS_CardinalityType DEF PlaceInv, Ids
  <2> QED
    BY <1>0, <2>1, <2>2 DEF PlaceInv
<1>7. PlaceInv'
  <2>1. \A e \in Entries : timeOf'[e] = 0 <=> idOf'[e] = 0
    BY <1>0, <1>3, <1>5 DEF PlaceInv
  <2>2. ASSUME NEW i \in Ids, buffer'[i] # NoEntry
        PROVE  /\ idOf'[buffer'[i]] = i /\ buffer'[i] # inHand
               /\ buffer'[i] \notin processed /\ buffer'[i] \notin removed
    <3>1. CASE i = id
      BY <1>5, <1>6, <3>1
    <3>2. CASE i # id
      BY <1>0, <1>5, <1>6, <2>2, <3>2 DEF PlaceInv, EntryType
    <3> QED
      BY <3>1, <3>2
  <2>3. /\ inHand # NoEntry => idOf'[inHand] # 0 /\ inHand \notin processed /\ inHand \notin removed
        /\ \A e \in processed : idOf'[e] # 0 /\ e \notin removed
        /\ \A e \in removed : idOf'[e] # 0
    BY <1>0, <1>5, <1>6 DEF PlaceInv, EntryType
  <2>4. ASSUME NEW e \in Entries, idOf'[e] # 0
        PROVE  buffer'[idOf'[e]] = e \/ e = inHand \/ e \in processed \/ e \in removed
    <3>1. CASE e = x
      BY <1>1, <1>5, <3>1
    <3>2. CASE e # x
      <4>1. idOf'[e] = idOf[e] /\ idOf[e] \in Ids
        BY <1>0, <1>5, <2>4, <3>2 DEF EntryType
      <4>2. buffer[idOf[e]] = e => idOf[e] # id
        BY <1>0, <1>1
      <4> QED
        BY <1>0, <1>5, <2>4, <4>1, <4>2 DEF PlaceInv
    <3> QED
      BY <3>1, <3>2
  <2> QED
    BY <1>2, <2>1, <2>2, <2>3, <2>4 DEF PlaceInv
<1>8. IdInv'
  <2>1. \A e \in Entries : timeOf'[e] <= idOf'[e]
    BY <1>0, <1>1, <1>5 DEF IdInv
  <2>2. ASSUME NEW e \in Entries, idOf'[e] # 0
        PROVE  e \in cancelled \/ buffer'[idOf'[e]] = e \/ idOf'[e] <= now
    <3>1. CASE e = x
      BY <1>1, <1>5, <3>1
    <3>2. CASE e # x
      <4>1. idOf'[e] = idOf[e] /\ idOf[e] \in Ids
        BY <1>0, <1>5, <2>2, <3>2 DEF EntryType
      <4>2. buffer[idOf[e]] = e => idOf[e] # id
        BY <1>0, <1>1
      <4> QED
        BY <1>0, <1>5, <2>2, <4>1, <4>2 DEF IdInv
    <3> QED
      BY <3>1, <3>2
  <2>3. ASSUME NEW e \in Entries, idOf'[e] # 0, buffer'[idOf'[e]] \notin overdue' \cup {e, NoEntry}
        PROVE  e \in cancelled
    <3>1. e # x
      BY <1>1, <1>5, <2>3
    <3>2. idOf'[e] = idOf[e] /\ idOf[e] \in Ids /\ idOf[e] # 0
      BY <1>0, <1>5, <2>3, <3>1 DEF EntryType
    <3>3. CASE idOf[e] = id
      <4>1. t > now
        BY <1>2, <1>5, <2>3, <3>2, <3>3
      <4>2. ~(idOf[e] <= now) /\ buffer[idOf[e]] # e
        BY <1>1, <1>3, <3>3, <4>1
      <4> QED
        BY <1>0, <3>2, <4>2 DEF IdInv
    <3>4. CASE idOf[e] # id
      <4>1. buffer[idOf[e]] \notin overdue \cup {e, NoEntry}
        BY <1>2, <1>5, <2>3, <3>2, <3>4
      <4> QED
        BY <1>0, <3>2, <4>1 DEF IdInv
    <3> QED
      BY <3>3, <3>4
  <2> QED
    BY <1>2, <2>1, <2>2, <2>3 DEF IdInv
<1>9. RemovesOwn' /\ NeverEarly' /\ ThreadInv'
  BY <1>0, <1>2 DEF RemovesOwn, NeverEarly, ThreadInv
<1> QED
  BY <1>4, <1>7, <1>8, <1>9 DEF IInv

(* The entry at the id is the client's own, or another one that was late   *)
(* when it was queued.                                                     *)
LEMMA StepRemove ==
  ASSUME IInv, NEW x \in Entries, RemoveQueueEntry(x)
  PROVE  IInv'
<1> USE TimeAssumption
<1>0. EntryType /\ ThreadInv /\ PlaceInv /\ IdInv /\ RemovesOwn /\ NeverEarly
  BY DEF IInv
<1> DEFINE k == idOf[x]
           y == buffer[k]
<1>1. /\ k # 0 /\ x \notin cancelled
      /\ cancelled' = cancelled \cup {x} /\ removed' = removed \cup ({y} \ {NoEntry})
      /\ buffer' = [buffer EXCEPT ![k] = NoEntry]
      /\ UNCHANGED <<now, worker, inHand, processed, timeOf, idOf, overdue, early, owner>>
  BY DEF RemoveQueueEntry, threadVars, ownerVars
<1>2. k \in Ids /\ y \in Entries \cup {NoEntry}
  BY <1>0, <1>1 DEF EntryType
<1>3. y \in overdue \cup {x, NoEntry}
  BY <1>0, <1>1 DEF IdInv
<1>4. y # NoEntry /\ y # x => idOf[y] = k /\ k <= now
  BY <1>0, <1>1, <1>2 DEF IdInv, PlaceInv
<1>5. y # NoEntry => idOf[y] = k /\ y # inHand /\ y \notin processed /\ y \notin removed
  BY <1>0, <1>2 DEF PlaceInv
<1> HIDE DEF k, y
<1>6. EntryType'
  BY <1>0, <1>1, <1>2 DEF EntryType
<1>7. \A i \in Ids : buffer'[i] = IF i = k THEN NoEntry ELSE buffer[i]
  BY <1>0, <1>1, <1>2 DEF EntryType
<1>8. ASSUME NEW e \in Entries, idOf[e] # 0, buffer[idOf[e]] = e, buffer'[idOf[e]] # e
      PROVE  e = y
  <2>1. idOf[e] \in Ids
    BY <1>0, <1>8 DEF EntryType
  <2> QED
    BY <1>7, <1>8, <2>1 DEF y
<1>9. PlaceInv'
  <2>1. ASSUME NEW i \in Ids, buffer'[i] # NoEntry
        PROVE  /\ idOf[buffer'[i]] = i /\ buffer'[i] # inHand
               /\ buffer'[i] \notin processed /\ buffer'[i] \notin removed'
    <3>1. i # k /\ buffer'[i] = buffer[i]
      BY <1>7, <2>1
    <3>2. idOf[buffer[i]] = i /\ buffer[i] # NoEntry
      BY <1>0, <2>1, <3>1 DEF PlaceInv
    <3>3. buffer[i] # y
      BY <1>5, <3>1, <3>2
    <3> QED
      BY <1>0, <1>1, <3>1, <3>2, <3>3 DEF PlaceInv
  <2>2. inHand # NoEntry => idOf[inHand] # 0 /\ inHand \notin processed /\ inHand \notin removed'
    BY <1>0, <1>1, <1>5 DEF PlaceInv
  <2>3. \A e \in processed : idOf[e] # 0 /\ e \notin removed'
    BY <1>0, <1>1, <1>5 DEF PlaceInv
  <2>4. \A e \in removed' : idOf[e] # 0
    BY <1>0, <1>1, <1>5 DEF PlaceInv
  <2>5. ASSUME NEW e \in Entries, idOf[e] # 0
        PROVE  buffer'[idOf[e]] = e \/ e = inHand \/ e \in processed \/ e \in removed'
    BY <1>0, <1>1, <1>8, <2>5 DEF PlaceInv
  <2> QED
    BY <1>0, <1>1, <2>1, <2>2, <2>3, <2>4, <2>5 DEF PlaceInv
<1>10. IdInv'
  <2>1. ASSUME NEW e \in Entries, idOf[e] # 0
        PROVE  e \in cancelled' \/ buffer'[idOf[e]] = e \/ idOf[e] <= now
    <3>1. CASE buffer[idOf[e]] = e /\ buffer'[idOf[e]] # e
      <4>1. e = y
        BY <1>8, <2>1, <3>1
      <4> QED
        BY <1>1, <1>4, <4>1
    <3>2. CASE ~(buffer[idOf[e]] = e /\ buffer'[idOf[e]] # e)
      BY <1>0, <1>1, <2>1, <3>2 DEF IdInv
    <3> QED
      BY <3>1, <3>2
  <2>2. ASSUME NEW e \in Entries, idOf[e] # 0, buffer'[idOf[e]] \notin overdue \cup {e, NoEntry}
        PROVE  e \in cancelled'
    <3>1. idOf[e] \in Ids
      BY <1>0, <2>2 DEF EntryType
    <3>2. buffer'[idOf[e]] = buffer[idOf[e]]
      BY <1>7, <2>2, <3>1
    <3> QED
      BY <1>0, <1>1, <2>2, <3>2 DEF IdInv
  <2> QED
    BY <1>0, <1>1, <2>1, <2>2 DEF IdInv
<1>11. RemovesOwn' /\ NeverEarly' /\ ThreadInv'
  BY <1>0, <1>1, <1>3 DEF RemovesOwn, NeverEarly, ThreadInv
<1> QED
  BY <1>6, <1>9, <1>10, <1>11 DEF IInv

LEMMA StepTake == IInv /\ Take => IInv'
<1> SUFFICES ASSUME IInv, Take PROVE IInv'
  OBVIOUS
<1> USE TimeAssumption
<1>0. EntryType /\ ThreadInv /\ PlaceInv /\ IdInv /\ RemovesOwn /\ NeverEarly
  BY DEF IInv
<1>1. /\ worker = "take" /\ inHand = NoEntry
      /\ UNCHANGED <<now, processed, timeOf, idOf, cancelled, removed, overdue, owner>>
  BY <1>0 DEF Take, clientVars, ownerVars, ThreadInv
<1>2. CASE ~Due
  <2>1. worker' = "top" /\ UNCHANGED <<inHand, buffer, early>>
    BY <1>2 DEF Take
  <2>2. ThreadInv'
    BY <1>0, <1>1, <2>1 DEF ThreadInv
  <2> QED
    BY <1>1, <2>1, <2>2, EntriesStay
<1>3. CASE Due
  <2> DEFINE k == First
             y == buffer[k]
  <2>1. k \in Ids /\ k \in Nat /\ y \in Entries /\ k <= now
    BY <1>0, <1>3, FirstIsUsed DEF Due
  <2>2. /\ inHand' = y /\ buffer' = [buffer EXCEPT ![k] = NoEntry]
        /\ early' = (early \/ timeOf[y] > now) /\ worker' = "process"
    BY <1>3 DEF Take
  <2>3. y # NoEntry /\ idOf[y] = k /\ y \notin processed /\ y \notin removed /\ k # 0
    BY <1>0, <2>1 DEF PlaceInv, Ids
  <2>4. timeOf[y] <= now
    BY <1>0, <2>1, <2>3 DEF IdInv, EntryType, Times
  <2> HIDE DEF k, y
  <2>5. EntryType'
    BY <1>0, <1>1, <2>1, <2>2 DEF EntryType
  <2>6. \A i \in Ids : buffer'[i] = IF i = k THEN NoEntry ELSE buffer[i]
    BY <1>0, <2>1, <2>2 DEF EntryType
  <2>7. ASSUME NEW e \in Entries, idOf[e] # 0, buffer[idOf[e]] = e, buffer'[idOf[e]] # e
        PROVE  e = y
    <3>1. idOf[e] \in Ids
      BY <1>0, <2>7 DEF EntryType
    <3> QED
      BY <2>6, <2>7, <3>1 DEF y
  <2>8. PlaceInv'
    <3>1. ASSUME NEW i \in Ids, buffer'[i] # NoEntry
          PROVE  /\ idOf[buffer'[i]] = i /\ buffer'[i] # y
                 /\ buffer'[i] \notin processed /\ buffer'[i] \notin removed
      BY <1>0, <2>3, <2>6, <3>1 DEF PlaceInv
    <3>2. ASSUME NEW e \in Entries, idOf[e] # 0
          PROVE  buffer'[idOf[e]] = e \/ e = y \/ e \in processed \/ e \in removed
      BY <1>0, <1>1, <2>7, <3>2 DEF PlaceInv
    <3> QED
      BY <1>0, <1>1, <2>2, <2>3, <3>1, <3>2 DEF PlaceInv
  <2>9. IdInv'
    <3>1. ASSUME NEW e \in Entries, idOf[e] # 0
          PROVE  e \in cancelled \/ buffer'[idOf[e]] = e \/ idOf[e] <= now
      BY <1>0, <2>1, <2>3, <2>7, <3>1 DEF IdInv
    <3>2. ASSUME NEW e \in Entries, idOf[e] # 0, buffer'[idOf[e]] \notin overdue \cup {e, NoEntry}
          PROVE  e \in cancelled
      <4>1. idOf[e] \in Ids
        BY <1>0, <3>2 DEF EntryType
      <4> QED
        BY <1>0, <2>6, <3>2, <4>1 DEF IdInv
    <3> QED
      BY <1>0, <1>1, <3>1, <3>2 DEF IdInv
  <2>10. ~early'
    <3>1. ~(timeOf[y] > now)
      BY <1>0, <2>1, <2>4 DEF EntryType, Times
    <3> QED
      BY <1>0, <2>2, <3>1 DEF NeverEarly
  <2> QED
    BY <1>0, <1>1, <2>2, <2>3, <2>5, <2>8, <2>9, <2>10
    DEF IInv, ThreadInv, RemovesOwn, NeverEarly
<1> QED
  BY <1>2, <1>3

LEMMA StepProcess == IInv /\ Process => IInv'
<1> SUFFICES ASSUME IInv, Process PROVE IInv'
  OBVIOUS
<1>0. EntryType /\ ThreadInv /\ PlaceInv /\ IdInv /\ RemovesOwn /\ NeverEarly
  BY DEF IInv
<1>1. /\ worker = "process" /\ worker' = "top" /\ processed' = processed \cup {inHand} /\ inHand' = NoEntry
      /\ UNCHANGED <<now, buffer, timeOf, idOf, cancelled, removed, overdue, early, owner>>
  BY DEF Process, clientVars, ownerVars
<1>2. inHand \in Entries
  BY <1>0, <1>1 DEF ThreadInv, EntryType
<1>3. EntryType'
  BY <1>0, <1>1, <1>2 DEF EntryType
<1>4. PlaceInv'
  BY <1>0, <1>1, <1>2, TimeAssumption DEF PlaceInv, EntryType
<1> QED
  BY <1>0, <1>1, <1>3, <1>4 DEF IInv, IdInv, RemovesOwn, NeverEarly, ThreadInv

LEMMA StepInv == IInv /\ [Next]_vars => IInv'
<1> SUFFICES ASSUME IInv, [Next]_vars PROVE IInv'
  OBVIOUS
<1>0. ThreadInv
  BY DEF IInv
<1>1. CASE Tick
  BY <1>1, StepTick
<1>2. ASSUME NEW c \in Clients, NEW e \in Entries, NEW t \in Times, Enqueue(c, e, t) PROVE IInv'
  BY <1>2, StepEnqueue
<1>3. ASSUME NEW c \in Clients, EnqueueNotify(c) PROVE IInv'
  <2>1. ThreadInv'
    BY <1>0, <1>3 DEF EnqueueNotify, Woken, ThreadInv, ownerVars
  <2> QED
    BY <1>3, <2>1, EntriesStay DEF EnqueueNotify
<1>4. ASSUME NEW e \in Entries, RemoveQueueEntry(e) PROVE IInv'
  BY <1>4, StepRemove
<1>5. CASE Top \/ Look \/ EvalUntil \/ EvalIdle \/ Sleep \/ Timeout \/ Reset \/ Check \/ SpuriousWakeup
  <2>1. /\ UNCHANGED <<now, buffer, inHand, processed, early, clientVars, ownerVars>>
        /\ worker \notin {"none", "process"} /\ worker' # "process"
    BY <1>5 DEF Top, Look, EvalUntil, EvalIdle, Sleep, Timeout, Reset, Check, SpuriousWakeup, Goto
  <2>2. ThreadInv'
    BY <1>0, <2>1 DEF ThreadInv, ownerVars
  <2> QED
    BY <2>1, <2>2, EntriesStay DEF clientVars
<1>6. CASE Take
  BY <1>6, StepTake
<1>7. CASE Process
  BY <1>7, StepProcess
<1>8. CASE StartQueue \/ StopBegin \/ StopNotify \/ StopReturn
  <2>1. UNCHANGED <<now, buffer, inHand, processed, early, clientVars>>
    BY <1>8 DEF StartQueue, StopBegin, StopNotify, StopReturn, threadVars
  <2>2. ThreadInv'
    BY <1>0, <1>8 DEF StartQueue, StopBegin, StopNotify, StopReturn, threadVars, ThreadInv, Woken, Joined
  <2> QED
    BY <2>1, <2>2, EntriesStay DEF clientVars
<1>9. CASE UNCHANGED vars
  <2>1. ThreadInv'
    BY <1>0, <1>9 DEF vars, threadVars, ownerVars, ThreadInv
  <2> QED
    BY <1>9, <2>1, EntriesStay DEF vars, threadVars, clientVars
<1> QED
  BY <1>1, <1>2, <1>3, <1>4, <1>5, <1>6, <1>7, <1>8, <1>9 DEF Next, WorkerStep

(* One place for each entry makes the sum of the places 1.                 *)
LEMMA PlacesAddUp == EntryType /\ PlaceInv => Conservation
<1> SUFFICES ASSUME EntryType, PlaceInv, NEW e \in Entries, timeOf[e] # 0
             PROVE  LET elsewhere == <<e = inHand, e \in processed, e \in removed>>
                    IN  Cardinality({i \in Ids : buffer[i] = e})
                          + Cardinality({k \in DOMAIN elsewhere : elsewhere[k]}) = 1
  BY DEF Conservation
<1> DEFINE elsewhere == <<e = inHand, e \in processed, e \in removed>>
           here == {i \in Ids : buffer[i] = e}
           there == {k \in DOMAIN elsewhere : elsewhere[k]}
<1>1. e # NoEntry /\ idOf[e] \in Ids
  BY TimeAssumption DEF EntryType, PlaceInv
<1>2. here = IF buffer[idOf[e]] = e THEN {idOf[e]} ELSE {}
  BY <1>1 DEF PlaceInv
<1>3. there = {k \in {1, 2, 3} : \/ k = 1 /\ e = inHand
                                 \/ k = 2 /\ e \in processed
                                 \/ k = 3 /\ e \in removed}
  <2>1. DOMAIN elsewhere = {1, 2, 3}
    OBVIOUS
  <2>2. elsewhere[1] = (e = inHand) /\ elsewhere[2] = (e \in processed) /\ elsewhere[3] = (e \in removed)
    OBVIOUS
  <2> QED
    BY <2>1, <2>2
<1>4. \/ buffer[idOf[e]] = e /\ there = {}
      \/ buffer[idOf[e]] # e /\ \E k : there = {k}
  <2>1. CASE buffer[idOf[e]] = e
    BY <1>1, <1>3, <2>1 DEF PlaceInv
  <2>2. CASE buffer[idOf[e]] # e /\ e = inHand
    <3>1. there = {1}
      BY <1>1, <1>3, <2>2 DEF PlaceInv
    <3> QED
      BY <2>2, <3>1
  <2>3. CASE buffer[idOf[e]] # e /\ e \in processed
    <3>1. there = {2}
      BY <1>1, <1>3, <2>3 DEF PlaceInv
    <3> QED
      BY <2>3, <3>1
  <2>4. CASE buffer[idOf[e]] # e /\ e \in removed
    <3>1. there = {3}
      BY <1>1, <1>3, <2>4 DEF PlaceInv
    <3> QED
      BY <2>4, <3>1
  <2> QED
    BY <2>1, <2>2, <2>3, <2>4 DEF PlaceInv
<1> HIDE DEF here, there
<1>5. Cardinality(here) + Cardinality(there) = 1
  <2>1. Cardinality({}) = 0 /\ \A x : Cardinality({x}) = 1
    BY FS_EmptySet, FS_Singleton
  <2>2. CASE buffer[idOf[e]] = e /\ there = {}
    <3>1. Cardinality(here) = 1 /\ Cardinality(there) = 0
      BY <1>2, <2>1, <2>2
    <3> QED
      BY <3>1
  <2>3. CASE buffer[idOf[e]] # e /\ \E k : there = {k}
    <3>1. Cardinality(here) = 0 /\ Cardinality(there) = 1
      BY <1>2, <2>1, <2>3
    <3> QED
      BY <3>1
  <2> QED
    BY <1>4, <2>2, <2>3
<1> QED
  BY <1>5 DEF here, there

(* An entry leaves the queue once, to be processed when it is due, or      *)
(* because its own id was given back, for any number of entries and        *)
(* clients, whatever ids had to be moved and however often it is stopped.  *)
THEOREM LeavesOnceCorrect == Spec => []LeavesOnce
<1>1. IInv => LeavesOnce
  BY PlacesAddUp DEF IInv, LeavesOnce
<1> QED
  BY InitInv, StepInv, <1>1, PTL DEF Spec
=============================================================================
