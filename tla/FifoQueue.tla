------------------------------ MODULE FifoQueue ------------------------------
(***************************************************************************)
(* What libhomegear-base promises to a class derived from IQueue about one *)
(* queue index, without threads, locks or a ring buffer: while the queue   *)
(* is open, entries are put at the back, at most Capacity of them wait,    *)
(* each is taken from the front and given to processQueueEntry() at most   *)
(* once, and closing the queue drops what still waits, but only after      *)
(* every entry already taken has been processed.                           *)
(* IQueue.tla is checked to implement this specification.                  *)
(***************************************************************************)
EXTENDS Integers, Sequences, FiniteSets, SequencesExt

CONSTANTS Entries,      \* the items clients enqueue, each of them once
          Capacity      \* the bufferSize given to the constructor

VARIABLES queue,        \* the entries waiting, oldest first
          hand,         \* the entries taken and being processed
          done,         \* the entries whose processQueueEntry() call ended
          open          \* TRUE from startQueue() to the end of stopQueue()

vars == <<queue, hand, done, open>>

TypeOK == /\ queue \in Seq(Entries)
          /\ hand \subseteq Entries
          /\ done \subseteq Entries
          /\ open \in BOOLEAN

Init == /\ queue = <<>>
        /\ hand = {}
        /\ done = {}
        /\ open = FALSE

Fresh(e) == e \notin ToSet(queue) \cup hand \cup done

Open == /\ ~open
        /\ open' = TRUE
        /\ UNCHANGED <<queue, hand, done>>

Put(e) == /\ open
          /\ Fresh(e)
          /\ Len(queue) < Capacity
          /\ queue' = Append(queue, e)
          /\ UNCHANGED <<hand, done, open>>

Take == /\ open
        /\ queue # <<>>
        /\ queue' = Tail(queue)
        /\ hand' = hand \cup {Head(queue)}
        /\ UNCHANGED <<done, open>>

Finish(e) == /\ e \in hand
             /\ hand' = hand \ {e}
             /\ done' = done \cup {e}
             /\ UNCHANGED <<queue, open>>

Close == /\ open
         /\ hand = {}
         /\ open' = FALSE
         /\ queue' = <<>>
         /\ UNCHANGED <<hand, done>>

Next == \/ Open
        \/ \E e \in Entries : Put(e) \/ Finish(e)
        \/ Take
        \/ Close

Spec == Init /\ [][Next]_vars

(* A waiting entry is taken or dropped by a stop, and a taken one ends.    *)
Fairness == /\ WF_vars(queue # <<>> /\ (Take \/ Close))
            /\ \A e \in Entries : WF_vars(Finish(e))

FairSpec == Spec /\ Fairness
=============================================================================
