------------------------------ MODULE HgdcProofs ------------------------------
(***************************************************************************)
(* Proofs about Hgdc for any number of callers, calls and breaks.  What    *)
(* keeps a late response from ending the next call is that listen() looks  *)
(* at _rpcResponses and sets the mark in one section under the mutex of    *)
(* the wait, and that invoke() holds that mutex from the test of its       *)
(* predicate to the sleep, and from the last test to the end.              *)
(*                                                                         *)
(* The second half is about the frames in which the packets of Hgdc and    *)
(* those of other connections travel (Framing): what the senders send are  *)
(* frames as the parsers expect them (RpcFrame, WebFrame), a parser that   *)
(* has the beginning of such a frame has more of it, or all of it, after   *)
(* process() (RpcOutcome, WebOutcome), and the bytes on their way are the  *)
(* rest of the frames (FramingInvariant).                                  *)
(***************************************************************************)
EXTENDS Hgdc, Framing, SequenceTheorems, TLAPS

Responses == [kind : {"response"}, to : Callers, id : Nat \ {0}]
Packets == Responses \cup {[kind |-> "request"]}
Locked == {"doze", "end", "forget"}

NetType ==
  /\ listener \in {"ended", "loop", "open", "spinning", "request", "response", "mark", "notify"}
  /\ parser \in Packets \cup {Nothing} /\ server \subseteq Responses
  /\ wire \in Seq(Packets \X {1, 2})
  /\ listener \in {"response", "mark", "notify"} => packet \in Responses
  /\ user = "off" => listener = "ended"

CallType ==
  /\ caller \in [Callers -> {"idle", "send", "lock", "sleep"} \cup Locked]
  /\ id \in [Callers -> Nat] /\ waiting \in [Callers -> Nat]
  /\ answer \in [Callers -> Nat] /\ result \in [Callers -> Nat]
  /\ gaveUp \in [Callers -> BOOLEAN] /\ waitMutex \in [Callers -> Callers \cup {NoOne}]
  /\ left \in [calls : Int, others : Int, id : Nat \ {0}]

(* What each caller knows, and who holds the mutex of its wait.            *)
CallInv ==
  \A t \in Callers :
    /\ waitMutex[t] = IF caller[t] \in Locked THEN t ELSE NoOne
    /\ id[t] = 0 <=> caller[t] = "idle"
    /\ waiting[t] = IF caller[t] \in {"idle", "forget"} THEN 0 ELSE id[t]
    /\ answer[t] \in {0, id[t]}
    /\ caller[t] = "doze" => answer[t] = 0
    /\ caller[t] = "end" /\ answer[t] = 0 => gaveUp[t]

IInv == NetType /\ CallType /\ CallInv /\ OwnResponse /\ ResponseWakes
-----------------------------------------------------------------------------
LEMMA InitInv == Init => IInv
<1> SUFFICES ASSUME Init PROVE IInv
  OBVIOUS
<1> USE HgdcAssumption
<1>1. NetType
  BY EmptySeq DEF Init, NetType
<1>2. CallType
  BY DEF Init, CallType
<1> QED
  BY <1>1, <1>2 DEF Init, IInv, CallInv, Locked, OwnResponse, ResponseWakes

(* The network and the parser only hold whole packets, cut in two.         *)
LEMMA StepNet == IInv /\ [Next]_vars => NetType'
<1> SUFFICES ASSUME IInv, [Next]_vars PROVE NetType'
  OBVIOUS
<1>0. NetType /\ CallType /\ CallInv
  BY DEF IInv
<1> DEFINE Piece == Packets \X {1, 2}
<1>1. CASE Start \/ Stop \/ Join \/ Loop \/ Open \/ ReadFails
  BY <1>0, <1>1, EmptySeq DEF Start, Stop, Join, Loop, Open, ReadFails, NetType, net
<1>2. CASE ReadPiece
  <2> DEFINE p == Head(wire)[1]
             half == Head(wire)[2]
  <2>1. /\ p \in Packets /\ half \in {1, 2} /\ Tail(wire) \in Seq(Piece)
        /\ wire' = Tail(wire) /\ server' = server
    <3>1. wire \in Seq(Piece) /\ wire # <<>>
      BY <1>0, <1>2 DEF NetType, ReadPiece
    <3>2. Head(wire) \in Piece /\ Tail(wire) \in Seq(Piece)
      BY <3>1, HeadTailProperties
    <3> QED
      BY <1>2, <3>2 DEF ReadPiece
  <2>2. /\ parser' \in Packets \cup {Nothing} /\ user' # "off"
        /\ \/ listener' \in {"loop", "spinning"}
           \/ listener' = p.kind /\ packet' = p
    BY <1>0, <1>2, <2>1 DEF ReadPiece, NetType
  <2>3. p.kind \in {"request", "response"} /\ (p.kind = "response" => p \in Responses)
    BY <2>1 DEF Packets, Responses
  <2> QED
    BY <1>0, <2>1, <2>2, <2>3 DEF NetType
<1>3. CASE Request \/ FindCaller \/ Mark \/ Notify
  BY <1>0, <1>3 DEF Request, FindCaller, Mark, Notify, NetType, net
<1>4. ASSUME NEW t \in Callers, Send(t) PROVE NetType'
  <2>1. id[t] \in Nat \ {0}
    BY <1>0, <1>4 DEF Send, At, CallType, CallInv
  <2>2. [kind |-> "response", to |-> t, id |-> id[t]] \in Responses
    BY <2>1 DEF Responses
  <2> QED
    BY <1>0, <1>4, <2>2 DEF Send, NetType, ends
<1>5. ASSUME NEW t \in Callers,
             Begin(t) \/ Check(t) \/ Sleep(t) \/ Wake(t, FALSE) \/ Wake(t, TRUE) \/ End(t) \/ Forget(t)
      PROVE  NetType'
  BY <1>0, <1>5 DEF Begin, Check, Sleep, Wake, End, Forget, NetType, ends, net
<1>6. ASSUME NEW p \in Packets PROVE Pieces(p) \in Seq(Piece)
  BY <1>6 DEF Pieces
<1>7. ASSUME NEW p \in server, Respond(p) PROVE NetType'
  <2>1. p \in Packets
    BY <1>0 DEF NetType, Packets
  <2>2. wire \o Pieces(p) \in Seq(Piece)
    BY <1>0, <1>6, <2>1, ConcatProperties DEF NetType
  <2> QED
    BY <1>0, <1>7, <2>2 DEF Respond, NetType, ends
<1>8. CASE RaiseEvent
  <2>1. wire \o Pieces([kind |-> "request"]) \in Seq(Piece)
    BY <1>0, <1>6, ConcatProperties DEF NetType, Packets
  <2> QED
    BY <1>0, <1>8, <2>1 DEF RaiseEvent, NetType, ends
<1>9. CASE Break
  <2>1. PICK n \in 0 .. Len(wire) : wire' = SubSeq(wire, 1, n)
    BY <1>9 DEF Break
  <2>2. wire \in Seq(Piece) /\ Len(wire) \in Nat
    BY <1>0, LenProperties DEF NetType
  <2>3. \A i \in 1 .. n : wire[i] \in Piece
    BY <2>1, <2>2, ElementOfSeq
  <2>4. wire' \in Seq(Piece)
    BY <2>1, <2>2, <2>3, SubSeqProperties
  <2> QED
    BY <1>0, <1>9, <2>4 DEF Break, NetType, ends
<1>10. CASE ProcessEvent \/ UNCHANGED vars
  BY <1>0, <1>10 DEF ProcessEvent, NetType, vars, ends, net
<1> QED
  BY <1>1, <1>2, <1>3, <1>4, <1>5, <1>7, <1>8, <1>9, <1>10 DEF Next, Listen, Proceed

(* Steps of the others, and of the listener except for the mark.           *)
LEMMA CallsStay ==
  ASSUME IInv, UNCHANGED calls, left' \in [calls : Int, others : Int, id : Nat \ {0}]
  PROVE  CallType' /\ CallInv' /\ OwnResponse'
  BY DEF IInv, CallType, CallInv, OwnResponse, calls

(* A step of one caller that changes what only that caller's variables say.*)
LEMMA OneCaller ==
  ASSUME IInv, NEW t \in Callers, CallType',
         \A u \in Callers \ {t} : /\ caller'[u] = caller[u] /\ id'[u] = id[u] /\ waiting'[u] = waiting[u]
                                  /\ answer'[u] = answer[u] /\ result'[u] = result[u]
                                  /\ gaveUp'[u] = gaveUp[u] /\ waitMutex'[u] = waitMutex[u],
         waitMutex'[t] = IF caller'[t] \in Locked THEN t ELSE NoOne,
         id'[t] = 0 <=> caller'[t] = "idle",
         waiting'[t] = IF caller'[t] \in {"idle", "forget"} THEN 0 ELSE id'[t],
         answer'[t] \in {0, id'[t]},
         caller'[t] = "doze" => answer'[t] = 0,
         caller'[t] = "end" /\ answer'[t] = 0 => gaveUp'[t],
         caller'[t] = "forget" => result'[t] \in {0, id'[t]} /\ (result'[t] = 0 => gaveUp'[t])
  PROVE  CallInv' /\ OwnResponse'
<1>1. CallInv /\ OwnResponse
  BY DEF IInv
<1>2. CallInv'
  BY <1>1 DEF CallInv, Locked
<1>3. OwnResponse'
  BY <1>1 DEF OwnResponse
<1> QED
  BY <1>2, <1>3

LEMMA StepCalls == IInv /\ [Next]_vars => CallType' /\ CallInv' /\ OwnResponse'
<1> SUFFICES ASSUME IInv, [Next]_vars PROVE CallType' /\ CallInv' /\ OwnResponse'
  OBVIOUS
<1> USE HgdcAssumption
<1>0. NetType /\ CallType /\ CallInv /\ OwnResponse
  BY DEF IInv
<1>1. CASE \/ Start \/ Stop \/ Join \/ Loop \/ Open \/ ReadFails \/ ReadPiece \/ Request
           \/ RaiseEvent \/ Break \/ ProcessEvent \/ UNCHANGED vars \/ \E p \in server : Respond(p)
  <2>1. UNCHANGED calls
    BY <1>1 DEF Start, Stop, Join, Loop, Open, ReadFails, ReadPiece, Request, RaiseEvent, Break,
       ProcessEvent, Respond, vars
  <2>2. left' \in [calls : Int, others : Int, id : Nat \ {0}]
    BY <1>0, <1>1 DEF CallType, Start, Stop, Join, Loop, Open, ReadFails, ReadPiece, Request, RaiseEvent,
       Break, ProcessEvent, Respond, vars
  <2> QED
    BY <2>1, <2>2, CallsStay
<1>2. CASE FindCaller
  BY <1>0, <1>2 DEF FindCaller, CallType, CallInv, OwnResponse
<1>3. CASE Mark
  <2> DEFINE t == packet.to
  <2>1. /\ t \in Callers /\ packet.id \in Nat \ {0} /\ waitMutex[t] = NoOne
        /\ UNCHANGED <<caller, id, waitMutex, waiting, result, gaveUp, left>>
        /\ answer' = IF waiting[t] = packet.id THEN [answer EXCEPT ![t] = packet.id] ELSE answer
    BY <1>0, <1>3 DEF Mark, NetType, Responses, WaitMutexFree, Answers
  <2>2. caller[t] \notin Locked
    BY <1>0, <2>1 DEF CallInv
  <2>3. waiting[t] = packet.id => id[t] = packet.id
    BY <1>0, <2>1 DEF CallInv
  <2>4. answer' \in [Callers -> Nat] /\ \A u \in Callers : answer'[u] = answer[u] \/ (u = t /\ answer'[u] = id[u])
    BY <1>0, <2>1, <2>3 DEF CallType
  <2>5. CallType'
    BY <1>0, <2>1, <2>4 DEF CallType
  <2>6. CallInv' /\ OwnResponse'
    BY <1>0, <2>1, <2>2, <2>4 DEF CallInv, OwnResponse, Locked
  <2> QED
    BY <2>5, <2>6
<1>4. CASE Notify
  <2>1. /\ UNCHANGED <<id, waitMutex, waiting, answer, result, gaveUp, left>>
        /\ packet.to \in Callers
        /\ caller' = IF caller[packet.to] = "sleep" THEN [caller EXCEPT ![packet.to] = "lock"] ELSE caller
    BY <1>0, <1>4 DEF Notify, NetType, Responses
  <2>2. \A u \in Callers : caller'[u] = caller[u] \/ (caller[u] = "sleep" /\ caller'[u] = "lock")
    BY <1>0, <2>1 DEF CallType
  <2>3. CallType'
    BY <1>0, <2>1 DEF CallType
  <2>4. CallInv' /\ OwnResponse'
    BY <1>0, <2>1, <2>2 DEF CallInv, OwnResponse, Locked
  <2> QED
    BY <2>3, <2>4
<1>5. ASSUME NEW t \in Callers, Begin(t) PROVE CallType' /\ CallInv' /\ OwnResponse'
  <2>1. /\ caller[t] = "idle" /\ caller' = [caller EXCEPT ![t] = "send"]
        /\ id' = [id EXCEPT ![t] = left.id] /\ waiting' = [waiting EXCEPT ![t] = left.id]
        /\ left' = [left EXCEPT !.calls = @ - 1, !.id = @ + 1]
        /\ UNCHANGED <<waitMutex, answer, result, gaveUp>>
    BY <1>5 DEF Begin, At
  <2>2. left.id \in Nat \ {0}
    BY <1>0 DEF CallType
  <2>3. CallType'
    <3>1. left' \in [calls : Int, others : Int, id : Nat \ {0}]
      <4>1. left.calls - 1 \in Int /\ left.others \in Int /\ left.id + 1 \in Nat \ {0}
        BY <1>0, <2>2 DEF CallType
      <4>2. left' = [calls |-> left.calls - 1, others |-> left.others, id |-> left.id + 1]
        BY <1>0, <2>1 DEF CallType
      <4> QED
        BY <4>1, <4>2
    <3>2. caller' \in [Callers -> {"idle", "send", "lock", "sleep"} \cup Locked]
      BY <1>0, <2>1 DEF CallType
    <3>3. id' \in [Callers -> Nat] /\ waiting' \in [Callers -> Nat]
      BY <1>0, <2>1, <2>2 DEF CallType
    <3> QED
      BY <1>0, <2>1, <3>1, <3>2, <3>3 DEF CallType
  <2>4. waitMutex[t] = NoOne /\ answer[t] = 0
    BY <1>0, <2>1 DEF CallInv, Locked
  <2>5. caller'[t] = "send" /\ id'[t] = left.id /\ waiting'[t] = left.id
    BY <1>0, <2>1 DEF CallType
  <2>6. \A u \in Callers \ {t} : /\ caller'[u] = caller[u] /\ id'[u] = id[u] /\ waiting'[u] = waiting[u]
                                 /\ answer'[u] = answer[u] /\ result'[u] = result[u]
                                 /\ gaveUp'[u] = gaveUp[u] /\ waitMutex'[u] = waitMutex[u]
    BY <1>0, <2>1 DEF CallType
  <2> QED
    BY <2>1, <2>2, <2>3, <2>4, <2>5, <2>6, OneCaller DEF Locked
<1>6. ASSUME NEW t \in Callers, Send(t) \/ Wake(t, FALSE) \/ Wake(t, TRUE)
      PROVE  CallType' /\ CallInv' /\ OwnResponse'
  <2>1. /\ caller[t] \in {"send", "sleep"} /\ caller' = [caller EXCEPT ![t] = "lock"]
        /\ UNCHANGED <<id, waitMutex, waiting, answer, result, gaveUp, left>>
    BY <1>6 DEF Send, Wake, At
  <2>2. \A u \in Callers : caller'[u] = IF u = t THEN "lock" ELSE caller[u]
    BY <1>0, <2>1 DEF CallType
  <2>3. CallType'
    BY <1>0, <2>1 DEF CallType
  <2>4. CallInv' /\ OwnResponse'
    BY <1>0, <2>1, <2>2 DEF CallInv, OwnResponse, Locked
  <2> QED
    BY <2>3, <2>4
<1>7. ASSUME NEW t \in Callers, Check(t) PROVE CallType' /\ CallInv' /\ OwnResponse'
  <2>1. /\ caller[t] = "lock" /\ caller' = [caller EXCEPT ![t] = IF Ended(t) THEN "end" ELSE "doze"]
        /\ waitMutex' = [waitMutex EXCEPT ![t] = t]
        /\ gaveUp' = [gaveUp EXCEPT ![t] = answer[t] = 0 /\ Ended(t)]
        /\ UNCHANGED <<id, waiting, answer, result, left>>
    BY <1>7 DEF Check
  <2>2. CallType'
    BY <1>0, <2>1 DEF CallType, Locked
  <2>3. /\ waitMutex'[t] = t /\ caller'[t] \in {"end", "doze"} /\ (caller'[t] = "end" <=> Ended(t))
        /\ gaveUp'[t] = (answer[t] = 0 /\ Ended(t))
    BY <1>0, <2>1 DEF CallType
  <2>4. ~Ended(t) => answer[t] = 0
    BY DEF Ended
  <2>5. id[t] # 0 /\ waiting[t] = id[t] /\ answer[t] \in {0, id[t]}
    BY <1>0, <2>1 DEF CallInv
  <2>6. \A u \in Callers \ {t} : /\ caller'[u] = caller[u] /\ id'[u] = id[u] /\ waiting'[u] = waiting[u]
                                 /\ answer'[u] = answer[u] /\ result'[u] = result[u]
                                 /\ gaveUp'[u] = gaveUp[u] /\ waitMutex'[u] = waitMutex[u]
    BY <1>0, <2>1 DEF CallType
  <2> QED
    BY <2>1, <2>2, <2>3, <2>4, <2>5, <2>6, OneCaller, ZenonT(60) DEF Locked
<1>8. ASSUME NEW t \in Callers, Sleep(t) PROVE CallType' /\ CallInv' /\ OwnResponse'
  <2>1. /\ caller[t] = "doze" /\ caller' = [caller EXCEPT ![t] = "sleep"]
        /\ waitMutex' = [waitMutex EXCEPT ![t] = NoOne]
        /\ UNCHANGED <<id, waiting, answer, result, gaveUp, left>>
    BY <1>8 DEF Sleep, At
  <2>2. CallType'
    BY <1>0, <2>1 DEF CallType
  <2>3. waitMutex'[t] = NoOne /\ caller'[t] = "sleep"
    BY <1>0, <2>1 DEF CallType
  <2>4. id[t] # 0 /\ waiting[t] = id[t] /\ answer[t] \in {0, id[t]}
    BY <1>0, <2>1 DEF CallInv
  <2>5. \A u \in Callers \ {t} : /\ caller'[u] = caller[u] /\ id'[u] = id[u] /\ waiting'[u] = waiting[u]
                                 /\ answer'[u] = answer[u] /\ result'[u] = result[u]
                                 /\ gaveUp'[u] = gaveUp[u] /\ waitMutex'[u] = waitMutex[u]
    BY <1>0, <2>1 DEF CallType
  <2> QED
    BY <2>1, <2>2, <2>3, <2>4, <2>5, OneCaller DEF Locked
<1>9. ASSUME NEW t \in Callers, End(t) PROVE CallType' /\ CallInv' /\ OwnResponse'
  <2>1. /\ caller[t] = "end" /\ caller' = [caller EXCEPT ![t] = "forget"]
        /\ result' = [result EXCEPT ![t] = IF answer[t] = id[t] THEN answer[t] ELSE 0]
        /\ waiting' = [waiting EXCEPT ![t] = 0]
        /\ UNCHANGED <<id, waitMutex, answer, gaveUp, left>>
    BY <1>9 DEF End, At
  <2>2. CallType'
    BY <1>0, <2>1 DEF CallType, Locked
  <2>3. /\ caller'[t] = "forget" /\ waiting'[t] = 0
        /\ result'[t] = IF answer[t] = id[t] THEN answer[t] ELSE 0
    BY <1>0, <2>1 DEF CallType
  <2>4. /\ id[t] # 0 /\ waitMutex[t] = t /\ answer[t] \in {0, id[t]}
        /\ answer[t] = 0 => gaveUp[t]
    BY <1>0, <2>1 DEF CallInv, Locked
  <2>5. \A u \in Callers \ {t} : /\ caller'[u] = caller[u] /\ id'[u] = id[u] /\ waiting'[u] = waiting[u]
                                 /\ answer'[u] = answer[u] /\ result'[u] = result[u]
                                 /\ gaveUp'[u] = gaveUp[u] /\ waitMutex'[u] = waitMutex[u]
    BY <1>0, <2>1 DEF CallType
  <2> QED
    BY <2>1, <2>2, <2>3, <2>4, <2>5, OneCaller DEF Locked
<1>10. ASSUME NEW t \in Callers, Forget(t) PROVE CallType' /\ CallInv' /\ OwnResponse'
  <2>1. /\ caller[t] = "forget" /\ caller' = [caller EXCEPT ![t] = "idle"]
        /\ waitMutex' = [waitMutex EXCEPT ![t] = NoOne] /\ id' = [id EXCEPT ![t] = 0]
        /\ answer' = [answer EXCEPT ![t] = 0] /\ result' = [result EXCEPT ![t] = 0]
        /\ gaveUp' = [gaveUp EXCEPT ![t] = FALSE]
        /\ UNCHANGED <<waiting, left>>
    BY <1>10 DEF Forget, At
  <2>2. CallType'
    BY <1>0, <2>1 DEF CallType
  <2>3. caller'[t] = "idle" /\ waitMutex'[t] = NoOne /\ id'[t] = 0 /\ answer'[t] = 0 /\ waiting[t] = 0
    BY <1>0, <2>1 DEF CallType, CallInv
  <2>4. \A u \in Callers \ {t} : /\ caller'[u] = caller[u] /\ id'[u] = id[u] /\ waiting'[u] = waiting[u]
                                 /\ answer'[u] = answer[u] /\ result'[u] = result[u]
                                 /\ gaveUp'[u] = gaveUp[u] /\ waitMutex'[u] = waitMutex[u]
    BY <1>0, <2>1 DEF CallType
  <2> QED
    BY <2>1, <2>2, <2>3, <2>4, OneCaller, ZenonT(60) DEF Locked
<1> QED
  BY <1>1, <1>2, <1>3, <1>4, <1>5, <1>6, <1>7, <1>8, <1>9, <1>10 DEF Next, Listen, Proceed

(* Nobody falls asleep beside a mark: the mutex is held from the test to   *)
(* the sleep, and the one who sets a mark goes on to wake the sleeper.     *)
LEMMA StepWakes == IInv /\ [Next]_vars => ResponseWakes'
<1> SUFFICES ASSUME IInv, [Next]_vars PROVE ResponseWakes'
  OBVIOUS
<1>0. NetType /\ CallType /\ CallInv /\ ResponseWakes
  BY DEF IInv
<1>1. ASSUME UNCHANGED <<caller, answer>>, listener # "notify" PROVE ResponseWakes'
  BY <1>0, <1>1 DEF ResponseWakes
<1>2. CASE Listen /\ ~Mark /\ ~Notify
  <2>1. UNCHANGED <<caller, answer>> /\ listener # "notify"
    BY <1>2 DEF Listen, Loop, Open, ReadFails, ReadPiece, Request, FindCaller, calls
  <2> QED
    BY <1>1, <2>1
<1>3. CASE Mark
  <2>1. /\ listener' = "notify" /\ packet' = packet /\ caller' = caller /\ listener # "notify"
        /\ answer' = answer \/ answer' = [answer EXCEPT ![packet.to] = packet.id]
    BY <1>3 DEF Mark, net
  <2>2. \A u \in Callers : u # packet.to => answer'[u] = answer[u]
    BY <1>0, <2>1 DEF CallType
  <2> QED
    BY <1>0, <2>1, <2>2 DEF ResponseWakes
<1>4. CASE Notify
  <2>1. /\ answer' = answer /\ listener = "notify" /\ packet.to \in Callers
        /\ caller' = IF caller[packet.to] = "sleep" THEN [caller EXCEPT ![packet.to] = "lock"] ELSE caller
    BY <1>0, <1>4 DEF Notify, NetType, Responses
  <2>2. /\ \A u \in Callers \ {packet.to} : caller'[u] = caller[u]
        /\ caller'[packet.to] # "sleep"
    BY <1>0, <2>1 DEF CallType
  <2> QED
    BY <1>0, <2>1, <2>2 DEF ResponseWakes
<1>5. ASSUME NEW t \in Callers,
             Begin(t) \/ Send(t) \/ Check(t) \/ Wake(t, FALSE) \/ Wake(t, TRUE) \/ End(t)
      PROVE  ResponseWakes'
  <2>1. /\ UNCHANGED <<listener, packet, answer>>
        /\ \E state \in {"send", "lock", "end", "doze", "forget"} : caller' = [caller EXCEPT ![t] = state]
    BY <1>5 DEF Begin, Send, Check, Wake, End, At, ends, net
  <2>2. caller'[t] # "sleep" /\ \A u \in Callers \ {t} : caller'[u] = caller[u]
    BY <1>0, <2>1 DEF CallType
  <2> QED
    BY <1>0, <2>1, <2>2 DEF ResponseWakes
<1>6. ASSUME NEW t \in Callers, Sleep(t) PROVE ResponseWakes'
  <2>1. /\ UNCHANGED <<listener, packet, answer>> /\ caller[t] = "doze"
        /\ caller' = [caller EXCEPT ![t] = "sleep"]
    BY <1>6 DEF Sleep, At, ends, net
  <2>2. answer[t] = 0 /\ \A u \in Callers \ {t} : caller'[u] = caller[u]
    BY <1>0, <2>1 DEF CallInv, CallType
  <2> QED
    BY <1>0, <2>1, <2>2 DEF ResponseWakes
<1>7. ASSUME NEW t \in Callers, Forget(t) PROVE ResponseWakes'
  <2>1. /\ UNCHANGED <<listener, packet>> /\ answer' = [answer EXCEPT ![t] = 0]
        /\ caller' = [caller EXCEPT ![t] = "idle"]
    BY <1>7 DEF Forget, At, ends, net
  <2>2. /\ \A u \in Callers \ {t} : caller'[u] = caller[u] /\ answer'[u] = answer[u]
        /\ caller'[t] = "idle"
    BY <1>0, <2>1 DEF CallType
  <2> QED
    BY <1>0, <2>1, <2>2 DEF ResponseWakes
<1>8. CASE \/ Stop \/ Join \/ RaiseEvent \/ Break \/ ProcessEvent \/ UNCHANGED vars
           \/ \E p \in server : Respond(p)
  <2>1. UNCHANGED <<listener, packet, caller, answer>>
    BY <1>8 DEF Stop, Join, RaiseEvent, Break, ProcessEvent, Respond, vars, ends, net, calls
  <2> QED
    BY <1>0, <2>1 DEF ResponseWakes
<1>9. CASE Start
  <2>1. listener # "notify" /\ UNCHANGED <<caller, answer>>
    BY <1>0, <1>9 DEF Start, NetType, calls
  <2> QED
    BY <1>0, <2>1 DEF ResponseWakes
<1> QED
  BY <1>2, <1>3, <1>4, <1>5, <1>6, <1>7, <1>8, <1>9 DEF Next, Proceed

-----------------------------------------------------------------------------
(* A call returns the response to its own request, or none after it saw    *)
(* the timeout or a closed connection, and no marked response is slept on, *)
(* for any number of callers and whatever the gateway and the network do.  *)
THEOREM ResponsesArriveCorrect == Spec => []ResponsesArrive
<1>1. IInv /\ [Next]_vars => IInv'
  BY StepNet, StepCalls, StepWakes DEF IInv
<1>2. IInv => ResponsesArrive
  BY DEF IInv, ResponsesArrive
<1> QED
  BY InitInv, <1>1, <1>2, PTL DEF Spec
-----------------------------------------------------------------------------
(* Numbers and bytes of frames.                                            *)
\* An octet is a number below 256.
LEMMA OctetIs == ASSUME NEW n PROVE n \in Octet <=> n \in Int /\ 0 <= n /\ n < 256
  BY DEF Octet

\* A size is read as it was written.
LEMMA SizeRead == ASSUME NEW n \in Nat, n < 2147483648 PROVE Rpc!Number4(Rpc!Size4(n), 0) = n
  BY DEF Rpc!Number4, Rpc!Size4

\* A size takes four octets.
LEMMA SizeOctets == ASSUME NEW n \in Nat PROVE Rpc!Size4(n) \in Seq(Octet) /\ Len(Rpc!Size4(n)) = 4
  BY OctetIs DEF Rpc!Size4

Bit(n, k) == (n \div k) % 2

\* A byte is the sum of its bits.
LEMMA BitsOf == ASSUME NEW n \in Int, 0 <= n, n < 256
  PROVE n = 128 * Bit(n, 128) + 64 * Bit(n, 64) + 32 * Bit(n, 32) + 16 * Bit(n, 16) + 8 * Bit(n, 8) + 4 * Bit(n, 4) + 2 * Bit(n, 2) + Bit(n, 1)
  BY DEF Bit

Sum8(a, b, c, d, e, f, g, h) == a + 2 * b + 4 * c + 8 * d + 16 * e + 32 * f + 64 * g + 128 * h

\* The bits of a sum of bits are these bits.
LEMMA BitsOfSum ==
  ASSUME NEW a \in {0, 1}, NEW b \in {0, 1}, NEW c \in {0, 1}, NEW d \in {0, 1},
         NEW e \in {0, 1}, NEW f \in {0, 1}, NEW g \in {0, 1}, NEW h \in {0, 1},
         NEW n, n = Sum8(a, b, c, d, e, f, g, h)
  PROVE  /\ n \in Int /\ 0 <= n /\ n < 256
         /\ Bit(n, 1) = a /\ Bit(n, 2) = b /\ Bit(n, 4) = c /\ Bit(n, 8) = d
         /\ Bit(n, 16) = e /\ Bit(n, 32) = f /\ Bit(n, 64) = g /\ Bit(n, 128) = h
<1>1. n \in Int /\ 0 <= n /\ n < 256
  BY DEF Sum8
<1>2. Bit(n, 1) = a /\ Bit(n, 2) = b
  BY DEF Sum8, Bit
<1>3. Bit(n, 4) = c /\ Bit(n, 8) = d
  BY DEF Sum8, Bit
<1>4. Bit(n, 16) = e /\ Bit(n, 32) = f
  BY DEF Sum8, Bit
<1>5. Bit(n, 64) = g /\ Bit(n, 128) = h
  BY DEF Sum8, Bit
<1> QED
  BY <1>1, <1>2, <1>3, <1>4, <1>5

Differ(x, y, k) == IF Bit(x, k) = Bit(y, k) THEN 0 ELSE 1

\* The exclusive or has a bit where the two bytes differ.
LEMMA XorIs ==
  ASSUME NEW x \in Octet, NEW y \in Octet
  PROVE  Web!Xor(x, y) = Sum8(Differ(x, y, 1), Differ(x, y, 2), Differ(x, y, 4), Differ(x, y, 8), Differ(x, y, 16), Differ(x, y, 32), Differ(x, y, 64), Differ(x, y, 128))
<1>1. PICK a \in {0, 1}, b \in {0, 1}, c \in {0, 1}, d \in {0, 1}, e \in {0, 1}, f \in {0, 1}, g \in {0, 1}, h \in {0, 1} :
        /\ a = Differ(x, y, 1) /\ b = Differ(x, y, 2) /\ c = Differ(x, y, 4) /\ d = Differ(x, y, 8)
        /\ e = Differ(x, y, 16) /\ f = Differ(x, y, 32) /\ g = Differ(x, y, 64) /\ h = Differ(x, y, 128)
  BY DEF Differ
<1>2. /\ Web!Bits[1] = 1 /\ Web!Bits[2] = 2 /\ Web!Bits[3] = 4 /\ Web!Bits[4] = 8
      /\ Web!Bits[5] = 16 /\ Web!Bits[6] = 32 /\ Web!Bits[7] = 64 /\ Web!Bits[8] = 128
  BY DEF Web!Bits
<1>3. /\ (IF Bit(x, 1) = Bit(y, 1) THEN 0 ELSE 1) = a /\ (IF Bit(x, 2) = Bit(y, 2) THEN 0 ELSE 2) = 2 * b
      /\ (IF Bit(x, 4) = Bit(y, 4) THEN 0 ELSE 4) = 4 * c /\ (IF Bit(x, 8) = Bit(y, 8) THEN 0 ELSE 8) = 8 * d
      /\ (IF Bit(x, 16) = Bit(y, 16) THEN 0 ELSE 16) = 16 * e /\ (IF Bit(x, 32) = Bit(y, 32) THEN 0 ELSE 32) = 32 * f
      /\ (IF Bit(x, 64) = Bit(y, 64) THEN 0 ELSE 64) = 64 * g /\ (IF Bit(x, 128) = Bit(y, 128) THEN 0 ELSE 128) = 128 * h
  BY <1>1 DEF Differ
<1>4. Web!Xor(x, y) = a + 2 * b + 4 * c + 8 * d + 16 * e + 32 * f + 64 * g + 128 * h
  BY <1>2, <1>3 DEF Web!Xor, Bit
<1> QED
  BY <1>1, <1>4 DEF Sum8

\* Masking twice with the same octet leaves what was there.
LEMMA XorTwice ==
  ASSUME NEW x \in Octet, NEW y \in Octet
  PROVE  Web!Xor(x, y) \in Octet /\ Web!Xor(Web!Xor(x, y), y) = x
<1>1. PICK a \in {0, 1}, b \in {0, 1}, c \in {0, 1}, d \in {0, 1}, e \in {0, 1}, f \in {0, 1}, g \in {0, 1}, h \in {0, 1} :
        /\ a = Differ(x, y, 1) /\ b = Differ(x, y, 2) /\ c = Differ(x, y, 4) /\ d = Differ(x, y, 8)
        /\ e = Differ(x, y, 16) /\ f = Differ(x, y, 32) /\ g = Differ(x, y, 64) /\ h = Differ(x, y, 128)
  BY DEF Differ
<1>2. PICK n : n = Web!Xor(x, y)
  OBVIOUS
<1>3. n = Sum8(a, b, c, d, e, f, g, h)
  BY <1>1, <1>2, XorIs
<1>4. /\ n \in Octet
      /\ Bit(n, 1) = a /\ Bit(n, 2) = b /\ Bit(n, 4) = c /\ Bit(n, 8) = d
      /\ Bit(n, 16) = e /\ Bit(n, 32) = f /\ Bit(n, 64) = g /\ Bit(n, 128) = h
  BY <1>3, BitsOfSum, OctetIs
<1>5. x \in Int /\ y \in Int
  BY OctetIs
<1>6. /\ Differ(n, y, 1) = Bit(x, 1) /\ Differ(n, y, 2) = Bit(x, 2) /\ Differ(n, y, 4) = Bit(x, 4) /\ Differ(n, y, 8) = Bit(x, 8)
  BY <1>1, <1>4, <1>5 DEF Differ, Bit
<1>7. /\ Differ(n, y, 16) = Bit(x, 16) /\ Differ(n, y, 32) = Bit(x, 32) /\ Differ(n, y, 64) = Bit(x, 64) /\ Differ(n, y, 128) = Bit(x, 128)
  BY <1>1, <1>4, <1>5 DEF Differ, Bit
<1>8. Web!Xor(n, y) = Sum8(Bit(x, 1), Bit(x, 2), Bit(x, 4), Bit(x, 8), Bit(x, 16), Bit(x, 32), Bit(x, 64), Bit(x, 128))
  BY <1>4, <1>6, <1>7, XorIs
<1>9. Sum8(Bit(x, 1), Bit(x, 2), Bit(x, 4), Bit(x, 8), Bit(x, 16), Bit(x, 32), Bit(x, 64), Bit(x, 128)) = x
  <2>1. x = 128 * Bit(x, 128) + 64 * Bit(x, 64) + 32 * Bit(x, 32) + 16 * Bit(x, 16) + 8 * Bit(x, 8) + 4 * Bit(x, 4) + 2 * Bit(x, 2) + Bit(x, 1)
    BY <1>5, BitsOf, OctetIs
  <2>2. \A k \in {1, 2, 4, 8, 16, 32, 64, 128} : Bit(x, k) \in Int
    BY <1>5 DEF Bit
  <2> QED
    BY <2>1, <2>2 DEF Sum8
<1> QED
  BY <1>2, <1>4, <1>8, <1>9

(* The parser of the binary RPC protocol.                                  *)
RpcParser ==
  [data : Seq(Octet), type : {"unknown", "request", "response"}, dataProcessingStarted : BOOLEAN,
   finished : BOOLEAN, hasHeader : BOOLEAN, headerSize : Int, dataSize : Int]

HasHeader(b) == b[4] \in {64, 65}
HeaderSize(b) == Rpc!Number4(b, 4)

\* Where the content of a frame begins.
ContentAt(b) == IF HasHeader(b) THEN HeaderSize(b) + 12 ELSE 8

\* A frame as process() expects it.
RpcFrame(b) ==
  /\ b \in Seq(Octet) /\ SubSeq(b, 1, 3) = Rpc!Bin
  /\ ContentAt(b) < Len(b) /\ Len(b) - 8 <= Rpc!MaxContentSize
  /\ HasHeader(b) => /\ HeaderSize(b) \in Nat /\ 0 < HeaderSize(b) /\ HeaderSize(b) <= Rpc!MaxHeaderSize
                     /\ Rpc!Number4(b, 8 + HeaderSize(b)) = Len(b) - ContentAt(b)
  /\ ~HasHeader(b) => HeaderSize(b) = Len(b) - 8

\* The parser has this many bytes of the frame.
RpcAt(s, b, o) ==
  /\ s \in RpcParser /\ ~s.finished
  /\ o \in 0..Len(b) - 1 /\ s.data = SubSeq(b, 1, o)
  /\ s.dataProcessingStarted <=> ContentAt(b) <= o /\ 8 <= o
  /\ s.dataProcessingStarted => s.dataSize = Len(b) - 8

\* These bytes follow on the first o of the frame.
Follows(buffer, b, o) ==
  buffer \in Seq(Octet) /\ \A j \in 1..Len(buffer) : o + j <= Len(b) => buffer[j] = b[o + j]

\* The parser has taken what there is of the frame.
RpcTook(q, b, o, buffer) ==
  IF o + Len(buffer) < Len(b) THEN RpcAt(q.parser, b, o + Len(buffer)) /\ q.rest = <<>> /\ ~q.threw
  ELSE /\ q.parser \in RpcParser /\ q.parser.finished /\ q.parser.data = b
       /\ q.rest = SubSeq(buffer, Len(b) - o + 1, Len(buffer)) /\ ~q.threw

\* What process() takes of a piece and what it leaves.
LEMMA TakenSplit ==
  ASSUME NEW buffer \in Seq(Octet), NEW n \in Nat, n <= Len(buffer)
  PROVE  /\ SubSeq(buffer, 1, n) \in Seq(Octet) /\ Len(SubSeq(buffer, 1, n)) = n
         /\ \A j \in 1..n : SubSeq(buffer, 1, n)[j] = buffer[j]
         /\ SubSeq(buffer, n + 1, Len(buffer)) \in Seq(Octet) /\ Len(SubSeq(buffer, n + 1, Len(buffer))) = Len(buffer) - n
         /\ \A j \in 1..Len(buffer) - n : SubSeq(buffer, n + 1, Len(buffer))[j] = buffer[n + j]
  OBVIOUS

\* The items of two sequences that are joined.
LEMMA ItemsOfJoined ==
  ASSUME NEW x \in Seq(Octet), NEW y \in Seq(Octet)
  PROVE  /\ \A j \in 1..Len(x) : (x \o y)[j] = x[j]
         /\ \A j \in 1..Len(x) + Len(y) : j > Len(x) => (x \o y)[j] = y[j - Len(x)]
  OBVIOUS

\* What a parser has of a frame grows by what it takes.
LEMMA Grows ==
  ASSUME NEW b \in Seq(Octet), NEW o \in Nat, NEW buffer, Follows(buffer, b, o), NEW n \in Nat, n <= Len(buffer), o + n <= Len(b)
  PROVE  SubSeq(b, 1, o) \o SubSeq(buffer, 1, n) = SubSeq(b, 1, o + n)
<1>1. buffer \in Seq(Octet)
  BY DEF Follows
<1>2. PICK x, y, z : x = SubSeq(b, 1, o) /\ y = SubSeq(buffer, 1, n) /\ z = SubSeq(b, 1, o + n)
  OBVIOUS
<1>3. /\ x \in Seq(Octet) /\ Len(x) = o /\ \A j \in 1..o : x[j] = b[j]
  BY <1>2, TakenSplit
<1>4. /\ y \in Seq(Octet) /\ Len(y) = n /\ \A j \in 1..n : y[j] = buffer[j]
  BY <1>1, <1>2, TakenSplit
<1>5. /\ z \in Seq(Octet) /\ Len(z) = o + n /\ \A j \in 1..o + n : z[j] = b[j]
  BY <1>2, TakenSplit
<1>6. \A j \in 1..n : y[j] = b[o + j]
  <2>1. \A j \in 1..n : j \in 1..Len(buffer) /\ o + j <= Len(b)
    BY <1>1
  <2>2. \A j \in 1..Len(buffer) : o + j <= Len(b) => buffer[j] = b[o + j]
    BY DEF Follows
  <2> QED
    BY ONLY <1>4, <2>1, <2>2
<1>7. \A j \in 1..o + n : (x \o y)[j] = z[j]
  <2> TAKE j \in 1..o + n
  <2>1. CASE j <= o
    BY <1>3, <1>4, <1>5, <2>1
  <2>2. CASE j > o
    <3>1. j - o \in 1..n /\ o + (j - o) = j
      BY <2>2
    <3>2. (x \o y)[j] = y[j - o]
      <4>1. x \in Seq(Octet) /\ y \in Seq(Octet) /\ Len(x) = o /\ Len(y) = n
        BY ONLY <1>3, <1>4
      <4>2. j \in 1..o + n /\ j > o
        BY <2>2
      <4> QED
        BY ONLY <4>1, <4>2, ItemsOfJoined
    <3> QED
      BY <1>5, <1>6, <3>1, <3>2
  <2>3. j <= o \/ j > o
    OBVIOUS
  <2> QED
    BY <2>1, <2>2, <2>3
<1>8. x \o y \in Seq(Octet) /\ Len(x \o y) = Len(z)
  <2>1. x \o y \in Seq(Octet) /\ Len(x \o y) = Len(x) + Len(y)
    <3>1. x \in Seq(Octet) /\ y \in Seq(Octet)
      BY ONLY <1>3, <1>4
    <3> QED
      BY ONLY <3>1
  <2> QED
    BY ONLY <1>3, <1>4, <1>5, <2>1
<1> QED
  BY <1>2, <1>5, <1>7, <1>8, SeqEqual

\* What is left of a piece follows on what was taken.
LEMMA FollowsAfter ==
  ASSUME NEW b \in Seq(Octet), NEW o \in Nat, NEW buffer, Follows(buffer, b, o), NEW n \in Nat, n <= Len(buffer)
  PROVE  Follows(SubSeq(buffer, n + 1, Len(buffer)), b, o + n)
<1>1. buffer \in Seq(Octet)
  BY DEF Follows
<1>2. PICK r : r = SubSeq(buffer, n + 1, Len(buffer))
  OBVIOUS
<1>3. r \in Seq(Octet) /\ Len(r) = Len(buffer) - n /\ \A j \in 1..Len(buffer) - n : r[j] = buffer[n + j]
  BY <1>1, <1>2, TakenSplit
<1>4. ASSUME NEW j \in 1..Len(r), o + n + j <= Len(b) PROVE r[j] = b[o + n + j]
  <2>1. n + j \in 1..Len(buffer) /\ o + (n + j) <= Len(b) /\ o + (n + j) = o + n + j
    BY <1>1, <1>3, <1>4
  <2>2. buffer[n + j] = b[o + (n + j)]
    BY <2>1 DEF Follows
  <2> QED
    BY <1>3, <2>1, <2>2
<1> QED
  BY <1>2, <1>3, <1>4 DEF Follows

\* Taking twice is taking once.
LEMMA RestOfRest ==
  ASSUME NEW buffer \in Seq(Octet), NEW n \in Nat, n <= Len(buffer), NEW m \in Nat, n + m <= Len(buffer), NEW r, r = SubSeq(buffer, n + 1, Len(buffer))
  PROVE  SubSeq(r, m + 1, Len(r)) = SubSeq(buffer, n + m + 1, Len(buffer))
<1>1. r \in Seq(Octet) /\ Len(r) = Len(buffer) - n /\ \A j \in 1..Len(buffer) - n : r[j] = buffer[n + j]
  BY TakenSplit
<1>2. PICK x, y : x = SubSeq(r, m + 1, Len(r)) /\ y = SubSeq(buffer, n + m + 1, Len(buffer))
  OBVIOUS
<1>3. m <= Len(r)
  BY <1>1
<1>4. x \in Seq(Octet) /\ Len(x) = Len(r) - m /\ \A j \in 1..Len(r) - m : x[j] = r[m + j]
  BY <1>1, <1>2, <1>3, TakenSplit
<1>5. y \in Seq(Octet) /\ Len(y) = Len(buffer) - (n + m) /\ \A j \in 1..Len(buffer) - (n + m) : y[j] = buffer[n + m + j]
  <2>1. PICK k \in Nat : k = n + m
    OBVIOUS
  <2>2. y = SubSeq(buffer, k + 1, Len(buffer)) /\ k <= Len(buffer)
    BY <1>2, <2>1
  <2> QED
    BY <2>1, <2>2, TakenSplit
<1>6. Len(x) = Len(y)
  BY <1>1, <1>4, <1>5
<1>7. \A j \in 1..Len(x) : x[j] = y[j]
  <2> TAKE j \in 1..Len(x)
  <2>1. m + j \in 1..Len(buffer) - n /\ j \in 1..Len(r) - m /\ j \in 1..Len(buffer) - (n + m)
    BY <1>1, <1>4
  <2>2. x[j] = r[m + j] /\ r[m + j] = buffer[n + (m + j)]
    BY <1>1, <1>4, <2>1
  <2>3. y[j] = buffer[n + m + j]
    BY <1>5, <2>1
  <2> QED
    BY <2>1, <2>2, <2>3
<1> QED
  BY <1>2, <1>4, <1>5, <1>6, <1>7, SeqEqual


\* Taking the rest of a piece later is taking all of it.
LEMMA TookLater ==
  ASSUME NEW b \in Seq(Octet), NEW o \in Nat, NEW buffer \in Seq(Octet), NEW m \in Nat, m <= Len(buffer), o + m < Len(b),
         NEW q, RpcTook(q, b, o + m, Rpc!After(buffer, m))
  PROVE  RpcTook(q, b, o, buffer)
<1>1. PICK r : r = SubSeq(buffer, m + 1, Len(buffer))
  OBVIOUS
<1>2. r \in Seq(Octet) /\ Len(r) = Len(buffer) - m
  BY <1>1, TakenSplit
<1>3. RpcTook(q, b, o + m, r)
  BY <1>1 DEF Rpc!After
<1>4. PICK l \in Nat, k \in Nat : l = Len(b) /\ k = Len(buffer)
  OBVIOUS
<1>5. CASE o + k < l
  <2>1. o + m + Len(r) < Len(b) /\ o + m + Len(r) = o + Len(buffer) /\ o + Len(buffer) < Len(b)
    BY <1>2, <1>4, <1>5
  <2> QED
    BY <1>3, <2>1 DEF RpcTook
<1>6. CASE ~(o + k < l)
  <2>1. ~(o + m + Len(r) < Len(b)) /\ ~(o + Len(buffer) < Len(b))
    BY <1>2, <1>4, <1>6
  <2>2. /\ q.parser \in RpcParser /\ q.parser.finished /\ q.parser.data = b
        /\ q.rest = SubSeq(r, Len(b) - (o + m) + 1, Len(r)) /\ ~q.threw
    BY <1>3, <2>1 DEF RpcTook
  <2>3. PICK n \in Nat : n = l - (o + m)
    <3>1. o + m < l
      BY <1>4
    <3>2. l - (o + m) \in Nat
      BY <3>1
    <3> QED
      BY <3>2
  <2>4. m + n <= Len(buffer)
    BY <1>4, <1>6, <2>3
  <2>5. SubSeq(r, n + 1, Len(r)) = SubSeq(buffer, m + n + 1, Len(buffer))
    BY <1>1, <2>4, RestOfRest
  <2>6. m + n + 1 = Len(b) - o + 1 /\ Len(b) - (o + m) + 1 = n + 1
    BY <1>4, <2>3
  <2> QED
    BY <2>1, <2>2, <2>5, <2>6 DEF RpcTook
<1> QED
  BY <1>5, <1>6

LEMMA DataGrows ==
  ASSUME NEW s \in RpcParser, NEW d \in Seq(Octet)
  PROVE  [s EXCEPT !.data = d] \in RpcParser /\ [s EXCEPT !.data = d].data = d
  BY DEF RpcParser

\* The limits on sizes are numbers.
LEMMA Limits == Rpc!MaxContentSize \in Nat /\ Rpc!MaxHeaderSize \in Nat /\ Web!MaxContent \in Nat
  BY SMT DEF Rpc!MaxContentSize, Rpc!MaxHeaderSize, Web!MaxContent

\* A number lies in its four bytes.
LEMMA NumberOf ==
  ASSUME NEW b \in Seq(Octet), NEW at \in Nat, NEW n \in Nat, at + 4 <= n, n <= Len(b)
  PROVE  /\ Rpc!Number4(SubSeq(b, 1, n), at) = Rpc!Number4(b, at) /\ Rpc!Number4(b, at) \in Nat
         /\ \A j \in 1..n : SubSeq(b, 1, n)[j] = b[j]
<1>1. PICK d : d = SubSeq(b, 1, n)
  OBVIOUS
<1>2. \A j \in 1..n : d[j] = b[j]
  BY <1>1, TakenSplit
<1>3. at + 1 \in 1..n /\ at + 2 \in 1..n /\ at + 3 \in 1..n /\ at + 4 \in 1..n
  OBVIOUS
<1>4. d[at + 1] = b[at + 1] /\ d[at + 2] = b[at + 2] /\ d[at + 3] = b[at + 3] /\ d[at + 4] = b[at + 4]
  BY <1>2, <1>3
<1>5. b[at + 1] \in Nat /\ b[at + 2] \in Nat /\ b[at + 3] \in Nat /\ b[at + 4] \in Nat
  <2>1. \A j \in 1..n : b[j] \in Octet
    OBVIOUS
  <2>2. \A j \in 1..n : b[j] \in Nat
    BY <2>1, OctetIs
  <2> QED
    BY <1>3, <2>2
<1>6. Rpc!Number4(b, at) \in Nat
  <2>1. PICK u \in Nat, v \in Nat, w \in Nat, x \in Nat : u = b[at + 1] /\ v = b[at + 2] /\ w = b[at + 3] /\ x = b[at + 4]
    BY <1>5
  <2> QED
    <3>1. ((u * 256 + v) * 256 + w) * 256 + x \in Nat
      BY ONLY u \in Nat, v \in Nat, w \in Nat, x \in Nat
    <3> QED
      BY ONLY <2>1, <3>1 DEF Rpc!Number4
<1>7. Rpc!Number4(d, at) = Rpc!Number4(b, at)
  BY <1>4 DEF Rpc!Number4
<1> QED
  BY <1>1, <1>2, <1>6, <1>7

\* The header and the content of a frame lie in it.
LEMMA FrameSizes ==
  ASSUME NEW b, RpcFrame(b)
  PROVE  /\ b \in Seq(Octet) /\ Len(b) \in Nat /\ ContentAt(b) \in Nat /\ 8 <= ContentAt(b) /\ ContentAt(b) < Len(b)
         /\ HeaderSize(b) \in Nat
         /\ HasHeader(b) => ContentAt(b) = HeaderSize(b) + 12
         /\ ~HasHeader(b) => ContentAt(b) = 8
<1>1. b \in Seq(Octet) /\ Len(b) \in Nat
  BY DEF RpcFrame
<1>2. HasHeader(b) => HeaderSize(b) \in Nat
  BY DEF RpcFrame
<1>3. ContentAt(b) \in Int => 8 <= ContentAt(b)
  BY <1>2 DEF ContentAt
<1>4. ContentAt(b) \in Nat /\ 8 <= ContentAt(b)
  BY <1>2 DEF ContentAt
<1>5. 8 <= Len(b)
  BY <1>1, <1>4 DEF RpcFrame
<1>6. HeaderSize(b) \in Nat
  BY <1>1, <1>5, NumberOf DEF HeaderSize
<1> QED
  BY <1>1, <1>4, <1>6 DEF ContentAt, RpcFrame

\* Content(): with the bytes that are missing the frame is complete.
LEMMA ContentStep ==
  ASSUME NEW b, RpcFrame(b), NEW o, NEW s, RpcAt(s, b, o), s.dataProcessingStarted, NEW buffer, Follows(buffer, b, o)
  PROVE  RpcTook(Rpc!Content(s, buffer), b, o, buffer)
<1>1. b \in Seq(Octet) /\ buffer \in Seq(Octet) /\ o \in Nat /\ o < Len(b) /\ Len(b) \in Nat
  BY DEF RpcFrame, Follows, RpcAt
<1>2. s \in RpcParser /\ ~s.finished /\ s.data = SubSeq(b, 1, o) /\ s.dataSize = Len(b) - 8 /\ ContentAt(b) <= o /\ 8 <= o
  BY DEF RpcAt
<1>3. Len(s.data) = o
  BY <1>1, <1>2
<1>4. PICK missing \in Nat : missing = Len(b) - o /\ 0 < missing
  BY <1>1
<1>5. 8 + s.dataSize - Len(s.data) = missing
  BY <1>1, <1>2, <1>3, <1>4
<1>6. CASE Len(buffer) < missing
  <2>1. Rpc!Content(s, buffer) = Rpc!More(s, buffer)
    BY <1>5, <1>6 DEF Rpc!Content
  <2>2. SubSeq(buffer, 1, Len(buffer)) = buffer
    BY <1>1
  <2>3. s.data \o buffer = SubSeq(b, 1, o + Len(buffer))
    <3>1. Len(buffer) \in Nat /\ Len(buffer) <= Len(buffer) /\ o + Len(buffer) <= Len(b)
      BY <1>1, <1>4, <1>6
    <3> QED
      BY <1>1, <1>2, <2>2, <3>1, Grows
  <2>4. s.data \o buffer \in Seq(Octet)
    BY <1>1, <1>2
  <2>5. PICK t : t = [s EXCEPT !.data = s.data \o buffer]
    OBVIOUS
  <2>6. t \in RpcParser /\ ~t.finished /\ t.data = SubSeq(b, 1, o + Len(buffer)) /\ t.dataProcessingStarted /\ t.dataSize = Len(b) - 8
    BY <1>2, <2>3, <2>4, <2>5 DEF RpcParser
  <2>7. PICK k, a : k \in Nat /\ k = o + Len(buffer) /\ a = ContentAt(b)
    BY <1>1
  <2>8. k < Len(b) /\ o <= k
    BY <1>1, <1>4, <1>6, <2>7
  <2>9. a <= k /\ 8 <= k
    <3>1. a \in Int
      BY <2>7, FrameSizes
    <3> QED
      BY <1>1, <1>2, <2>7, <2>8, <3>1
  <2>10. RpcAt(t, b, k)
    BY <1>1, <2>6, <2>7, <2>8, <2>9 DEF RpcAt
  <2>11. Rpc!More(s, buffer) = [parser |-> t, rest |-> <<>>, threw |-> FALSE]
    BY <2>5 DEF Rpc!More
  <2> QED
    BY <2>1, <2>7, <2>8, <2>10, <2>11 DEF RpcTook
<1>7. CASE ~(Len(buffer) < missing)
  <2>1. Rpc!Content(s, buffer) = [parser |-> [Rpc!Insert(s, buffer, missing) EXCEPT !.finished = TRUE],
                                  rest |-> Rpc!After(buffer, missing), threw |-> FALSE]
    <3>1. ~(missing <= 0)
      BY <1>4
    <3> QED
      BY ONLY <1>5, <1>7, <3>1, ZenonT(30) DEF Rpc!Content
  <2>2. missing <= Len(buffer) /\ o + missing = Len(b)
    BY <1>1, <1>4, <1>7
  <2>3. s.data \o SubSeq(buffer, 1, missing) = SubSeq(b, 1, o + missing)
    <3>1. o + missing <= Len(b)
      BY <1>1, <2>2
    <3> QED
      BY <1>1, <1>2, <2>2, <3>1, Grows
  <2>4. SubSeq(b, 1, Len(b)) = b
    BY <1>1
  <2>5. Rpc!Insert(s, buffer, missing) = [s EXCEPT !.data = b]
    BY <2>2, <2>3, <2>4 DEF Rpc!Insert
  <2>6. PICK t : t = [Rpc!Insert(s, buffer, missing) EXCEPT !.finished = TRUE]
    OBVIOUS
  <2>7. t \in RpcParser /\ t.finished /\ t.data = b
    BY <1>1, <1>2, <2>5, <2>6 DEF RpcParser
  <2>8. ~(o + Len(buffer) < Len(b))
    BY <1>1, <2>2
  <2>9. missing + 1 = Len(b) - o + 1
    BY <1>4
  <2>10. PICK q : q = Rpc!Content(s, buffer)
    OBVIOUS
  <2>11. q.parser = t /\ q.rest = SubSeq(buffer, missing + 1, Len(buffer)) /\ ~q.threw
    BY <2>1, <2>6, <2>10 DEF Rpc!After
  <2>12. RpcTook(q, b, o, buffer)
    BY <2>7, <2>8, <2>9, <2>11 DEF RpcTook
  <2> QED
    BY <2>10, <2>12
<1> QED
  BY <1>6, <1>7

Inserted(u, s, b, k) == u = [s EXCEPT !.data = SubSeq(b, 1, k)] /\ u \in RpcParser /\ u.data = SubSeq(b, 1, k)

\* Insert() leaves the parser with more of the frame.
LEMMA InsertIs ==
  ASSUME NEW b \in Seq(Octet), NEW o \in Nat, NEW s \in RpcParser, s.data = SubSeq(b, 1, o), NEW buffer, Follows(buffer, b, o),
         NEW n \in Nat, n <= Len(buffer), NEW k, k = o + n, k <= Len(b)
  PROVE  Inserted(Rpc!Insert(s, buffer, n), s, b, k)
<1>1. s.data \o SubSeq(buffer, 1, n) = SubSeq(b, 1, k)
  BY Grows
<1>2. SubSeq(b, 1, k) \in Seq(Octet)
  BY TakenSplit
<1>3. Rpc!Insert(s, buffer, n) = [s EXCEPT !.data = SubSeq(b, 1, k)]
  BY <1>1 DEF Rpc!Insert
<1> QED
  BY <1>2, <1>3, DataGrows DEF Inserted

\* While the header is not complete nothing but the bytes are kept.
LEMMA MoreStep ==
  ASSUME NEW b, RpcFrame(b), NEW o \in Nat, NEW s \in RpcParser, ~s.finished, ~s.dataProcessingStarted, s.data = SubSeq(b, 1, o),
         NEW buffer, Follows(buffer, b, o), o + Len(buffer) < ContentAt(b)
  PROVE  RpcTook(Rpc!More(s, buffer), b, o, buffer)
<1>1. b \in Seq(Octet) /\ buffer \in Seq(Octet) /\ Len(b) \in Nat /\ ContentAt(b) \in Nat /\ ContentAt(b) < Len(b) /\ Len(buffer) \in Nat
  BY FrameSizes DEF Follows
<1>2. PICK k \in Nat : k = o + Len(buffer)
  BY <1>1
<1>3. SubSeq(buffer, 1, Len(buffer)) = buffer
  BY <1>1
<1>4. k < Len(b) /\ k < ContentAt(b)
  BY <1>1, <1>2
<1>5. s.data \o buffer = SubSeq(b, 1, k)
  <2>1. Len(buffer) <= Len(buffer) /\ o + Len(buffer) <= Len(b)
    BY <1>1, <1>2, <1>4
  <2> QED
    BY <1>1, <1>2, <1>3, <2>1, Grows
<1>6. PICK t : t = [s EXCEPT !.data = s.data \o buffer]
  OBVIOUS
<1>7. SubSeq(b, 1, k) \in Seq(Octet)
  BY <1>1, <1>4, TakenSplit
<1>8. t \in RpcParser /\ ~t.finished /\ ~t.dataProcessingStarted /\ t.data = SubSeq(b, 1, k)
  BY <1>5, <1>6, <1>7 DEF RpcParser
<1>9. RpcAt(t, b, k)
  BY <1>1, <1>4, <1>8 DEF RpcAt
<1>10. Rpc!More(s, buffer) = [parser |-> t, rest |-> <<>>, threw |-> FALSE]
  BY <1>6 DEF Rpc!More
<1> QED
  BY <1>2, <1>4, <1>9, <1>10 DEF RpcTook

\* Header(): the size of the content is read behind the header.
LEMMA HeaderStep ==
  ASSUME NEW b, RpcFrame(b), HasHeader(b), NEW o \in Nat, o < ContentAt(b),
         NEW s \in RpcParser, ~s.finished, ~s.dataProcessingStarted, s.headerSize = HeaderSize(b), s.data = SubSeq(b, 1, o),
         NEW buffer, Follows(buffer, b, o)
  PROVE  RpcTook(Rpc!Header(s, buffer), b, o, buffer)
<1>1. /\ b \in Seq(Octet) /\ Len(b) \in Nat /\ ContentAt(b) \in Nat /\ ContentAt(b) < Len(b) /\ 8 <= ContentAt(b)
      /\ HeaderSize(b) \in Nat /\ ContentAt(b) = HeaderSize(b) + 12
  BY FrameSizes
<1>2. buffer \in Seq(Octet) /\ Len(buffer) \in Nat
  BY DEF Follows
<1>3. Len(s.data) = o
  BY <1>1
<1>4. PICK missing \in Nat : missing = ContentAt(b) - o /\ 0 < missing /\ o + missing = ContentAt(b)
  BY <1>1
<1>5. 8 + s.headerSize + 4 - Len(s.data) = missing
  BY <1>1, <1>3, <1>4
<1>6. CASE Len(buffer) < missing
  <2>1. Rpc!Header(s, buffer) = Rpc!More(s, buffer)
    BY <1>5, <1>6 DEF Rpc!Header
  <2>2. o + Len(buffer) < ContentAt(b)
    BY <1>1, <1>2, <1>4, <1>6
  <2> QED
    BY <2>1, <2>2, MoreStep
<1>7. CASE ~(Len(buffer) < missing)
  <2>1. missing <= Len(buffer) /\ o + missing <= Len(b)
    BY <1>1, <1>2, <1>4, <1>7
  <2>2. PICK t, r : t = Rpc!Insert(s, buffer, missing) /\ r = Rpc!After(buffer, missing)
    OBVIOUS
  <2>3. t = [s EXCEPT !.data = SubSeq(b, 1, ContentAt(b))] /\ t \in RpcParser /\ t.data = SubSeq(b, 1, ContentAt(b))
    <3>1. PICK k : k = o + missing /\ k <= Len(b) /\ k = ContentAt(b)
      BY <1>4, <2>1
    <3>2. Inserted(t, s, b, k)
      BY <1>1, <2>1, <2>2, <3>1, InsertIs
    <3> QED
      BY <3>1, <3>2 DEF Inserted
  <2>4. Rpc!Number4(t.data, 8 + s.headerSize) = Len(b) - ContentAt(b)
    <3>1. 8 + HeaderSize(b) \in Nat /\ 8 + HeaderSize(b) + 4 <= ContentAt(b) /\ ContentAt(b) <= Len(b)
      BY <1>1
    <3>2. Rpc!Number4(t.data, 8 + HeaderSize(b)) = Rpc!Number4(b, 8 + HeaderSize(b))
      <4>1. PICK at, m : at = 8 + HeaderSize(b) /\ m = ContentAt(b)
        OBVIOUS
      <4>2. b \in Seq(Octet) /\ at \in Nat /\ m \in Nat /\ at + 4 <= m /\ m <= Len(b)
        BY <1>1, <3>1, <4>1
      <4>3. Rpc!Number4(SubSeq(b, 1, m), at) = Rpc!Number4(b, at)
        BY ONLY <4>2, NumberOf
      <4> QED
        BY ONLY <2>3, <4>1, <4>3
    <3> QED
      BY <3>2 DEF RpcFrame
  <2>5. PICK size : size = Rpc!Number4(t.data, 8 + s.headerSize) + s.headerSize + 4
    OBVIOUS
  <2>6. size = Len(b) - 8 /\ ~(size > Rpc!MaxContentSize) /\ size \in Int
    <3>1. size = Len(b) - 8
      BY <1>1, <2>4, <2>5
    <3> QED
      BY <1>1, <3>1, Limits DEF RpcFrame
  <2>7. PICK u : u = [t EXCEPT !.dataSize = size, !.dataProcessingStarted = TRUE]
    OBVIOUS
  <2>8. Rpc!Header(s, buffer) = Rpc!Content(u, r)
    <3>1. ~(missing <= 0)
      BY <1>4
    <3> QED
      BY ONLY <1>5, <1>7, <2>2, <2>5, <2>6, <2>7, <3>1, ZenonT(30) DEF Rpc!Header
  <2>9. u \in RpcParser /\ ~u.finished /\ u.dataProcessingStarted /\ u.data = SubSeq(b, 1, ContentAt(b)) /\ u.dataSize = Len(b) - 8
    BY <2>3, <2>6, <2>7 DEF RpcParser
  <2>10. RpcAt(u, b, ContentAt(b))
    BY <1>1, <2>9 DEF RpcAt
  <2>11. Follows(r, b, ContentAt(b))
    BY <1>1, <1>4, <2>1, <2>2, FollowsAfter DEF Rpc!After
  <2>12. RpcTook(Rpc!Content(u, r), b, ContentAt(b), r)
    BY <2>9, <2>10, <2>11, ContentStep
  <2> QED
    BY <1>1, <1>2, <1>4, <2>1, <2>2, <2>8, <2>12, TookLater
<1> QED
  BY <1>6, <1>7

\* Begin(): with the first eight bytes the size of the header or of the content is known.
LEMMA BeginStep ==
  ASSUME NEW b, RpcFrame(b), NEW o \in Nat, 8 <= o, o < ContentAt(b) \/ (~HasHeader(b) /\ o = 8),
         NEW s \in RpcParser, ~s.finished, ~s.dataProcessingStarted, s.data = SubSeq(b, 1, o),
         NEW buffer, Follows(buffer, b, o)
  PROVE  RpcTook(Rpc!Begin(s, buffer), b, o, buffer)
<1>1. /\ b \in Seq(Octet) /\ Len(b) \in Nat /\ ContentAt(b) \in Nat /\ ContentAt(b) < Len(b) /\ 8 <= ContentAt(b)
      /\ HeaderSize(b) \in Nat
  BY FrameSizes
<1>2. o <= Len(b)
  BY <1>1
<1>3. Rpc!Number4(s.data, 4) = HeaderSize(b) /\ \A j \in 1..o : s.data[j] = b[j]
  BY <1>1, <1>2, NumberOf DEF HeaderSize
<1>4. s.data[4] = b[4] /\ SubSeq(s.data, 1, 3) = Rpc!Bin
  <2>1. SubSeq(s.data, 1, 3) = SubSeq(b, 1, 3)
    <3>1. s.data \in Seq(Octet) /\ Len(s.data) = o
      BY <1>1, <1>2, TakenSplit
    <3>2. PICK x, y : x = SubSeq(s.data, 1, 3) /\ y = SubSeq(b, 1, 3)
      OBVIOUS
    <3>3. x \in Seq(Octet) /\ Len(x) = 3 /\ \A j \in 1..3 : x[j] = s.data[j]
      BY <3>1, <3>2, TakenSplit
    <3>4. y \in Seq(Octet) /\ Len(y) = 3 /\ \A j \in 1..3 : y[j] = b[j]
      BY <1>1, <1>2, <3>2, TakenSplit
    <3>5. \A j \in 1..3 : x[j] = y[j]
      BY <1>3, <3>3, <3>4
    <3> QED
      BY <3>2, <3>3, <3>4, <3>5, SeqEqual
  <2> QED
    BY <1>3, <2>1 DEF RpcFrame
<1>5. PICK t : t = [s EXCEPT !.type = IF s.data[4] % 2 = 1 THEN "response" ELSE "request",
                             !.hasHeader = @ \/ HasHeader(b),
                             !.headerSize = IF HasHeader(b) THEN HeaderSize(b) ELSE @,
                             !.dataSize = IF HasHeader(b) THEN @ ELSE HeaderSize(b)]
  OBVIOUS
<1>6. /\ t \in RpcParser /\ ~t.finished /\ ~t.dataProcessingStarted /\ t.data = SubSeq(b, 1, o)
      /\ HasHeader(b) => t.headerSize = HeaderSize(b)
      /\ ~HasHeader(b) => t.dataSize = HeaderSize(b)
  <2>1. (IF s.data[4] % 2 = 1 THEN "response" ELSE "request") \in {"unknown", "request", "response"}
    OBVIOUS
  <2>2. HasHeader(b) \in BOOLEAN
    BY DEF HasHeader
  <2>3. t \in RpcParser
    <3>1. PICK y, h, n, m : /\ y = (IF s.data[4] % 2 = 1 THEN "response" ELSE "request") /\ h = (s.hasHeader \/ HasHeader(b))
                           /\ n = (IF HasHeader(b) THEN HeaderSize(b) ELSE s.headerSize)
                           /\ m = (IF HasHeader(b) THEN s.dataSize ELSE HeaderSize(b))
      OBVIOUS
    <3>2. s.hasHeader \in BOOLEAN /\ s.headerSize \in Int /\ s.dataSize \in Int
      BY DEF RpcParser
    <3>3. y \in {"unknown", "request", "response"} /\ h \in BOOLEAN /\ n \in Int /\ m \in Int
      BY <1>1, <2>1, <2>2, <3>1, <3>2
    <3>4. t = [s EXCEPT !.type = y, !.hasHeader = h, !.headerSize = n, !.dataSize = m]
      BY <1>5, <3>1
    <3> QED
      BY <3>3, <3>4 DEF RpcParser
  <2>4. ~t.finished /\ ~t.dataProcessingStarted /\ t.data = SubSeq(b, 1, o)
    BY <1>5 DEF RpcParser
  <2>5. HasHeader(b) => t.headerSize = HeaderSize(b)
    BY <1>5 DEF RpcParser
  <2>6. ~HasHeader(b) => t.dataSize = HeaderSize(b)
    BY <1>5 DEF RpcParser
  <2> QED
    BY <2>3, <2>4, <2>5, <2>6
<1>7. s.data[4] \in {64, 65} <=> HasHeader(b)
  BY <1>4 DEF HasHeader
<1>8. CASE HasHeader(b)
  <2>1. ~(HeaderSize(b) = 0 \/ HeaderSize(b) > Rpc!MaxHeaderSize)
    BY <1>8, Limits DEF RpcFrame
  <2>2. Rpc!Begin(s, buffer) = Rpc!Header(t, buffer)
    BY <1>3, <1>4, <1>5, <1>7, <1>8, <2>1 DEF Rpc!Begin
  <2>3. o < ContentAt(b)
    BY <1>8
  <2> QED
    BY <1>6, <1>8, <2>2, <2>3, HeaderStep
<1>9. CASE ~HasHeader(b)
  <2>1. HeaderSize(b) = Len(b) - 8 /\ ContentAt(b) = 8 /\ o = 8
    BY <1>1, <1>9, FrameSizes DEF RpcFrame
  <2>2. ~(HeaderSize(b) = 0 \/ HeaderSize(b) > Rpc!MaxContentSize)
    <3>1. Len(b) - 8 <= Rpc!MaxContentSize
      BY DEF RpcFrame
    <3>2. HeaderSize(b) # 0
      <4>1. 8 < Len(b)
        <5>1. ContentAt(b) = 8 /\ ContentAt(b) < Len(b)
          BY <1>1, <2>1
        <5> QED
          BY ONLY <5>1
      <4>2. Len(b) - 8 # 0
        <5>1. PICK l \in Nat : l = Len(b)
          BY <1>1
        <5>2. 8 < l
          BY <4>1, <5>1
        <5>3. l - 8 # 0
          BY ONLY <5>2, l \in Nat
        <5> QED
          BY ONLY <5>1, <5>3
      <4> QED
        BY <2>1, <4>2
    <3> QED
      BY <1>1, <2>1, <3>1, <3>2, Limits
  <2>3. PICK u : u = [t EXCEPT !.dataProcessingStarted = TRUE]
    OBVIOUS
  <2>4. Rpc!Begin(s, buffer) = Rpc!Content(u, buffer)
    BY <1>3, <1>4, <1>5, <1>7, <1>9, <2>2, <2>3 DEF Rpc!Begin
  <2>5. u \in RpcParser /\ ~u.finished /\ u.dataProcessingStarted /\ u.data = SubSeq(b, 1, o) /\ u.dataSize = Len(b) - 8
    BY <1>6, <1>9, <2>1, <2>3 DEF RpcParser
  <2>6. RpcAt(u, b, o)
    BY <1>1, <2>1, <2>5 DEF RpcAt
  <2> QED
    BY <2>4, <2>5, <2>6, ContentStep
<1> QED
  BY <1>8, <1>9

\* process() with a piece of a frame or more.
LEMMA RpcStep ==
  ASSUME NEW b, RpcFrame(b), NEW o, NEW s, RpcAt(s, b, o), NEW buffer, Follows(buffer, b, o)
  PROVE  RpcTook(Rpc!process(s, buffer), b, o, buffer)
<1>1. /\ b \in Seq(Octet) /\ Len(b) \in Nat /\ ContentAt(b) \in Nat /\ ContentAt(b) < Len(b) /\ 8 <= ContentAt(b)
      /\ HeaderSize(b) \in Nat
      /\ HasHeader(b) => ContentAt(b) = HeaderSize(b) + 12
      /\ ~HasHeader(b) => ContentAt(b) = 8
  BY FrameSizes
<1>2. buffer \in Seq(Octet) /\ Len(buffer) \in Nat
  BY DEF Follows
<1>3. s \in RpcParser /\ ~s.finished /\ o \in Nat /\ o < Len(b) /\ s.data = SubSeq(b, 1, o)
  BY <1>1 DEF RpcAt
<1>4. Len(s.data) = o
  BY <1>1, <1>3
<1>5. CASE s.dataProcessingStarted
  <2>1. Rpc!process(s, buffer) = Rpc!Content(s, buffer)
    BY <1>3, <1>5 DEF Rpc!process
  <2> QED
    BY <1>5, <2>1, ContentStep
<1>6. CASE ~s.dataProcessingStarted
  <2>1. PICK missing \in Nat : missing = (IF Len(s.data) < 8 THEN 8 - Len(s.data) ELSE 0)
    <3>1. (IF Len(s.data) < 8 THEN 8 - Len(s.data) ELSE 0) \in Nat
      BY <1>3, <1>4
    <3> QED
      BY <3>1
  <2>2. o < ContentAt(b)
    BY <1>1, <1>3, <1>6 DEF RpcAt
  <2>3. CASE Len(buffer) < missing
    <3>1. Rpc!process(s, buffer) = Rpc!More(s, buffer)
      BY <1>3, <1>6, <2>1, <2>3 DEF Rpc!process
    <3>2. o + Len(buffer) < ContentAt(b)
      BY <1>1, <1>2, <1>3, <1>4, <2>1, <2>3
    <3> QED
      BY <1>3, <1>6, <3>1, <3>2, MoreStep
  <2>4. CASE ~(Len(buffer) < missing)
    <3>1. PICK t, r : t = Rpc!Insert(s, buffer, missing) /\ r = Rpc!After(buffer, missing)
      OBVIOUS
    <3>2. Rpc!process(s, buffer) = Rpc!Begin(t, r)
      BY <1>3, <1>6, <2>1, <2>4, <3>1 DEF Rpc!process
    <3>3. PICK k \in Nat : k = o + missing
      BY <1>3
    <3>4. missing <= Len(buffer) /\ k <= Len(b) /\ k < Len(b) /\ 8 <= k
      BY <1>1, <1>2, <1>3, <1>4, <2>1, <2>2, <2>4, <3>3
    <3>5. k < ContentAt(b) \/ (~HasHeader(b) /\ k = 8)
      BY <1>1, <1>3, <1>4, <2>1, <2>2, <3>3
    <3>6. t = [s EXCEPT !.data = SubSeq(b, 1, k)] /\ t \in RpcParser /\ t.data = SubSeq(b, 1, k)
      <4>1. b \in Seq(Octet) /\ k <= Len(b) /\ missing <= Len(buffer)
        BY <1>1, <3>4
      <4>2. o \in Nat /\ s \in RpcParser /\ s.data = SubSeq(b, 1, o)
        BY <1>3
      <4>3. Inserted(t, s, b, k)
        BY ONLY <3>1, <3>3, <4>1, <4>2, Follows(buffer, b, o), InsertIs
      <4> QED
        BY <4>3 DEF Inserted
    <3>7. ~t.finished /\ ~t.dataProcessingStarted
      BY <1>3, <1>6, <3>6 DEF RpcParser
    <3>8. Follows(r, b, k)
      BY <1>1, <1>3, <3>1, <3>3, <3>4, FollowsAfter DEF Rpc!After
    <3>9. RpcTook(Rpc!Begin(t, r), b, k, r)
      BY <3>4, <3>5, <3>6, <3>7, <3>8, BeginStep
    <3> QED
      BY <1>1, <1>2, <1>3, <3>1, <3>2, <3>3, <3>4, <3>9, TookLater
  <2> QED
    BY <2>3, <2>4
<1> QED
  BY <1>5, <1>6
-----------------------------------------------------------------------------
(* The parser of WebSocket frames.                                         *)
WebParser ==
  [close : BOOLEAN, parsed : BOOLEAN, length : Int, fin : BOOLEAN, reserved : BOOLEAN, opcode : Int, hasMask : BOOLEAN,
   maskingKey : Seq(Octet), content : Seq(Octet), oldContentSize : Int, finished : BOOLEAN, rawHeader : Seq(Octet)]

\* What the header of a frame says.
HasMask(b) == b[2] >= 128
LengthBytes(b) == CASE b[2] % 128 = 126 -> 2 [] b[2] % 128 = 127 -> 8 [] OTHER -> 0
HeaderLength(b) == 2 + LengthBytes(b) + (IF HasMask(b) THEN 4 ELSE 0)
Declared(b) ==
  CASE LengthBytes(b) = 2 -> Web!Value2(SubSeq(b, 3, 4))
    [] LengthBytes(b) = 8 -> Web!Value8(SubSeq(b, 3, 10))
    [] OTHER -> b[2] % 128
KeyOf(b) == IF HasMask(b) THEN SubSeq(b, HeaderLength(b) - 3, HeaderLength(b)) ELSE <<>>
Raw(b, o) == SubSeq(b, HeaderLength(b) + 1, o)
Plain(b) == [i \in 1..Len(b) - HeaderLength(b) |-> IF HasMask(b) THEN Web!Xor(Raw(b, Len(b))[i], KeyOf(b)[((i - 1) % 4) + 1])
                                                               ELSE Raw(b, Len(b))[i]]

\* A frame as process() expects it after these contents of a message.
WebFrame(b, begun, content, last, close) ==
  /\ b \in Seq(Octet) /\ 2 <= Len(b) /\ HeaderLength(b) <= Len(b)
  /\ Declared(b) = Len(b) - HeaderLength(b) /\ Declared(b) + MaxPiece <= Web!MaxContent
  /\ (b[1] \div 16) % 8 = 0 /\ b[1] % 16 \in Web!Known /\ (b[1] >= 128 <=> last)
  /\ begun \in Seq(Octet) /\ content \in Seq(Octet) /\ content = begun \o Plain(b)
  /\ HasMask(b) => begun = <<>> /\ last
  /\ close <=> Declared(b) = 0
  /\ close => last /\ begun = <<>> /\ b[1] % 16 = Web!Opcode.close

\* The parser has this many bytes of the frame, without and with its header.
WebBefore(s, b, begun, o) ==
  /\ s \in WebParser /\ ~s.finished /\ ~s.parsed /\ ~s.close
  /\ o \in 0..Len(b) /\ (o <= 2 \/ o < HeaderLength(b)) /\ s.rawHeader = SubSeq(b, 1, o)
  /\ s.content = begun /\ s.oldContentSize = Len(begun) /\ s.maskingKey = <<>>
WebBehind(s, b, begun, o) ==
  /\ s \in WebParser /\ ~s.finished /\ s.parsed
  /\ o \in 0..Len(b) /\ HeaderLength(b) <= o
  /\ s.content = begun \o Raw(b, o) /\ s.oldContentSize = Len(begun) /\ s.maskingKey = KeyOf(b)
  /\ s.length = Declared(b) /\ (s.fin <=> b[1] >= 128) /\ ~s.reserved /\ s.opcode = b[1] % 16
  /\ (s.hasMask <=> HasMask(b)) /\ s.rawHeader = <<>>
WebAt(s, b, begun, o) ==
  \/ WebBefore(s, b, begun, o)
  \/ WebBehind(s, b, begun, o) /\ o < Len(b) /\ ~s.close
WebStart(s, begun) ==
  /\ s \in WebParser /\ ~s.finished /\ ~s.parsed /\ ~s.close
  /\ s.rawHeader = <<>> /\ s.content = begun /\ s.oldContentSize = Len(begun) /\ s.maskingKey = <<>>

\* The parser waits for more of the frame, or has all of it.
WebMore(q, b, begun, o, buffer) ==
  /\ o + Len(buffer) <= Len(b) /\ (o + Len(buffer) = Len(b) => Len(b) = 2)
  /\ WebAt(q.parser, b, begun, o + Len(buffer)) /\ q.rest = <<>>
WebDone(q, b, content, last, close, o, buffer) ==
  /\ Len(b) <= o + Len(buffer) /\ q.rest = SubSeq(buffer, Len(b) - o + 1, Len(buffer))
  /\ last => /\ q.parser \in WebParser /\ q.parser.finished
             /\ q.parser.content = content /\ q.parser.close = close
  /\ ~last => WebStart(q.parser, content)
WebTook(q, b, begun, content, last, close, o, buffer) ==
  ~q.threw /\ (WebMore(q, b, begun, o, buffer) \/ WebDone(q, b, content, last, close, o, buffer))

\* A part of a sequence.
LEMMA PartIs ==
  ASSUME NEW d \in Seq(Octet), NEW x \in Nat, NEW y \in Nat, 0 < x, x <= y + 1, y <= Len(d)
  PROVE  /\ SubSeq(d, x, y) \in Seq(Octet) /\ Len(SubSeq(d, x, y)) = y - x + 1
         /\ \A j \in 1..y - x + 1 : SubSeq(d, x, y)[j] = d[x + j - 1]
  OBVIOUS

\* A part of the beginning of a frame is that part of the frame.
LEMMA SamePart ==
  ASSUME NEW d \in Seq(Octet), NEW x \in Nat, NEW y \in Nat, 0 < x, x <= y + 1, NEW n \in Nat, y <= n, n <= Len(d)
  PROVE  SubSeq(SubSeq(d, 1, n), x, y) = SubSeq(d, x, y)
<1>1. PICK e : e = SubSeq(d, 1, n)
  OBVIOUS
<1>2. e \in Seq(Octet) /\ Len(e) = n /\ \A j \in 1..n : e[j] = d[j]
  BY <1>1, TakenSplit
<1>3. PICK u, v : u = SubSeq(e, x, y) /\ v = SubSeq(d, x, y)
  OBVIOUS
<1>4. u \in Seq(Octet) /\ Len(u) = y - x + 1 /\ \A j \in 1..y - x + 1 : u[j] = e[x + j - 1]
  <2>1. e \in Seq(Octet) /\ x \in Nat /\ y \in Nat /\ 0 < x /\ x <= y + 1 /\ y <= Len(e)
    BY ONLY <1>2, x \in Nat, y \in Nat, 0 < x, x <= y + 1, y <= n
  <2> QED
    BY ONLY <1>3, <2>1, PartIs
<1>5. v \in Seq(Octet) /\ Len(v) = y - x + 1 /\ \A j \in 1..y - x + 1 : v[j] = d[x + j - 1]
  BY <1>3, PartIs
<1>6. \A j \in 1..y - x + 1 : u[j] = v[j]
  <2> TAKE j \in 1..y - x + 1
  <2>1. x + j - 1 \in 1..n
    OBVIOUS
  <2> QED
    BY <1>2, <1>4, <1>5, <2>1
<1> QED
  BY <1>1, <1>3, <1>4, <1>5, <1>6, SeqEqual

\* The sizes of a frame.
LEMMA WebSizes ==
  ASSUME NEW b \in Seq(Octet), 2 <= Len(b)
  PROVE  /\ Len(b) \in Nat /\ HeaderLength(b) \in Nat /\ 2 <= HeaderLength(b) /\ b[1] \in Octet /\ b[2] \in Octet
         /\ LengthBytes(b) \in {0, 2, 8} /\ HeaderLength(b) = 2 + LengthBytes(b) + (IF HasMask(b) THEN 4 ELSE 0)
<1>1. LengthBytes(b) \in {0, 2, 8}
  BY DEF LengthBytes
<1>2. b[1] \in Octet /\ b[2] \in Octet /\ Len(b) \in Nat
  OBVIOUS
<1> QED
  BY <1>1, <1>2 DEF HeaderLength

Glued(b, h, o, buffer, n, k) == SubSeq(b, h + 1, o) \o SubSeq(buffer, 1, n) = SubSeq(b, h + 1, k)

\* What the parser has of the content grows by what it takes.
LEMMA RawGrows ==
  ASSUME NEW b \in Seq(Octet), NEW h \in Nat, NEW o \in Nat, h <= o, NEW buffer, Follows(buffer, b, o),
         NEW n \in Nat, n <= Len(buffer), NEW k, k = o + n, k <= Len(b)
  PROVE  Glued(b, h, o, buffer, n, k)
<1>1. buffer \in Seq(Octet) /\ k \in Nat /\ o <= Len(b) /\ h <= k
  BY DEF Follows
<1>2. PICK x, y, z : x = SubSeq(b, h + 1, o) /\ y = SubSeq(buffer, 1, n) /\ z = SubSeq(b, h + 1, k)
  OBVIOUS
<1>3. /\ x \in Seq(Octet) /\ Len(x) = o - h /\ \A j \in 1..o - h : x[j] = b[h + j]
  <2>1. b \in Seq(Octet) /\ h + 1 \in Nat /\ o \in Nat /\ 0 < h + 1 /\ h + 1 <= o + 1 /\ o <= Len(b)
    BY <1>1
  <2>2. x \in Seq(Octet) /\ Len(x) = o - (h + 1) + 1 /\ \A j \in 1..o - (h + 1) + 1 : x[j] = b[h + 1 + j - 1]
    BY ONLY <1>2, <2>1, PartIs
  <2>3. o - (h + 1) + 1 = o - h /\ \A j \in Int : h + 1 + j - 1 = h + j
    OBVIOUS
  <2> QED
    BY ONLY <2>2, <2>3
<1>4. /\ y \in Seq(Octet) /\ Len(y) = n /\ \A j \in 1..n : y[j] = buffer[j]
  BY <1>1, <1>2, TakenSplit
<1>5. /\ z \in Seq(Octet) /\ Len(z) = k - h /\ \A j \in 1..k - h : z[j] = b[h + j]
  <2>1. b \in Seq(Octet) /\ h + 1 \in Nat /\ k \in Nat /\ 0 < h + 1 /\ h + 1 <= k + 1 /\ k <= Len(b)
    BY <1>1
  <2>2. z \in Seq(Octet) /\ Len(z) = k - (h + 1) + 1 /\ \A j \in 1..k - (h + 1) + 1 : z[j] = b[h + 1 + j - 1]
    BY ONLY <1>2, <2>1, PartIs
  <2>3. k - (h + 1) + 1 = k - h /\ \A j \in Int : h + 1 + j - 1 = h + j
    BY <1>1
  <2> QED
    BY ONLY <2>2, <2>3
<1>6. \A j \in 1..n : y[j] = b[o + j]
  <2>1. \A j \in 1..n : j \in 1..Len(buffer) /\ o + j <= Len(b)
    BY <1>1
  <2>2. \A j \in 1..Len(buffer) : o + j <= Len(b) => buffer[j] = b[o + j]
    BY DEF Follows
  <2> QED
    BY ONLY <1>4, <2>1, <2>2
<1>7. \A j \in 1..k - h : (x \o y)[j] = z[j]
  <2> TAKE j \in 1..k - h
  <2>1. CASE j <= o - h
    <3>1. j \in 1..o - h
      BY <2>1
    <3>2. (x \o y)[j] = x[j]
      <4>1. x \in Seq(Octet) /\ y \in Seq(Octet) /\ Len(x) = o - h
        BY ONLY <1>3, <1>4
      <4> QED
        BY ONLY <3>1, <4>1, ItemsOfJoined
    <3> QED
      BY <1>3, <1>5, <3>1, <3>2
  <2>2. CASE j > o - h
    <3>1. j - (o - h) \in 1..n /\ o + (j - (o - h)) = h + j
      BY <2>2
    <3>2. (x \o y)[j] = y[j - (o - h)]
      <4>1. x \in Seq(Octet) /\ y \in Seq(Octet) /\ Len(x) = o - h /\ Len(y) = n
        BY ONLY <1>3, <1>4
      <4>2. j \in 1..(o - h) + n /\ j > o - h
        BY <2>2
      <4> QED
        BY ONLY <4>1, <4>2, ItemsOfJoined
    <3> QED
      BY <1>5, <1>6, <3>1, <3>2
  <2>3. j <= o - h \/ j > o - h
    OBVIOUS
  <2> QED
    BY <2>1, <2>2, <2>3
<1>8. x \o y \in Seq(Octet) /\ Len(x \o y) = Len(z)
  <2>1. x \o y \in Seq(Octet) /\ Len(x \o y) = Len(x) + Len(y)
    <3>1. x \in Seq(Octet) /\ y \in Seq(Octet)
      BY ONLY <1>3, <1>4
    <3> QED
      BY ONLY <3>1
  <2> QED
    BY ONLY <1>1, <1>3, <1>4, <1>5, <2>1, n \in Nat, o \in Nat, h \in Nat, k = o + n
<1> QED
  BY <1>2, <1>5, <1>7, <1>8, SeqEqual DEF Glued

\* What the header of a frame says, as far as the content needs it.
LEMMA WebFacts ==
  ASSUME NEW b, NEW begun, NEW content, NEW last, NEW close, WebFrame(b, begun, content, last, close)
  PROVE  /\ b \in Seq(Octet) /\ 2 <= Len(b) /\ Len(b) \in Nat /\ HeaderLength(b) \in Nat /\ 2 <= HeaderLength(b)
         /\ HeaderLength(b) <= Len(b) /\ Declared(b) = Len(b) - HeaderLength(b)
         /\ Declared(b) \in Nat /\ Declared(b) + MaxPiece <= Web!MaxContent
         /\ begun \in Seq(Octet) /\ content \in Seq(Octet) /\ content = begun \o Plain(b)
<1>1. /\ b \in Seq(Octet) /\ 2 <= Len(b) /\ HeaderLength(b) <= Len(b) /\ Declared(b) = Len(b) - HeaderLength(b)
      /\ Declared(b) + MaxPiece <= Web!MaxContent
      /\ begun \in Seq(Octet) /\ content \in Seq(Octet) /\ content = begun \o Plain(b)
  BY DEF WebFrame
<1>2. Len(b) \in Nat /\ HeaderLength(b) \in Nat /\ 2 <= HeaderLength(b)
  BY <1>1, WebSizes
<1> QED
  BY <1>1, <1>2

\* The content that the parser has so far.
LEMMA RawIs ==
  ASSUME NEW b \in Seq(Octet), 2 <= Len(b), NEW o \in Nat, HeaderLength(b) <= o, o <= Len(b)
  PROVE  /\ Raw(b, o) \in Seq(Octet) /\ Len(Raw(b, o)) = o - HeaderLength(b)
         /\ \A j \in 1..o - HeaderLength(b) : Raw(b, o)[j] = b[HeaderLength(b) + j]
<1>1. PICK h \in Nat : h = HeaderLength(b)
  BY WebSizes
<1>2. PICK x : x = SubSeq(b, h + 1, o)
  OBVIOUS
<1>3. x \in Seq(Octet) /\ Len(x) = o - h /\ \A j \in 1..o - h : x[j] = b[h + j]
  <2>1. b \in Seq(Octet) /\ h + 1 \in Nat /\ o \in Nat /\ 0 < h + 1 /\ h + 1 <= o + 1 /\ o <= Len(b)
    BY <1>1
  <2>2. x \in Seq(Octet) /\ Len(x) = o - (h + 1) + 1 /\ \A j \in 1..o - (h + 1) + 1 : x[j] = b[h + 1 + j - 1]
    BY ONLY <1>2, <2>1, PartIs
  <2>3. o - (h + 1) + 1 = o - h /\ \A j \in Int : h + 1 + j - 1 = h + j
    OBVIOUS
  <2> QED
    BY ONLY <2>2, <2>3
<1> QED
  BY <1>1, <1>2, <1>3 DEF Raw

\* When all is there the mask is applied to it, if there is one.
LEMMA Unmasked ==
  ASSUME NEW b, NEW begun, NEW content, NEW last, NEW close, WebFrame(b, begun, content, last, close),
         NEW s, WebBehind(s, b, begun, Len(b))
  PROVE  Web!applyMask(s) = content
<1>1. /\ b \in Seq(Octet) /\ 2 <= Len(b) /\ Len(b) \in Nat /\ HeaderLength(b) \in Nat /\ HeaderLength(b) <= Len(b)
      /\ begun \in Seq(Octet) /\ content = begun \o Plain(b)
  BY WebFacts
<1>2. PICK r, n : r = Raw(b, Len(b)) /\ n = Len(b) - HeaderLength(b)
  OBVIOUS
<1>3. n \in Nat /\ r \in Seq(Octet) /\ Len(r) = n
  BY <1>1, <1>2, RawIs
<1>4. s.content = begun \o r /\ s.oldContentSize = Len(begun) /\ s.maskingKey = KeyOf(b) /\ (s.hasMask <=> HasMask(b))
  BY <1>2 DEF WebBehind
<1>5. CASE ~HasMask(b)
  <2>1. Plain(b) = [i \in 1..n |-> r[i]]
    BY <1>2, <1>5 DEF Plain
  <2>2. [i \in 1..n |-> r[i]] = r
    BY <1>3
  <2> QED
    BY <1>1, <1>4, <1>5, <2>1, <2>2 DEF Web!applyMask
<1>6. CASE HasMask(b)
  <2>1. begun = <<>>
    BY <1>6 DEF WebFrame
  <2>2. PICK key : key = KeyOf(b)
    OBVIOUS
  <2>3. Plain(b) = [i \in 1..n |-> Web!Xor(r[i], key[((i - 1) % 4) + 1])]
    BY <1>2, <1>6, <2>2 DEF Plain
  <2>4. s.content = r /\ s.oldContentSize = 0
    BY <1>3, <1>4, <2>1
  <2>5. Web!applyMask(s) = [i \in 1..n |-> IF i <= 0 THEN r[i] ELSE Web!Xor(r[i], key[((i - 1) % 4) + 1])]
    BY <1>3, <1>4, <1>6, <2>2, <2>4 DEF Web!applyMask
  <2>6. \A i \in 1..n : ~(i <= 0)
    BY <1>3
  <2>7. Web!applyMask(s) = Plain(b)
    BY <2>3, <2>5, <2>6
  <2>8. content = Plain(b)
    <3>1. Plain(b) \in Seq(Octet)
      <4>1. content \in Seq(Octet)
        BY WebFacts
      <4>2. Len(content) = Len(content)
        OBVIOUS
      <4>3. \A i \in 1..n : Web!Xor(r[i], key[((i - 1) % 4) + 1]) \in Octet
        <5> TAKE i \in 1..n
        <5>1. r[i] \in Octet
          BY <1>3
        <5>2. PICK h \in Nat : h = HeaderLength(b)
          BY <1>1
        <5>3. 6 <= h
          <6>1. b \in Seq(Octet) /\ 2 <= Len(b)
            BY ONLY <1>1
          <6> QED
            BY ONLY <1>6, <5>2, <6>1, WebSizes
        <5>4. key = SubSeq(b, h - 3, h)
          BY <1>6, <2>2, <5>2 DEF KeyOf
        <5>5. h - 3 \in Nat /\ 0 < h - 3 /\ h - 3 <= h + 1 /\ h <= Len(b)
          BY <1>1, <5>2, <5>3
        <5>6. key \in Seq(Octet) /\ Len(key) = 4
          <6>1. PICK g : g = h - 3
            OBVIOUS
          <6>2. b \in Seq(Octet) /\ g \in Nat /\ h \in Nat /\ 0 < g /\ g <= h + 1 /\ h <= Len(b)
            BY ONLY <1>1, <5>2, <5>5, <6>1
          <6>3. key \in Seq(Octet) /\ Len(key) = h - g + 1
            BY ONLY <5>4, <6>1, <6>2, PartIs
          <6>4. h - g + 1 = 4
            BY ONLY <6>1, <6>2
          <6> QED
            BY ONLY <6>3, <6>4
        <5>7. ((i - 1) % 4) + 1 \in 1..4
          BY <1>3
        <5>8. key[((i - 1) % 4) + 1] \in Octet
          <6>1. PICK m \in 1..4 : m = ((i - 1) % 4) + 1
            BY <5>7
          <6>2. m \in 1..Len(key)
            BY <5>6, <6>1
          <6>3. key[m] \in Octet
            BY <5>6, <6>2, ElementOfSeq
          <6> QED
            BY <6>1, <6>3
        <5> QED
          BY <5>1, <5>8, XorTwice
      <4> QED
        BY <1>3, <2>3, <4>3
    <3> QED
      BY <1>1, <2>1, <3>1
  <2> QED
    BY <2>7, <2>8
<1> QED
  BY <1>5, <1>6

\* Joining is associative.
LEMMA Associative ==
  ASSUME NEW x \in Seq(Octet), NEW y \in Seq(Octet), NEW z \in Seq(Octet)
  PROVE  (x \o y) \o z = x \o (y \o z)
<1>1. PICK u, v : u = (x \o y) \o z /\ v = x \o (y \o z)
  OBVIOUS
<1>2. u \in Seq(Octet) /\ v \in Seq(Octet) /\ Len(u) = Len(x) + Len(y) + Len(z) /\ Len(v) = Len(u)
  BY <1>1
<1>3. \A i \in 1..Len(u) : u[i] = v[i]
  BY <1>1, <1>2
<1> QED
  BY <1>1, <1>2, <1>3, SeqEqual

\* processContent() takes what is missing of the content and no more.
LEMMA WebContentStep ==
  ASSUME NEW b, NEW begun, NEW content, NEW last, NEW close, WebFrame(b, begun, content, last, close),
         NEW o, NEW s, WebBehind(s, b, begun, o), s.close = close, last \in BOOLEAN, close \in BOOLEAN,
         NEW buffer, Follows(buffer, b, o), Len(buffer) <= MaxPiece
  PROVE  WebTook(Web!processContent(s, buffer) , b, begun, content, last, close, o, buffer)
<1>1. /\ b \in Seq(Octet) /\ 2 <= Len(b) /\ Len(b) \in Nat /\ HeaderLength(b) \in Nat /\ 2 <= HeaderLength(b)
      /\ HeaderLength(b) <= Len(b) /\ Declared(b) = Len(b) - HeaderLength(b)
      /\ Declared(b) \in Nat /\ Declared(b) + MaxPiece <= Web!MaxContent
      /\ begun \in Seq(Octet) /\ content \in Seq(Octet) /\ content = begun \o Plain(b)
  BY WebFacts
<1>2. /\ s \in WebParser /\ ~s.finished /\ s.parsed /\ o \in Nat /\ o <= Len(b) /\ HeaderLength(b) <= o
      /\ s.content = begun \o Raw(b, o) /\ s.oldContentSize = Len(begun) /\ s.maskingKey = KeyOf(b)
      /\ s.length = Declared(b) /\ (s.fin <=> b[1] >= 128) /\ ~s.reserved /\ s.opcode = b[1] % 16
      /\ (s.hasMask <=> HasMask(b)) /\ s.rawHeader = <<>>
  BY <1>1 DEF WebBehind
<1>3. buffer \in Seq(Octet) /\ Len(buffer) \in Nat
  BY DEF Follows
<1>4. PICK l, h, n, d : /\ l = Len(b) /\ h = HeaderLength(b) /\ n = Len(buffer) /\ d = Declared(b)
                      /\ l \in Nat /\ h \in Nat /\ n \in Nat /\ d \in Nat
  BY <1>1, <1>3
<1>5. d = l - h /\ h <= o /\ o <= l /\ o \in Nat /\ d + MaxPiece <= Web!MaxContent /\ n <= MaxPiece /\ MaxPiece \in Nat
  BY <1>1, <1>2, <1>4, FramingAssumption
<1>6. Len(s.content) - s.oldContentSize = o - h
  <2>1. Raw(b, o) \in Seq(Octet) /\ Len(Raw(b, o)) = o - h
    BY <1>1, <1>2, <1>4, RawIs
  <2> QED
    BY <1>1, <1>2, <1>4, <2>1
<1>7. PICK taken : taken = (IF o - h + n > d THEN d - (o - h) ELSE n)
  OBVIOUS
<1>8. taken \in Nat /\ taken <= n /\ o + taken <= l /\ (o + taken = l <=> l <= o + n) /\ (o + taken < l => taken = n)
  <2>1. l \in Nat /\ h \in Nat /\ n \in Nat /\ o \in Nat /\ d = l - h /\ h <= o /\ o <= l
    BY <1>4, <1>5
  <2>2. CASE o - h + n > d
    <3>1. taken = l - o
      BY ONLY <1>7, <2>1, <2>2
    <3> QED
      BY ONLY <2>1, <2>2, <3>1
  <2>3. CASE ~(o - h + n > d)
    BY ONLY <1>7, <2>1, <2>3
  <2> QED
    BY <2>2, <2>3
<1>9. ~(o - h + n > Web!MaxContent)
  <2>1. l \in Nat /\ h \in Nat /\ n \in Nat /\ d \in Nat /\ Web!MaxContent \in Nat
    BY <1>4, Limits
  <2> QED
    BY ONLY <1>5, <2>1
<1>10. PICK k \in Nat : k = o + taken
  BY <1>5, <1>8
<1>11. PICK t : t = [s EXCEPT !.content = s.content \o SubSeq(buffer, 1, taken)]
  OBVIOUS
<1>12. s.content \o SubSeq(buffer, 1, taken) = begun \o Raw(b, k)
  <2>1. Raw(b, o) \o SubSeq(buffer, 1, taken) = Raw(b, k)
    <3>1. b \in Seq(Octet) /\ h <= o /\ o \in Nat /\ taken \in Nat /\ taken <= Len(buffer) /\ k <= Len(b)
      BY <1>1, <1>4, <1>5, <1>8, <1>10
    <3>2. Glued(b, h, o, buffer, taken, k)
      <4>1. h \in Nat /\ k = o + taken /\ Follows(buffer, b, o)
        BY <1>4, <1>10
      <4> QED
        BY ONLY <3>1, <4>1, RawGrows
    <3> QED
      BY <1>4, <3>2 DEF Raw, Glued
  <2>2. Raw(b, o) \in Seq(Octet) /\ SubSeq(buffer, 1, taken) \in Seq(Octet)
    <3>1. Raw(b, o) \in Seq(Octet)
      BY <1>1, <1>2, RawIs
    <3>2. taken \in Nat /\ taken <= Len(buffer)
      BY <1>4, <1>8
    <3> QED
      BY <1>3, <3>1, <3>2, TakenSplit
  <2>3. (begun \o Raw(b, o)) \o SubSeq(buffer, 1, taken) = begun \o (Raw(b, o) \o SubSeq(buffer, 1, taken))
    <3>1. begun \in Seq(Octet)
      BY <1>1
    <3> QED
      BY ONLY <2>2, <3>1, ZenonT(60), Associative
  <2> QED
    BY <1>2, <2>1, <2>3
<1>13. Raw(b, k) \in Seq(Octet) /\ begun \o Raw(b, k) \in Seq(Octet)
  <2>1. b \in Seq(Octet) /\ 2 <= Len(b) /\ HeaderLength(b) <= k /\ k <= Len(b)
    BY <1>1, <1>4, <1>5, <1>8, <1>10
  <2>2. Raw(b, k) \in Seq(Octet)
    BY <1>10, <2>1, RawIs
  <2> QED
    BY <1>1, <2>2
<1>14. t = [s EXCEPT !.content = begun \o Raw(b, k)]
  BY <1>11, <1>12
<1>15. WebBehind(t, b, begun, k) /\ t.close = close /\ t.content = begun \o Raw(b, k)
  <2>1. /\ t \in WebParser /\ ~t.finished /\ t.parsed
        /\ t.content = begun \o Raw(b, k) /\ t.oldContentSize = Len(begun) /\ t.maskingKey = KeyOf(b)
    BY <1>2, <1>13, <1>14 DEF WebParser
  <2>2. /\ t.length = Declared(b) /\ (t.fin <=> b[1] >= 128) /\ ~t.reserved /\ t.opcode = b[1] % 16
        /\ (t.hasMask <=> HasMask(b)) /\ t.rawHeader = <<>>
    BY <1>2, <1>14 DEF WebParser
  <2>3. t.close = close
    BY <1>2, <1>14 DEF WebParser
  <2>4. k \in 0..Len(b) /\ HeaderLength(b) <= k
    BY <1>4, <1>5, <1>8, <1>10
  <2> QED
    BY <2>1, <2>2, <2>3, <2>4 DEF WebBehind
<1>16. PICK rest : rest = Web!After(buffer, taken)
  OBVIOUS
<1>17. PICK q : q = Web!processContent(s, buffer)
  OBVIOUS
<1>18. o - h + taken # d <=> k < l
  <2>1. l \in Nat /\ h \in Nat /\ o \in Nat /\ taken \in Nat /\ d = l - h /\ o + taken <= l /\ k = o + taken
    BY <1>4, <1>5, <1>8, <1>10
  <2> QED
    BY ONLY <2>1
<1>19. CASE k < l
  <2>1. q = [parser |-> t, rest |-> rest, threw |-> FALSE]
    BY ONLY <1>2, <1>4, <1>6, <1>7, <1>9, <1>11, <1>16, <1>17, <1>18, <1>19 DEF Web!processContent
  <2>2. taken = n /\ k = o + n
    BY <1>8, <1>10, <1>19
  <2>3. rest = <<>>
    BY <1>3, <1>4, <1>16, <2>2 DEF Web!After
  <2>4. ~close
    <3>1. d # 0
      <4>1. h \in Nat /\ l \in Nat /\ d = l - h /\ h <= o /\ o \in Nat /\ taken \in Nat /\ k = o + taken
        BY ONLY <1>4, <1>5, <1>8, <1>10
      <4> QED
        BY ONLY <1>19, <4>1
    <3> QED
      BY <1>4, <3>1 DEF WebFrame
  <2>5. WebAt(t, b, begun, k)
    BY <1>4, <1>15, <1>19, <2>4 DEF WebAt
  <2>6. o + Len(buffer) = k /\ k <= Len(b) /\ k # Len(b)
    BY <1>4, <1>19, <2>2
  <2>7. WebMore(q, b, begun, o, buffer)
    BY <2>1, <2>3, <2>5, <2>6 DEF WebMore
  <2> QED
    BY <1>17, <2>1, <2>7 DEF WebTook
<1>20. CASE ~(k < l)
  <2>1. k = l /\ k = Len(b) /\ l <= o + n
    BY <1>4, <1>8, <1>10, <1>20
  <2>2. PICK u : u = [t EXCEPT !.content = Web!applyMask(t)]
    OBVIOUS
  <2>3. Web!applyMask(t) = content
    BY <1>15, <2>1, Unmasked
  <2>4. u = [t EXCEPT !.content = content]
    BY <2>2, <2>3
  <2>5. rest = SubSeq(buffer, Len(b) - o + 1, Len(buffer))
    <3>1. taken + 1 = Len(b) - o + 1
      <4>1. o \in Nat /\ taken \in Nat /\ k = o + taken /\ k = Len(b)
        BY <1>5, <1>8, <1>10, <2>1
      <4> QED
        BY ONLY <4>1
    <3> QED
      BY <1>16, <3>1 DEF Web!After
  <2>6. Len(b) <= o + Len(buffer)
    BY <1>4, <2>1
  <2>7. CASE last
    <3>1. s.fin
      BY <1>2, <2>7 DEF WebFrame
    <3>2. PICK v : v = [u EXCEPT !.finished = TRUE]
      OBVIOUS
    <3>3. q = [parser |-> v, rest |-> rest, threw |-> FALSE]
      BY ONLY <1>2, <1>4, <1>6, <1>7, <1>9, <1>11, <1>16, <1>17, <1>18, <1>20, <2>2, <3>1, <3>2 DEF Web!processContent
    <3>4. v \in WebParser /\ v.finished /\ v.content = content /\ v.close = close
      BY <1>1, <1>15, <2>4, <3>2 DEF WebBehind, WebParser
    <3>5. WebDone(q, b, content, last, close, o, buffer)
      BY <2>5, <2>6, <2>7, <3>3, <3>4 DEF WebDone
    <3> QED
      BY <1>17, <3>3, <3>5 DEF WebTook
  <2>8. CASE ~last
    <3>1. ~s.fin
      BY <1>2, <2>8 DEF WebFrame
    <3>2. PICK v : v = [u EXCEPT !.parsed = FALSE, !.oldContentSize = Len(t.content)]
      OBVIOUS
    <3>3. q = [parser |-> v, rest |-> rest, threw |-> FALSE]
      BY ONLY <1>2, <1>4, <1>6, <1>7, <1>9, <1>11, <1>16, <1>17, <1>18, <1>20, <2>2, <3>1, <3>2 DEF Web!processContent
    <3>4. ~close /\ ~HasMask(b)
      BY <2>8 DEF WebFrame
    <3>5. KeyOf(b) = <<>>
      BY <3>4 DEF KeyOf
    <3>6. t.content = content
      BY <1>4, <1>15, <2>1, <2>3, <3>4 DEF Web!applyMask, WebBehind
    <3>7. Len(content) \in Int
      BY <1>1
    <3>8. v \in WebParser
      BY <1>1, <1>15, <2>4, <3>2, <3>6, <3>7 DEF WebBehind, WebParser
    <3>9. ~v.finished /\ ~v.parsed /\ ~v.close /\ v.rawHeader = <<>> /\ v.maskingKey = <<>>
      BY <1>15, <2>4, <3>2, <3>4, <3>5 DEF WebBehind, WebParser
    <3>10. v.content = content /\ v.oldContentSize = Len(content)
      BY <1>15, <2>4, <3>2, <3>6 DEF WebBehind, WebParser
    <3>11. WebStart(v, content)
      BY <3>8, <3>9, <3>10 DEF WebStart
    <3>12. WebDone(q, b, content, last, close, o, buffer)
      BY <2>5, <2>6, <2>8, <3>3, <3>11 DEF WebDone
    <3> QED
      BY <1>17, <3>3, <3>12 DEF WebTook
  <2> QED
    BY <2>7, <2>8
<1> QED
  BY <1>19, <1>20

LEMMA WebMoreHeader ==
  ASSUME NEW b, NEW begun, NEW o, NEW s, WebBefore(s, b, begun, o), b \in Seq(Octet), Len(b) \in Nat,
         NEW buffer, Follows(buffer, b, o), NEW k, k = o + Len(buffer), k <= Len(b), k <= 2 \/ k < HeaderLength(b),
         NEW t \in WebParser, ~t.finished, ~t.parsed, ~t.close, t.rawHeader = s.rawHeader \o buffer,
         t.content = s.content, t.oldContentSize = s.oldContentSize, t.maskingKey = s.maskingKey
  PROVE  WebBefore(t, b, begun, k)
<1>1. o \in Nat /\ buffer \in Seq(Octet) /\ Len(buffer) \in Nat /\ k \in Nat /\ s.rawHeader = SubSeq(b, 1, o)
  BY DEF WebBefore, Follows
<1>2. SubSeq(buffer, 1, Len(buffer)) = buffer
  BY <1>1
<1>3. SubSeq(b, 1, o) \o SubSeq(buffer, 1, Len(buffer)) = SubSeq(b, 1, o + Len(buffer))
  <2>1. PICK n \in Nat : n = Len(buffer)
    BY <1>1
  <2>2. n <= Len(buffer) /\ o + n <= Len(b)
    BY <1>1, <2>1
  <2>3. SubSeq(b, 1, o) \o SubSeq(buffer, 1, n) = SubSeq(b, 1, o + n)
    <3>1. b \in Seq(Octet) /\ o \in Nat /\ Follows(buffer, b, o) /\ n \in Nat /\ n <= Len(buffer) /\ o + n <= Len(b)
      BY <1>1, <2>2
    <3> QED
      BY ONLY <3>1, Grows
  <2> QED
    BY <2>1, <2>3
<1>4. t.rawHeader = SubSeq(b, 1, k)
  BY <1>1, <1>2, <1>3
<1> QED
  BY <1>1, <1>4 DEF WebBefore

HeadOf(s, first, size, lengthBytes, masked) ==
  [s EXCEPT !.fin = first >= 128, !.reserved = (first \div 16) % 8 # 0, !.opcode = first % 16,
            !.hasMask = masked, !.length = IF lengthBytes = 0 THEN size ELSE @]
SizedAs(buffer, t, missing, raw, headerSize, lengthBytes, masked) ==
  IF Len(buffer) < missing
  THEN [parser |-> [t EXCEPT !.rawHeader = @ \o buffer], rest |-> <<>>]
  ELSE [parser |-> [t EXCEPT !.length = CASE lengthBytes = 2 -> Web!Value2(SubSeq(raw, 3, 4))
                                          [] lengthBytes = 8 -> Web!Value8(SubSeq(raw, 3, 10))
                                          [] OTHER -> @,
                             !.maskingKey = IF masked THEN @ \o SubSeq(raw, headerSize - 3, headerSize) ELSE @,
                             !.parsed = TRUE, !.rawHeader = <<>>],
        rest |-> Web!After(buffer, missing)]

\* The header is taken as soon as it is there.
LEMMA SizedStep ==
  ASSUME NEW b, NEW begun, NEW content, NEW last, NEW close, WebFrame(b, begun, content, last, close),
         NEW o, NEW s, WebBefore(s, b, begun, o), 2 <= o, NEW buffer, Follows(buffer, b, o), NEW q, q = Web!Sized(s, buffer)
  PROVE  IF o + Len(buffer) < HeaderLength(b)
         THEN ~q.parser.parsed /\ WebBefore(q.parser, b, begun, o + Len(buffer)) /\ q.rest = <<>>
         ELSE /\ WebBehind(q.parser, b, begun, HeaderLength(b)) /\ ~q.parser.close
              /\ q.rest = SubSeq(buffer, HeaderLength(b) - o + 1, Len(buffer))
<1>1. /\ b \in Seq(Octet) /\ 2 <= Len(b) /\ Len(b) \in Nat /\ HeaderLength(b) \in Nat /\ 2 <= HeaderLength(b)
      /\ HeaderLength(b) <= Len(b) /\ begun \in Seq(Octet)
  BY WebFacts
<1>2. /\ s \in WebParser /\ ~s.finished /\ ~s.parsed /\ ~s.close /\ o \in Nat /\ o <= Len(b) /\ o <= HeaderLength(b)
      /\ s.rawHeader = SubSeq(b, 1, o) /\ s.content = begun /\ s.oldContentSize = Len(begun) /\ s.maskingKey = <<>>
  BY <1>1 DEF WebBefore
<1>3. buffer \in Seq(Octet) /\ Len(buffer) \in Nat
  BY DEF Follows
<1>4. s.rawHeader[1] = b[1] /\ s.rawHeader[2] = b[2] /\ Len(s.rawHeader) = o
  <2>1. \A j \in 1..o : SubSeq(b, 1, o)[j] = b[j]
    BY <1>1, <1>2, TakenSplit
  <2>2. 1 \in 1..o /\ 2 \in 1..o
    BY <1>2
  <2>3. Len(SubSeq(b, 1, o)) = o
    BY <1>1, <1>2, TakenSplit
  <2> QED
    BY <1>2, <2>1, <2>2, <2>3
<1>5. PICK h, missing, n : /\ h = HeaderLength(b) /\ missing = h - o /\ n = Len(buffer)
                           /\ h \in Nat /\ missing \in Nat /\ n \in Nat /\ o + missing = h /\ h <= Len(b) /\ 2 <= h
  <2>1. PICK h \in Nat : h = HeaderLength(b)
    BY <1>1
  <2>2. h - o \in Nat /\ o + (h - o) = h
    BY <1>2, <2>1
  <2> QED
    BY <1>1, <1>3, <2>1, <2>2
<1>6. PICK size, lengthBytes, masked :
        /\ size = b[2] % 128 /\ lengthBytes = LengthBytes(b) /\ masked = HasMask(b)
        /\ lengthBytes = (CASE size = 126 -> 2 [] size = 127 -> 8 [] OTHER -> 0)
        /\ h = 2 + lengthBytes + (IF masked THEN 4 ELSE 0)
  BY <1>5 DEF LengthBytes, HeaderLength
<1>7. PICK raw : raw = s.rawHeader \o SubSeq(buffer, 1, missing)
  OBVIOUS
<1>8. PICK t : t = [s EXCEPT !.fin = b[1] >= 128, !.reserved = (b[1] \div 16) % 8 # 0, !.opcode = b[1] % 16,
                             !.hasMask = masked, !.length = IF lengthBytes = 0 THEN size ELSE @]
  OBVIOUS
<1>9. size \in Int /\ b[1] % 16 \in Int /\ (b[1] >= 128) \in BOOLEAN /\ ((b[1] \div 16) % 8 # 0) \in BOOLEAN /\ masked \in BOOLEAN
  <2>1. b[1] \in Int /\ b[2] \in Int
    BY <1>1, WebSizes, OctetIs
  <2> QED
    BY <1>6, <2>1 DEF HasMask
<1>10. PICK length : length = (IF lengthBytes = 0 THEN size ELSE s.length) /\ length \in Int
  <2>1. s.length \in Int
    BY <1>2 DEF WebParser
  <2> QED
    BY <1>9, <2>1
<1>11. t = [s EXCEPT !.fin = b[1] >= 128, !.reserved = (b[1] \div 16) % 8 # 0, !.opcode = b[1] % 16,
                     !.hasMask = masked, !.length = length]
  BY <1>8, <1>10
<1>12. /\ t \in WebParser /\ ~t.finished /\ ~t.parsed /\ ~t.close
       /\ t.rawHeader = s.rawHeader /\ t.content = begun /\ t.oldContentSize = Len(begun) /\ t.maskingKey = <<>>
       /\ (t.fin <=> b[1] >= 128) /\ ~t.reserved /\ t.opcode = b[1] % 16 /\ (t.hasMask <=> HasMask(b)) /\ t.length = length
  <2>1. t \in WebParser
    <3>1. PICK f, e, c : f = (b[1] >= 128) /\ e = ((b[1] \div 16) % 8 # 0) /\ c = b[1] % 16
      OBVIOUS
    <3>2. f \in BOOLEAN /\ e \in BOOLEAN /\ c \in Int /\ masked \in BOOLEAN /\ length \in Int
      BY <1>9, <1>10, <3>1
    <3>3. t = [s EXCEPT !.fin = f, !.reserved = e, !.opcode = c, !.hasMask = masked, !.length = length]
      BY <1>11, <3>1
    <3>4. s \in WebParser
      BY <1>2
    <3> QED
      BY ONLY <3>2, <3>3, <3>4, ZenonT(60) DEF WebParser
  <2>2. /\ ~t.finished /\ ~t.parsed /\ ~t.close
        /\ t.rawHeader = s.rawHeader /\ t.content = begun /\ t.oldContentSize = Len(begun) /\ t.maskingKey = <<>>
    BY <1>2, <1>11 DEF WebParser
  <2>3. (t.fin <=> b[1] >= 128) /\ t.opcode = b[1] % 16 /\ (t.hasMask <=> HasMask(b)) /\ t.length = length
    BY <1>2, <1>6, <1>11 DEF WebParser
  <2>4. t.reserved = ((b[1] \div 16) % 8 # 0)
    BY <1>2, <1>11 DEF WebParser
  <2>5. ~t.reserved
    BY <2>4 DEF WebFrame
  <2> QED
    BY <2>1, <2>2, <2>3, <2>5
<1>13. o + n < h <=> n < missing
  BY <1>2, <1>5
<1>14. q = SizedAs(buffer, HeadOf(s, b[1], b[2] % 128, lengthBytes, masked), missing, raw, h, lengthBytes, masked)
  <2> DEFINE first == s.rawHeader[1]
             second == s.rawHeader[2]
             code == second % 128
             bytes == CASE code = 126 -> 2 [] code = 127 -> 8 [] OTHER -> 0
             mask == second >= 128
             head == 2 + bytes + (IF mask THEN 4 ELSE 0)
             lacks == head - Len(s.rawHeader)
             all == s.rawHeader \o SubSeq(buffer, 1, lacks)
  <2>1. q = SizedAs(buffer, HeadOf(s, first, code, bytes, mask), lacks, all, head, bytes, mask)
    BY DEF Web!Sized, SizedAs, HeadOf
  <2>2. first = b[1] /\ code = b[2] % 128
    BY <1>4
  <2>3. bytes = lengthBytes
    BY <1>4, <1>6
  <2>4. mask = masked
    BY <1>4, <1>6 DEF HasMask
  <2> HIDE DEF first, code, bytes, mask
  <2>5. head = h
    BY <1>6, <2>3, <2>4
  <2> HIDE DEF head
  <2>6. lacks = missing
    BY <1>4, <1>5, <2>5
  <2> HIDE DEF lacks
  <2>7. all = raw
    BY <1>7, <2>6
  <2> HIDE DEF all
  <2> QED
    BY ONLY <2>1, <2>2, <2>3, <2>4, <2>5, <2>6, <2>7
<1>17. q = SizedAs(buffer, t, missing, raw, h, lengthBytes, masked)
  BY <1>6, <1>8, <1>14 DEF HeadOf
<1>15. CASE n < missing
  <2>1. PICK u : u = [t EXCEPT !.rawHeader = @ \o buffer]
    OBVIOUS
  <2>2. q = [parser |-> u, rest |-> <<>>]
    BY <1>5, <1>15, <1>17, <2>1 DEF SizedAs
  <2>3. t.rawHeader \o buffer \in Seq(Octet)
    BY <1>1, <1>2, <1>3, <1>12
  <2>4. /\ u \in WebParser /\ ~u.finished /\ ~u.parsed /\ ~u.close /\ u.rawHeader = s.rawHeader \o buffer
        /\ u.content = s.content /\ u.oldContentSize = s.oldContentSize /\ u.maskingKey = s.maskingKey
    BY <1>2, <1>12, <2>1, <2>3 DEF WebParser
  <2>5. PICK k : k = o + Len(buffer) /\ k \in Nat /\ k < HeaderLength(b) /\ k <= Len(b)
    BY <1>1, <1>2, <1>3, <1>5, <1>13, <1>15
  <2>6. WebBefore(u, b, begun, k)
    BY <1>1, <2>4, <2>5, WebMoreHeader
  <2> QED
    BY <2>2, <2>4, <2>5, <2>6
<1>16. CASE ~(n < missing)
  <2>1. raw = SubSeq(b, 1, h)
    <3>1. b \in Seq(Octet) /\ o \in Nat /\ missing \in Nat /\ missing <= Len(buffer) /\ o + missing <= Len(b)
      BY <1>1, <1>2, <1>5, <1>16
    <3>2. SubSeq(b, 1, o) \o SubSeq(buffer, 1, missing) = SubSeq(b, 1, o + missing)
      BY <3>1, Grows
    <3> QED
      BY <1>2, <1>5, <1>7, <3>2
  <2>2. lengthBytes \in {0, 2, 8} /\ (masked => 6 <= h) /\ 2 + lengthBytes <= h
    BY <1>1, <1>6, <1>9, WebSizes
  <2>3. PICK declared : declared = CASE lengthBytes = 2 -> Web!Value2(SubSeq(raw, 3, 4))
                                     [] lengthBytes = 8 -> Web!Value8(SubSeq(raw, 3, 10))
                                     [] OTHER -> t.length
    OBVIOUS
  <2>4. declared = Declared(b)
    <3>1. CASE lengthBytes = 2
      <4>1. SubSeq(raw, 3, 4) = SubSeq(b, 3, 4)
        <5>1. 4 <= h /\ h <= Len(b)
          BY <1>5, <2>2, <3>1
        <5> QED
          BY <1>1, <1>5, <2>1, <5>1, SamePart, SMTT(30)
      <4> QED
        <5>1. declared = Web!Value2(SubSeq(raw, 3, 4))
          BY <2>3, <3>1
        <5>2. Declared(b) = Web!Value2(SubSeq(b, 3, 4))
          BY <1>6, <3>1 DEF Declared
        <5> QED
          BY <4>1, <5>1, <5>2
    <3>2. CASE lengthBytes = 8
      <4>1. SubSeq(raw, 3, 10) = SubSeq(b, 3, 10)
        <5>1. 10 <= h /\ h <= Len(b)
          BY <1>5, <2>2, <3>2
        <5> QED
          BY <1>1, <1>5, <2>1, <5>1, SamePart, SMTT(30)
      <4> QED
        <5>1. declared = Web!Value8(SubSeq(raw, 3, 10))
          BY <2>3, <3>2
        <5>2. Declared(b) = Web!Value8(SubSeq(b, 3, 10))
          BY <1>6, <3>2 DEF Declared
        <5> QED
          BY <4>1, <5>1, <5>2
    <3>3. CASE lengthBytes = 0
      BY <1>6, <1>10, <1>12, <2>3, <3>3 DEF Declared
    <3> QED
      BY <2>2, <3>1, <3>2, <3>3
  <2>5. PICK key : key = IF masked THEN t.maskingKey \o SubSeq(raw, h - 3, h) ELSE t.maskingKey
    OBVIOUS
  <2>6. key = KeyOf(b) /\ key \in Seq(Octet)
    <3>1. CASE masked
      <4>1. h - 3 \in Nat /\ 0 < h - 3 /\ h - 3 <= h + 1 /\ h <= h /\ h <= Len(b)
        BY <1>5, <2>2, <3>1
      <4>2. SubSeq(raw, h - 3, h) = SubSeq(b, h - 3, h)
        <5>1. b \in Seq(Octet) /\ h \in Nat /\ h - 3 \in Nat
          BY <1>1, <1>5, <4>1
        <5> QED
          BY ONLY <2>1, <4>1, <5>1, SamePart
      <4>3. SubSeq(b, h - 3, h) \in Seq(Octet)
        <5>1. b \in Seq(Octet) /\ h \in Nat /\ h - 3 \in Nat
          BY <1>1, <1>5, <4>1
        <5> QED
          BY ONLY <4>1, <5>1, PartIs
      <4>4. key = SubSeq(b, h - 3, h)
        BY <1>12, <2>5, <3>1, <4>2, <4>3
      <4> QED
        BY <1>5, <1>6, <3>1, <4>3, <4>4 DEF KeyOf
    <3>2. CASE ~masked
      <4>1. key = <<>>
        BY <1>12, <2>5, <3>2
      <4> QED
        BY <1>6, <3>2, <4>1 DEF KeyOf
    <3> QED
      BY <3>1, <3>2
  <2>7. PICK u : u = [t EXCEPT !.length = declared, !.maskingKey = key, !.parsed = TRUE, !.rawHeader = <<>>]
    OBVIOUS
  <2>8. q = [parser |-> u, rest |-> Web!After(buffer, missing)]
    <3>1. PICK v : v = [t EXCEPT !.length = CASE lengthBytes = 2 -> Web!Value2(SubSeq(raw, 3, 4))
                                              [] lengthBytes = 8 -> Web!Value8(SubSeq(raw, 3, 10))
                                              [] OTHER -> @,
                                 !.maskingKey = IF masked THEN @ \o SubSeq(raw, h - 3, h) ELSE @,
                                 !.parsed = TRUE, !.rawHeader = <<>>]
      OBVIOUS
    <3>2. v = u
      BY <2>3, <2>5, <2>7, <3>1
    <3>3. q = [parser |-> v, rest |-> Web!After(buffer, missing)]
      BY <1>5, <1>16, <1>17, <3>1 DEF SizedAs
    <3> QED
      BY <3>2, <3>3
  <2>9. Declared(b) \in Int /\ SubSeq(b, h + 1, h) = <<>> /\ begun \o <<>> = begun
    <3>1. Declared(b) \in Int
      BY WebFacts
    <3> QED
      BY <1>1, <1>5, <3>1
  <2>10. u \in WebParser /\ ~u.finished /\ u.parsed /\ ~u.close
    BY <1>12, <2>4, <2>6, <2>7, <2>9 DEF WebParser
  <2>11. /\ u.content = begun /\ u.oldContentSize = Len(begun) /\ u.maskingKey = KeyOf(b) /\ u.rawHeader = <<>> /\ u.length = Declared(b)
    BY <1>12, <2>4, <2>6, <2>7 DEF WebParser
  <2>12. (u.fin <=> b[1] >= 128) /\ ~u.reserved /\ u.opcode = b[1] % 16 /\ (u.hasMask <=> HasMask(b))
    BY <1>12, <2>7 DEF WebParser
  <2>13. u.content = begun \o Raw(b, h)
    BY <1>5, <2>9, <2>11 DEF Raw
  <2>14. h \in 0..Len(b) /\ HeaderLength(b) <= h
    BY <1>5
  <2>15. WebBehind(u, b, begun, h)
    BY <2>10, <2>11, <2>12, <2>13, <2>14 DEF WebBehind
  <2>16. Web!After(buffer, missing) = SubSeq(buffer, HeaderLength(b) - o + 1, Len(buffer))
    BY <1>5 DEF Web!After
  <2> QED
    BY <1>5, <1>13, <1>16, <2>8, <2>10, <2>15, <2>16
<1> QED
  BY <1>15, <1>16

\* What process() does once the header is there: a frame without content is a close.
LEMMA HeadedStep ==
  ASSUME NEW b, NEW begun, NEW content, NEW last, NEW close, WebFrame(b, begun, content, last, close), last \in BOOLEAN, close \in BOOLEAN,
         NEW o, NEW s, WebBehind(s, b, begun, o), ~s.close, NEW buffer, Follows(buffer, b, o), Len(buffer) <= MaxPiece
  PROVE  WebTook(Web!Headed(s, buffer), b, begun, content, last, close, o, buffer)
<1>1. s \in WebParser /\ s.length = Declared(b) /\ ~s.reserved /\ s.opcode = b[1] % 16
  BY DEF WebBehind
<1>2. s.opcode \in Web!Known /\ (close <=> s.length = 0) /\ (close => s.opcode = Web!Opcode.close)
  BY <1>1 DEF WebFrame
<1>3. PICK t : t = [s EXCEPT !.close = @ \/ (s.length = 0 \/ s.reserved \/ s.opcode \notin Web!Known)]
  OBVIOUS
<1>4. Web!Headed(s, buffer) = Web!processContent(t, buffer)
  BY <1>1, <1>2, <1>3 DEF Web!Headed
<1>5. t = [s EXCEPT !.close = close]
  <2>1. (s.close \/ (s.length = 0 \/ s.reserved \/ s.opcode \notin Web!Known)) = close
    BY <1>1, <1>2 DEF WebParser
  <2> QED
    BY <1>3, <2>1
<1>6. WebBehind(t, b, begun, o) /\ t.close = close
  BY <1>1, <1>5 DEF WebBehind, WebParser
<1> QED
  BY <1>4, <1>6, WebContentStep

\* Taking the rest of a piece later is taking all of it.
LEMMA WebTookLater ==
  ASSUME NEW b \in Seq(Octet), NEW begun, NEW content, NEW last, NEW close, NEW o \in Nat, NEW buffer \in Seq(Octet),
         NEW m \in Nat, m <= Len(buffer), o + m <= Len(b), NEW r, r = SubSeq(buffer, m + 1, Len(buffer)), NEW k, k = o + m,
         NEW q, WebTook(q, b, begun, content, last, close, k, r)
  PROVE  WebTook(q, b, begun, content, last, close, o, buffer)
<1>1. r \in Seq(Octet) /\ Len(r) = Len(buffer) - m
  BY TakenSplit
<1>2. k \in Nat /\ k + Len(r) = o + Len(buffer)
  <2>1. PICK n \in Nat : n = Len(buffer)
    OBVIOUS
  <2>2. Len(r) = n - m /\ m <= n
    BY <1>1, <2>1
  <2>3. k = o + m /\ o \in Nat /\ m \in Nat
    OBVIOUS
  <2> QED
    BY ONLY <2>1, <2>2, <2>3
<1>3. CASE WebMore(q, b, begun, k, r)
  <2>1. WebMore(q, b, begun, o, buffer)
    BY <1>2, <1>3 DEF WebMore
  <2> QED
    BY <2>1 DEF WebTook
<1>4. CASE WebDone(q, b, content, last, close, k, r)
  <2>1. PICK l \in Nat : l = Len(b)
    OBVIOUS
  <2>2. PICK n \in Nat : n = l - k
    <3>1. l - k \in Nat
      BY <1>2, <2>1
    <3> QED
      BY <3>1
  <2>3. l <= k + Len(r)
    BY <1>4, <2>1 DEF WebDone
  <2>4. m + n <= Len(buffer)
    <3>1. PICK u \in Nat : u = Len(buffer)
      OBVIOUS
    <3>2. l <= o + u
      BY <1>2, <2>3, <3>1
    <3> QED
      BY <2>1, <2>2, <3>1, <3>2
  <2>5. SubSeq(r, n + 1, Len(r)) = SubSeq(buffer, m + n + 1, Len(buffer))
    BY <2>4, RestOfRest
  <2>6. m + n + 1 = Len(b) - o + 1 /\ Len(b) - k + 1 = n + 1
    BY <1>2, <2>1, <2>2
  <2>7. q.rest = SubSeq(buffer, Len(b) - o + 1, Len(buffer))
    <3>1. q.rest = SubSeq(r, Len(b) - k + 1, Len(r))
      BY <1>4 DEF WebDone
    <3> QED
      BY <2>5, <2>6, <3>1
  <2>8. WebDone(q, b, content, last, close, o, buffer)
    BY <1>2, <1>4, <2>7 DEF WebDone
  <2> QED
    BY <2>8 DEF WebTook
<1> QED
  BY <1>3, <1>4 DEF WebTook

\* The header, or what there is of it.
HeadTook(q, b, begun, o, buffer) ==
  \/ /\ ~q.parser.parsed /\ o + Len(buffer) <= Len(b) /\ (o + Len(buffer) = Len(b) => Len(b) = 2)
     /\ WebBefore(q.parser, b, begun, o + Len(buffer)) /\ q.rest = <<>>
  \/ /\ o <= HeaderLength(b) /\ HeaderLength(b) <= o + Len(buffer)
     /\ WebBehind(q.parser, b, begun, HeaderLength(b)) /\ ~q.parser.close
     /\ q.rest = SubSeq(buffer, HeaderLength(b) - o + 1, Len(buffer))

\* processHeader() ends behind the header or has taken all of the piece.
LEMMA HeadStep ==
  ASSUME NEW b, NEW begun, NEW content, NEW last, NEW close, WebFrame(b, begun, content, last, close),
         NEW o, NEW s, WebBefore(s, b, begun, o), NEW buffer, Follows(buffer, b, o)
  PROVE  HeadTook(Web!processHeader(s, buffer), b, begun, o, buffer)
<1>1. /\ b \in Seq(Octet) /\ 2 <= Len(b) /\ Len(b) \in Nat /\ HeaderLength(b) \in Nat /\ 2 <= HeaderLength(b)
      /\ HeaderLength(b) <= Len(b) /\ begun \in Seq(Octet)
  BY WebFacts
<1>2. /\ s \in WebParser /\ ~s.finished /\ ~s.parsed /\ ~s.close /\ o \in Nat /\ o <= Len(b) /\ (o <= 2 \/ o < HeaderLength(b))
      /\ s.rawHeader = SubSeq(b, 1, o) /\ s.content = begun /\ s.oldContentSize = Len(begun) /\ s.maskingKey = <<>>
  BY <1>1 DEF WebBefore
<1>3. buffer \in Seq(Octet) /\ Len(buffer) \in Nat
  BY DEF Follows
<1>4. Len(s.rawHeader) = o
  BY <1>1, <1>2, TakenSplit
<1>5. PICK n, l, h : /\ n = Len(buffer) /\ l = Len(b) /\ h = HeaderLength(b)
                     /\ n \in Nat /\ l \in Nat /\ h \in Nat /\ 2 <= h /\ h <= l
  BY <1>1, <1>3
<1>6. PICK missing : missing = (IF o < 2 THEN 2 - o ELSE 0) /\ missing \in Nat
  BY <1>2
<1>7. PICK q : q = Web!processHeader(s, buffer)
  OBVIOUS
<1>8. CASE n <= missing
  <2>1. PICK t : t = [s EXCEPT !.rawHeader = s.rawHeader \o buffer]
    OBVIOUS
  <2>2. q = [parser |-> t, rest |-> <<>>]
    BY <1>4, <1>5, <1>6, <1>7, <1>8, <2>1 DEF Web!processHeader
  <2>3. s.rawHeader \o buffer \in Seq(Octet)
    BY <1>1, <1>2, <1>3, TakenSplit
  <2>4. /\ t \in WebParser /\ ~t.finished /\ ~t.parsed /\ ~t.close /\ t.rawHeader = s.rawHeader \o buffer
        /\ t.content = s.content /\ t.oldContentSize = s.oldContentSize /\ t.maskingKey = s.maskingKey
    BY <1>2, <2>1, <2>3 DEF WebParser
  <2>5. PICK k : k = o + n
    OBVIOUS
  <2>6. k <= l /\ (k <= 2 \/ k < h) /\ (k = l => l = 2)
    BY <1>2, <1>5, <1>6, <1>8, <2>5
  <2>7. WebBefore(t, b, begun, k)
    BY <1>1, <1>5, <2>4, <2>5, <2>6, WebMoreHeader
  <2>8. HeadTook(q, b, begun, o, buffer)
    BY <1>5, <2>2, <2>4, <2>5, <2>6, <2>7 DEF HeadTook
  <2> QED
    BY <1>7, <2>8
<1>9. CASE ~(n <= missing)
  <2>1. PICK t, r, k : t = [s EXCEPT !.rawHeader = s.rawHeader \o SubSeq(buffer, 1, missing)] /\ r = Web!After(buffer, missing) /\ k = o + missing
    OBVIOUS
  <2>2. q = Web!Sized(t, r)
    BY <1>4, <1>5, <1>6, <1>7, <1>9, <2>1 DEF Web!processHeader
  <2>3. missing <= Len(buffer) /\ k \in Nat /\ 2 <= k /\ k <= Len(b) /\ (k <= 2 \/ k < HeaderLength(b)) /\ k <= h
    BY <1>2, <1>5, <1>6, <1>9, <2>1
  <2>4. s.rawHeader \o SubSeq(buffer, 1, missing) = SubSeq(b, 1, k)
    <3>1. b \in Seq(Octet) /\ o \in Nat /\ missing \in Nat /\ missing <= Len(buffer) /\ o + missing <= Len(b) /\ Follows(buffer, b, o)
      BY <1>1, <1>2, <1>6, <2>1, <2>3
    <3>2. SubSeq(b, 1, o) \o SubSeq(buffer, 1, missing) = SubSeq(b, 1, o + missing)
      BY ONLY <3>1, Grows
    <3> QED
      BY <1>2, <2>1, <3>2
  <2>5. SubSeq(b, 1, k) \in Seq(Octet)
    BY <1>1, <2>3, TakenSplit
  <2>6. t = [s EXCEPT !.rawHeader = SubSeq(b, 1, k)]
    BY <2>1, <2>4
  <2>7. /\ t \in WebParser /\ ~t.finished /\ ~t.parsed /\ ~t.close /\ t.rawHeader = SubSeq(b, 1, k)
        /\ t.content = s.content /\ t.oldContentSize = s.oldContentSize /\ t.maskingKey = s.maskingKey
    BY <1>2, <2>5, <2>6 DEF WebParser
  <2>8. k \in 0..Len(b)
    BY <1>1, <2>3
  <2>9. WebBefore(t, b, begun, k)
    BY <1>2, <2>3, <2>7, <2>8 DEF WebBefore
  <2>10. Follows(r, b, k)
    <3>1. b \in Seq(Octet) /\ o \in Nat /\ missing \in Nat /\ missing <= Len(buffer) /\ Follows(buffer, b, o)
      BY <1>1, <1>2, <1>6, <2>3
    <3>2. Follows(SubSeq(buffer, missing + 1, Len(buffer)), b, o + missing)
      BY ONLY <3>1, FollowsAfter
    <3> QED
      BY <2>1, <3>2 DEF Web!After
  <2>11. IF k + Len(r) < HeaderLength(b)
         THEN ~q.parser.parsed /\ WebBefore(q.parser, b, begun, k + Len(r)) /\ q.rest = <<>>
         ELSE /\ WebBehind(q.parser, b, begun, HeaderLength(b)) /\ ~q.parser.close
              /\ q.rest = SubSeq(r, HeaderLength(b) - k + 1, Len(r))
    BY <2>2, <2>3, <2>9, <2>10, SizedStep
  <2>12. r \in Seq(Octet) /\ Len(r) = n - missing /\ k + Len(r) = o + n
    <3>1. r = SubSeq(buffer, missing + 1, Len(buffer))
      BY <2>1 DEF Web!After
    <3>2. r \in Seq(Octet) /\ Len(r) = Len(buffer) - missing
      BY <1>3, <1>6, <2>3, <3>1, TakenSplit
    <3> QED
      <4>1. o \in Nat /\ n \in Nat /\ missing \in Nat
        BY <1>2, <1>5, <1>6
      <4>2. Len(r) = n - missing
        BY ONLY <1>5, <3>2
      <4>3. k = o + missing
        BY ONLY <2>1
      <4> QED
        BY ONLY <3>2, <4>1, <4>2, <4>3
  <2>13. CASE o + n < h
    <3>1. ~q.parser.parsed /\ WebBefore(q.parser, b, begun, o + n) /\ q.rest = <<>>
      BY <1>5, <2>11, <2>12, <2>13
    <3>2. o + n <= l /\ o + n # l
      BY <1>2, <1>5, <2>13
    <3>3. HeadTook(q, b, begun, o, buffer)
      BY <1>5, <3>1, <3>2 DEF HeadTook
    <3> QED
      BY <1>7, <3>3
  <2>14. CASE ~(o + n < h)
    <3>1. WebBehind(q.parser, b, begun, h) /\ ~q.parser.close /\ q.rest = SubSeq(r, h - k + 1, Len(r))
      BY <1>5, <2>11, <2>12, <2>14
    <3>2. PICK d \in Nat : d = h - k
      <4>1. h - k \in Nat
        BY <1>5, <2>3
      <4> QED
        BY <4>1
    <3>3. missing + d <= n /\ missing + d + 1 = h - o + 1
      <4>1. o \in Nat /\ n \in Nat /\ h \in Nat /\ missing \in Nat /\ k = o + missing /\ ~(o + n < h) /\ k <= h
        BY <1>2, <1>5, <1>6, <2>1, <2>3, <2>14
      <4> QED
        BY ONLY <3>2, <4>1
    <3>4. SubSeq(r, d + 1, Len(r)) = SubSeq(buffer, missing + d + 1, Len(buffer))
      <4>1. r = SubSeq(buffer, missing + 1, Len(buffer)) /\ missing <= Len(buffer) /\ missing + d <= Len(buffer)
        BY <1>5, <2>1, <2>3, <3>3 DEF Web!After
      <4> QED
        <5>1. buffer \in Seq(Octet) /\ missing \in Nat /\ d \in Nat
          BY <1>3, <1>6
        <5> QED
          BY ONLY <4>1, <5>1, RestOfRest
    <3>5. q.rest = SubSeq(buffer, h - o + 1, Len(buffer))
      BY <3>1, <3>2, <3>3, <3>4
    <3>6. o <= h /\ h <= o + n
      BY <1>2, <1>5, <1>6, <2>1, <2>3, <2>14
    <3>7. HeadTook(q, b, begun, o, buffer)
      BY <1>5, <3>1, <3>5, <3>6 DEF HeadTook
    <3> QED
      BY <1>7, <3>7
  <2> QED
    BY <2>13, <2>14
<1> QED
  BY <1>8, <1>9

\* process() with a piece of a frame or more.
LEMMA WebStep ==
  ASSUME NEW b, NEW begun, NEW content, NEW last, NEW close, WebFrame(b, begun, content, last, close), last \in BOOLEAN, close \in BOOLEAN,
         NEW o, NEW s, WebAt(s, b, begun, o), NEW buffer, Follows(buffer, b, o), Len(buffer) <= MaxPiece
  PROVE  WebTook(Web!process(s, buffer), b, begun, content, last, close, o, buffer)
<1>1. ~s.finished
  BY DEF WebAt, WebBefore, WebBehind
<1>2. PICK q : q = Web!process(s, buffer)
  OBVIOUS
<1>3. CASE WebBehind(s, b, begun, o) /\ ~s.close
  <2>1. s.parsed
    BY <1>3 DEF WebBehind
  <2>2. Web!process(s, buffer) = Web!Headed(s, buffer)
    BY <1>1, <2>1 DEF Web!process
  <2> QED
    BY <1>3, <2>2, HeadedStep
<1>4. CASE WebBefore(s, b, begun, o)
  <2>1. ~s.parsed
    BY <1>4 DEF WebBefore
  <2>2. PICK p : p = Web!processHeader(s, buffer)
    OBVIOUS
  <2>3. HeadTook(p, b, begun, o, buffer)
    BY <1>4, <2>2, HeadStep
  <2>4. CASE ~p.parser.parsed
    <3>1. q = [parser |-> p.parser, rest |-> p.rest, threw |-> FALSE]
      BY <1>1, <1>2, <2>1, <2>2, <2>4 DEF Web!process
    <3>2. /\ o + Len(buffer) <= Len(b) /\ (o + Len(buffer) = Len(b) => Len(b) = 2)
          /\ WebBefore(p.parser, b, begun, o + Len(buffer)) /\ p.rest = <<>>
      BY <2>3, <2>4 DEF HeadTook, WebBehind
    <3>3. WebMore(q, b, begun, o, buffer)
      BY <3>1, <3>2 DEF WebMore, WebAt
    <3> QED
      BY <1>2, <3>1, <3>3 DEF WebTook
  <2>5. CASE p.parser.parsed
    <3>1. q = Web!Headed(p.parser, p.rest)
      BY <1>1, <1>2, <2>1, <2>2, <2>5 DEF Web!process
    <3>2. PICK h : h = HeaderLength(b)
      OBVIOUS
    <3>3. /\ o <= h /\ h <= o + Len(buffer)
          /\ WebBehind(p.parser, b, begun, h) /\ ~p.parser.close
          /\ p.rest = SubSeq(buffer, h - o + 1, Len(buffer))
      BY <2>3, <2>5, <3>2 DEF HeadTook
    <3>4. /\ b \in Seq(Octet) /\ Len(b) \in Nat /\ h \in Nat /\ h <= Len(b) /\ o \in Nat
          /\ buffer \in Seq(Octet) /\ Len(buffer) \in Nat
      BY <1>4, <3>2, WebFacts DEF WebBefore, Follows
    <3>5. PICK m \in Nat : m = h - o /\ m <= Len(buffer) /\ o + m <= Len(b) /\ h = o + m
      <4>1. h - o \in Nat /\ h - o <= Len(buffer) /\ o + (h - o) <= Len(b) /\ h = o + (h - o)
        BY <3>3, <3>4
      <4> QED
        BY <4>1
    <3>6. PICK r : r = SubSeq(buffer, m + 1, Len(buffer)) /\ r = p.rest
      BY <3>3, <3>5
    <3>7. Follows(r, b, h)
      <4>1. Follows(SubSeq(buffer, m + 1, Len(buffer)), b, o + m)
        BY <3>4, <3>5, FollowsAfter
      <4> QED
        BY <3>5, <3>6, <4>1
    <3>8. Len(r) <= MaxPiece
      <4>1. Len(r) = Len(buffer) - m
        <5>1. buffer \in Seq(Octet) /\ m \in Nat /\ m <= Len(buffer)
          BY ONLY <3>4, <3>5
        <5> QED
          BY ONLY <3>6, <5>1, TakenSplit
      <4>2. MaxPiece \in Nat /\ m \in Nat /\ Len(buffer) \in Nat /\ Len(buffer) <= MaxPiece
        BY <3>4, FramingAssumption
      <4> QED
        BY ONLY <4>1, <4>2
    <3>9. WebTook(q, b, begun, content, last, close, h, r)
      BY <3>1, <3>3, <3>6, <3>7, <3>8, HeadedStep
    <3>10. WebTook(q, b, begun, content, last, close, o, buffer)
      BY <3>4, <3>5, <3>6, <3>9, WebTookLater
    <3> QED
      BY <1>2, <3>10
  <2> QED
    BY <2>4, <2>5
<1> QED
  BY <1>3, <1>4 DEF WebAt
-----------------------------------------------------------------------------
(* What is sent are frames.                                                *)
Small(n) == n < 2147483648
Starts(b, x, m) == b \in Seq(Octet) /\ m \in Nat /\ m <= Len(b) /\ \A j \in 1..m : b[j] = x[j]
Ends(b, y, m, n) == \A j \in 1..n : b[m + j] = y[j]
Joins(z, x, m, y, n) == z \in Seq(Octet) /\ Len(z) = m + n /\ Starts(z, x, m) /\ Ends(z, y, m, n)

\* What a joined sequence begins and ends with.
LEMMA JoinIs ==
  ASSUME NEW x \in Seq(Octet), NEW y \in Seq(Octet)
  PROVE  Joins(x \o y, x, Len(x), y, Len(y))
<1>1. x \o y \in Seq(Octet) /\ Len(x \o y) = Len(x) + Len(y) /\ Len(x) \in Nat /\ Len(x) <= Len(x \o y)
  OBVIOUS
<1>2. (\A j \in 1..Len(x) : (x \o y)[j] = x[j]) /\ \A j \in 1..Len(y) : (x \o y)[Len(x) + j] = y[j]
  OBVIOUS
<1> QED
  BY <1>1, <1>2 DEF Joins, Starts, Ends

LEMMA StartsOn ==
  ASSUME NEW b, NEW x, NEW y, NEW m, NEW k, Starts(b, y, k), Starts(y, x, m), m <= k
  PROVE  Starts(b, x, m)
<1>1. \A j \in 1..m : j \in 1..k
  BY DEF Starts
<1> QED
  BY <1>1 DEF Starts

LEMMA EndsOn ==
  ASSUME NEW b, NEW y, NEW z, NEW m \in Nat, NEW n \in Nat, NEW k, Starts(b, y, k), Ends(y, z, m, n), m + n <= k
  PROVE  Ends(b, z, m, n)
<1>1. \A j \in 1..n : m + j \in 1..k
  BY DEF Starts
<1> QED
  BY <1>1 DEF Starts, Ends

LEMMA EndsIn ==
  ASSUME NEW b, NEW y, NEW z, NEW p \in Nat, NEW k \in Nat, NEW m \in Nat, NEW n \in Nat, Ends(b, y, p, k), Ends(y, z, m, n), m + n <= k
  PROVE  Ends(b, z, p + m, n)
<1>1. ASSUME NEW j \in 1..n PROVE b[p + m + j] = z[j]
  <2>1. m + j \in 1..k /\ p + (m + j) = p + m + j
    OBVIOUS
  <2>2. b[p + (m + j)] = y[m + j] /\ y[m + j] = z[j]
    BY <2>1 DEF Ends
  <2> QED
    BY <2>1, <2>2
<1> QED
  BY <1>1 DEF Ends

\* One octet.
LEMMA Single == ASSUME NEW c \in Octet PROVE <<c>> \in Seq(Octet) /\ Len(<<c>>) = 1 /\ <<c>>[1] = c
  OBVIOUS

\* A number is where its four bytes are.
LEMMA NumberAt ==
  ASSUME NEW n \in Nat, Small(n), NEW s, s = Rpc!Size4(n), NEW d, NEW at, Ends(d, s, at, 4)
  PROVE  Rpc!Number4(d, at) = n
<1>1. d[at + 1] = s[1] /\ d[at + 2] = s[2] /\ d[at + 3] = s[3] /\ d[at + 4] = s[4]
  BY DEF Ends
<1>2. Rpc!Number4(d, at) = Rpc!Number4(s, 0)
  BY <1>1 DEF Rpc!Number4
<1>3. Rpc!Number4(Rpc!Size4(n), 0) = n
  BY SMT, SizeRead DEF Small
<1> QED
  BY <1>2, <1>3

\* The first bytes of every frame.
LEMMA BinIs == Rpc!Bin \in Seq(Octet) /\ Len(Rpc!Bin) = 3
  BY OctetIs DEF Rpc!Bin

LEMMA BinFirst ==
  ASSUME NEW b, Starts(b, Rpc!Bin, 3)
  PROVE  SubSeq(b, 1, 3) = Rpc!Bin
<1>1. PICK u : u = SubSeq(b, 1, 3)
  OBVIOUS
<1>2. b \in Seq(Octet) /\ 3 <= Len(b) /\ \A j \in 1..3 : b[j] = Rpc!Bin[j]
  BY DEF Starts
<1>3. u \in Seq(Octet) /\ Len(u) = 3 /\ \A j \in 1..3 : u[j] = b[j]
  BY <1>1, <1>2, TakenSplit
<1>4. \A j \in 1..3 : u[j] = Rpc!Bin[j]
  BY <1>2, <1>3
<1> QED
  BY <1>1, <1>3, <1>4, BinIs, SeqEqual

\* A frame without a header, and one with it.
LEMMA PlainFrame ==
  ASSUME NEW content \in Seq(Octet), content # <<>>, Small(Len(content)), Len(content) <= Rpc!MaxContentSize,
         NEW type \in {0, 1, 255}, NEW b, b = ((Rpc!Bin \o <<type>>) \o Rpc!Size4(Len(content))) \o content
  PROVE  RpcFrame(b)
<1>1. PICK n \in Nat : n = Len(content) /\ 0 < n /\ Small(n) /\ n <= Rpc!MaxContentSize
  OBVIOUS
<1>2. PICK t : t = <<type>> /\ t \in Seq(Octet) /\ 1 = Len(t) /\ t[1] = type
  <2>1. type \in Octet
    BY DEF Octet
  <2>2. <<type>> \in Seq(Octet) /\ Len(<<type>>) = 1 /\ <<type>>[1] = type
    BY <2>1, Single
  <2> QED
    BY ONLY <2>2
<1>3. PICK x, s, y : x = Rpc!Bin \o t /\ s = Rpc!Size4(n) /\ y = x \o s
  OBVIOUS
<1>4. Joins(x, Rpc!Bin, 3, t, 1)
  <2>1. Joins(Rpc!Bin \o t, Rpc!Bin, Len(Rpc!Bin), t, Len(t))
    BY <1>2, BinIs, JoinIs
  <2> QED
    BY ONLY <1>2, <1>3, BinIs, <2>1
<1>5. x \in Seq(Octet) /\ 4 = Len(x)
  BY <1>4 DEF Joins
<1>6. s \in Seq(Octet) /\ 4 = Len(s)
  BY <1>1, <1>3, SizeOctets
<1>7. Joins(y, x, 4, s, 4)
  <2>1. Joins(x \o s, x, Len(x), s, Len(s))
    BY <1>5, <1>6, JoinIs
  <2> QED
    BY ONLY <1>3, <1>5, <1>6, <2>1
<1>8. y \in Seq(Octet) /\ 8 = Len(y)
  BY <1>7 DEF Joins
<1>9. b = y \o content
  BY <1>1, <1>2, <1>3
<1>10. Joins(b, y, 8, content, n)
  <2>1. content \in Seq(Octet) /\ n = Len(content)
    BY <1>1
  <2>2. Joins(y \o content, y, Len(y), content, Len(content))
    BY <1>8, JoinIs
  <2> QED
    BY ONLY <1>8, <1>9, <2>1, <2>2
<1>11. b \in Seq(Octet) /\ Len(b) = 8 + n /\ Starts(b, y, 8)
  BY <1>10 DEF Joins
<1>12. Starts(y, x, 4) /\ Ends(y, s, 4, 4) /\ Starts(x, Rpc!Bin, 3) /\ Ends(x, t, 3, 1)
  BY <1>4, <1>7 DEF Joins
<1>13. Starts(b, x, 4) /\ Ends(b, s, 4, 4)
  BY <1>11, <1>12, StartsOn, EndsOn
<1>14. Starts(b, Rpc!Bin, 3)
  BY <1>12, <1>13, StartsOn
<1>15. b[4] = type
  <2>1. x[3 + 1] = t[1]
    BY <1>12 DEF Ends
  <2>2. b[4] = x[4]
    BY <1>13 DEF Starts
  <2>3. 3 + 1 = 4 /\ t[1] = type
    BY <1>2
  <2> QED
    BY ONLY <2>1, <2>2, <2>3
<1>16. HeaderSize(b) = n
  BY <1>1, <1>3, <1>13, NumberAt DEF HeaderSize
<1>17. ~HasHeader(b)
  <2>1. type # 64 /\ type # 65
    OBVIOUS
  <2> QED
    BY ONLY <1>15, <2>1 DEF HasHeader
<1>18. SubSeq(b, 1, 3) = Rpc!Bin
  BY <1>14, BinFirst
<1>19. 8 < Len(b) /\ Len(b) - 8 <= Rpc!MaxContentSize /\ n = Len(b) - 8
  BY <1>1, <1>11, Limits
<1>20. ContentAt(b) = 8
  BY <1>17 DEF ContentAt
<1> QED
  BY <1>11, <1>16, <1>17, <1>18, <1>19, <1>20 DEF RpcFrame

\* A request with a header is a frame that process() expects.
LEMMA HeaderFrame ==
  ASSUME NEW content \in Seq(Octet), content # <<>>, NEW header \in Seq(Octet), header # <<>>, Len(header) <= Rpc!MaxHeaderSize,
         Small(Len(content)), Small(Len(header)), Len(header) + 4 + Len(content) <= Rpc!MaxContentSize,
         NEW b, b = ((Rpc!Bin \o ((<< 64 >> \o Rpc!Size4(Len(header))) \o header)) \o Rpc!Size4(Len(content))) \o content
  PROVE  RpcFrame(b)
<1>1. PICK n \in Nat, m \in Nat : /\ n = Len(content) /\ 0 < n /\ Small(n) /\ m = Len(header) /\ 0 < m /\ Small(m)
                                 /\ m <= Rpc!MaxHeaderSize /\ m + 4 + n <= Rpc!MaxContentSize
  OBVIOUS
<1>2. PICK s, t : s = Rpc!Size4(m) /\ t = Rpc!Size4(n) /\ s \in Seq(Octet) /\ 4 = Len(s) /\ t \in Seq(Octet) /\ 4 = Len(t)
  BY SizeOctets
<1>0. PICK e : e = << 64 >> /\ e \in Seq(Octet) /\ 1 = Len(e) /\ e[1] = 64
  <2>1. 64 \in Octet
    BY DEF Octet
  <2>2. << 64 >> \in Seq(Octet) /\ Len(<< 64 >>) = 1 /\ << 64 >>[1] = 64
    BY <2>1, Single
  <2> QED
    BY ONLY <2>2
<1>3. PICK u, v, x, y : u = e \o s /\ v = u \o header /\ x = Rpc!Bin \o v /\ y = x \o t
  OBVIOUS
<1>4. Joins(u, e, 1, s, 4)
  <2>1. Joins(e \o s, e, Len(e), s, Len(s))
    BY <1>2, <1>0, JoinIs
  <2> QED
    BY ONLY <1>2, <1>3, <1>0, <2>1
<1>5. u \in Seq(Octet) /\ 5 = Len(u)
  BY <1>4 DEF Joins
<1>6. Joins(v, u, 5, header, m)
  <2>1. header \in Seq(Octet) /\ m = Len(header)
    BY <1>1
  <2>2. Joins(u \o header, u, Len(u), header, Len(header))
    BY <1>5, JoinIs
  <2> QED
    BY ONLY <1>3, <1>5, <2>1, <2>2
<1>7. PICK k \in Nat : k = 5 + m /\ v \in Seq(Octet) /\ Len(v) = k
  BY <1>1, <1>6 DEF Joins
<1>8. Joins(x, Rpc!Bin, 3, v, k)
  <2>1. Joins(Rpc!Bin \o v, Rpc!Bin, Len(Rpc!Bin), v, Len(v))
    BY <1>7, BinIs, JoinIs
  <2> QED
    BY ONLY <1>3, <1>7, BinIs, <2>1
<1>9. PICK i \in Nat : i = 8 + m /\ i = 3 + k /\ x \in Seq(Octet) /\ Len(x) = i
  <2>1. 8 + m \in Nat /\ 8 + m = 3 + k
    BY <1>1, <1>7
  <2> QED
    BY <1>8, <2>1 DEF Joins
<1>10. Joins(y, x, i, t, 4)
  <2>1. Joins(x \o t, x, Len(x), t, Len(t))
    BY <1>2, <1>9, JoinIs
  <2> QED
    BY ONLY <1>2, <1>3, <1>9, <2>1
<1>11. PICK j \in Nat : j = 12 + m /\ j = i + 4 /\ y \in Seq(Octet) /\ Len(y) = j
  <2>1. 12 + m \in Nat /\ 12 + m = i + 4
    BY <1>1, <1>9
  <2> QED
    BY <1>10, <2>1 DEF Joins
<1>12. b = y \o content
  BY <1>1, <1>2, <1>3, <1>0
<1>13. Joins(b, y, j, content, n)
  <2>1. Joins(y \o content, y, Len(y), content, Len(content))
    BY <1>11, JoinIs
  <2> QED
    BY ONLY <1>1, <1>11, <1>12, <2>1
<1>14. b \in Seq(Octet) /\ Len(b) = 12 + m + n /\ Starts(b, y, j)
  BY <1>1, <1>11, <1>13 DEF Joins
<1>15. Starts(y, x, i) /\ Ends(y, t, i, 4)
  BY <1>10 DEF Joins
<1>16. Starts(b, x, i) /\ Ends(b, t, i, 4)
  <2>1. i <= j /\ i + 4 <= j
    BY <1>11
  <2> QED
    BY <1>9, <1>14, <1>15, <2>1, StartsOn, EndsOn
<1>17. Starts(b, Rpc!Bin, 3) /\ Ends(b, v, 3, k)
  <2>1. Starts(x, Rpc!Bin, 3) /\ Ends(x, v, 3, k) /\ 3 <= i /\ 3 + k <= i
    BY <1>7, <1>8, <1>9 DEF Joins
  <2>2. Starts(b, Rpc!Bin, 3)
    BY <1>16, <2>1, StartsOn
  <2>3. Ends(b, v, 3, k)
    BY <1>7, <1>16, <2>1, EndsOn
  <2> QED
    BY <2>2, <2>3
<1>18. Starts(v, u, 5) /\ Starts(u, e, 1) /\ Ends(u, s, 1, 4)
  BY <1>4, <1>6 DEF Joins
<1>19. Starts(v, e, 1) /\ Ends(v, s, 1, 4)
  BY <1>18, StartsOn, EndsOn
<1>20. b[4] = 64
  <2>1. 1 \in 1..k /\ 3 + 1 = 4
    BY <1>1, <1>7
  <2>2. v[1] = e[1] /\ e[1] = 64
    BY <1>0, <1>19 DEF Starts
  <2>3. b[3 + 1] = v[1]
    BY <1>17, <2>1 DEF Ends
  <2> QED
    BY ONLY <2>1, <2>2, <2>3
<1>21. HeaderSize(b) = m
  <2>1. 1 + 4 <= k /\ 4 = 3 + 1 /\ 3 \in Nat /\ 1 \in Nat /\ 4 \in Nat
    BY <1>1, <1>7
  <2>2. Ends(b, s, 4, 4)
    <3>1. Ends(b, s, 3 + 1, 4)
      BY ONLY <1>7, <1>17, <1>19, <2>1, EndsIn
    <3> QED
      BY ONLY <2>1, <3>1
  <2> QED
    BY <1>1, <1>2, <2>2, NumberAt DEF HeaderSize
<1>22. Rpc!Number4(b, 8 + m) = n
  BY <1>1, <1>2, <1>9, <1>16, NumberAt
<1>23. HasHeader(b)
  BY <1>20 DEF HasHeader
<1>24. SubSeq(b, 1, 3) = Rpc!Bin
  BY <1>17, BinFirst
<1>25. ContentAt(b) = m + 12
  BY <1>21, <1>23 DEF ContentAt
<1>26. m + 12 < Len(b) /\ Len(b) - 8 <= Rpc!MaxContentSize /\ n = Len(b) - (m + 12)
  BY <1>1, <1>14, Limits
<1> QED
  BY <1>1, <1>14, <1>21, <1>22, <1>23, <1>24, <1>25, <1>26 DEF RpcFrame

\* Everything that SendRpc() sends.
LEMMA RpcSent ==
  ASSUME NEW payload \in Payloads,
         NEW b, b \in {Rpc!encodeRequest(h, payload) : h \in RpcHeaders} \cup {Rpc!encodeResponse(e, payload) : e \in BOOLEAN}
  PROVE  RpcFrame(b)
<1>1. payload \in Seq(Octet) /\ payload # <<>> /\ Len(payload) \in Nat /\ Len(payload) + MaxPiece <= Web!MaxContent /\ MaxPiece \in Nat
  BY FramingAssumption
<1>2. Len(payload) <= Web!MaxContent
  BY <1>1, Limits
<1>3. Small(Len(payload)) /\ Len(payload) <= Rpc!MaxContentSize
  BY SMT, <1>1, <1>2 DEF Rpc!MaxContentSize, Web!MaxContent, Small
<1>4. CASE b \in {Rpc!encodeResponse(e, payload) : e \in BOOLEAN}
  <2>1. PICK e \in BOOLEAN : b = Rpc!encodeResponse(e, payload)
    BY <1>4
  <2>2. PICK type : type = (IF e THEN 255 ELSE 1) /\ type \in {0, 1, 255}
    OBVIOUS
  <2>3. b = ((Rpc!Bin \o <<type>>) \o Rpc!Size4(Len(payload))) \o payload
    BY <2>1, <2>2 DEF Rpc!encodeResponse
  <2> QED
    <3>1. payload \in Seq(Octet) /\ payload # <<>> /\ Small(Len(payload)) /\ Len(payload) <= Rpc!MaxContentSize
      BY <1>1, <1>3
    <3> QED
      BY ONLY <2>2, <2>3, <3>1, PlainFrame, ZenonT(60)
<1>5. CASE b \in {Rpc!encodeRequest(h, payload) : h \in RpcHeaders}
  <2>1. PICK h \in RpcHeaders : b = Rpc!encodeRequest(h, payload)
    BY <1>5
  <2>2. h \in Seq(Octet) /\ Len(h) \in Nat /\ Len(h) <= Rpc!MaxHeaderSize
    BY FramingAssumption
  <2>3. CASE h = <<>>
    <3>1. b = ((Rpc!Bin \o << 0 >>) \o Rpc!Size4(Len(payload))) \o payload
      BY <2>1, <2>3 DEF Rpc!encodeRequest
    <3> QED
      BY <1>1, <1>3, <3>1, PlainFrame
  <2>4. CASE h # <<>>
    <3>1. b = ((Rpc!Bin \o ((<< 64 >> \o Rpc!Size4(Len(h))) \o h)) \o Rpc!Size4(Len(payload))) \o payload
      BY <2>1, <2>4 DEF Rpc!encodeRequest
    <3>2. Small(Len(h)) /\ Len(h) + 4 + Len(payload) <= Rpc!MaxContentSize
      BY SMT, <1>1, <1>2, <2>2 DEF Rpc!MaxContentSize, Rpc!MaxHeaderSize, Web!MaxContent, Small
    <3> QED
      BY <1>1, <1>3, <2>2, <2>4, <3>1, <3>2, HeaderFrame
  <2> QED
    BY <2>3, <2>4
<1> QED
  BY <1>4, <1>5

\* The length of a WebSocket frame as it is sent.
LengthPart(l, n, mask) ==
  LET m == IF mask THEN 128 ELSE 0
  IN  \/ n < 126 /\ l = <<m + n>>
      \/ n <= 65535 /\ l = <<m + 126>> \o Web!Length2(n)
      \/ l = <<m + 127>> \o Web!Length8(n)

\* A frame with this first byte, mask, length, key and content.
Built(b, x, mask, n, key, data) ==
  /\ b \in Seq(Octet) /\ b[1] = x /\ 2 <= Len(b) /\ (HasMask(b) <=> mask) /\ Declared(b) = n
  /\ Len(b) = HeaderLength(b) + n /\ KeyOf(b) = key /\ Raw(b, Len(b)) = data

\* A length is read as it was written.
LEMMA ValueRead ==
  ASSUME NEW n \in Nat
  PROVE  /\ n < 65536 => Web!Value2(Web!Length2(n)) = n
         /\ Small(n) => Web!Value8(Web!Length8(n)) = n
<1>1. n < 65536 => Web!Value2(Web!Length2(n)) = n
  BY SMT DEF Web!Value2, Web!Length2
<1>2. Small(n) => Web!Value8(Web!Length8(n)) = n
  BY SMT DEF Web!Value8, Web!Length8, Small
<1> QED
  BY <1>1, <1>2

\* A length takes two or eight octets.
LEMMA LengthOctets ==
  ASSUME NEW n \in Nat
  PROVE  /\ Web!Length2(n) \in Seq(Octet) /\ Len(Web!Length2(n)) = 2
         /\ Web!Length8(n) \in Seq(Octet) /\ Len(Web!Length8(n)) = 8
<1>1. Web!Length2(n) \in Seq(Octet) /\ Len(Web!Length2(n)) = 2
  BY OctetIs DEF Web!Length2
<1>2. Web!Length8(n) \in Seq(Octet) /\ Len(Web!Length8(n)) = 8
  BY OctetIs DEF Web!Length8
<1> QED
  BY <1>1, <1>2

\* What the second byte says.
Says(c, mask, bytes) ==
  /\ c \in Octet /\ (c >= 128 <=> mask)
  /\ bytes = (CASE c % 128 = 126 -> 2 [] c % 128 = 127 -> 8 [] OTHER -> 0)

\* Masks and lengths are told apart in the second byte.
LEMMA Saying ==
  ASSUME NEW mask \in BOOLEAN, NEW m, m = (IF mask THEN 128 ELSE 0)
  PROVE  /\ Says(m + 126, mask, 2) /\ Says(m + 127, mask, 8)
         /\ \A n \in Nat : n < 126 => Says(m + n, mask, 0) /\ (m + n) % 128 = n
<1>1. m \in {0, 128} /\ (m = 128 <=> mask)
  OBVIOUS
<1>2. Says(m + 126, mask, 2) /\ Says(m + 127, mask, 8)
  BY <1>1 DEF Says, Octet
<1>3. \A n \in Nat : n < 126 => Says(m + n, mask, 0) /\ (m + n) % 128 = n
  BY <1>1 DEF Says, Octet
<1> QED
  BY <1>2, <1>3

\* The length is where the parser looks for it.
Measured(b, l, mask, n) ==
  /\ (HasMask(b) <=> mask) /\ Declared(b) = n /\ HeaderLength(b) = 1 + Len(l) + (IF mask THEN 4 ELSE 0)

\* The parser finds the length that was sent.
LEMMA LengthRead ==
  ASSUME NEW n \in Nat, Small(n), NEW mask \in BOOLEAN, NEW l, LengthPart(l, n, mask),
         NEW b \in Seq(Octet), Len(l) < Len(b), Ends(b, l, 1, Len(l))
  PROVE  l \in Seq(Octet) /\ 0 < Len(l) /\ Measured(b, l, mask, n)
<1>1. PICK m : m = (IF mask THEN 128 ELSE 0) /\ m \in {0, 128}
  OBVIOUS
<1>2. m + 126 \in Octet /\ m + 127 \in Octet /\ (n < 126 => m + n \in Octet)
  BY <1>1 DEF Octet
<1>3. CASE n < 126 /\ l = <<m + n>>
  <2>1. l \in Seq(Octet) /\ Len(l) = 1 /\ l[1] = m + n
    BY <1>2, <1>3, Single
  <2>2. b[1 + 1] = l[1]
    BY <2>1 DEF Ends
  <2>3. b[2] = m + n
    BY ONLY <2>1, <2>2
  <2>4. Says(b[2], mask, 0) /\ b[2] % 128 = n
    BY <1>1, <1>3, <2>3, Saying
  <2>5. LengthBytes(b) = 0 /\ (HasMask(b) <=> mask)
    BY ONLY <2>4 DEF Says, LengthBytes, HasMask
  <2>6. Declared(b) = n
    BY ONLY <2>4, <2>5 DEF Declared
  <2>7. HeaderLength(b) = 1 + Len(l) + (IF mask THEN 4 ELSE 0)
    BY ONLY <2>1, <2>5 DEF HeaderLength
  <2> QED
    BY <2>1, <2>5, <2>6, <2>7 DEF Measured
<1>4. CASE n <= 65535 /\ l = <<m + 126>> \o Web!Length2(n)
  <2>1. PICK e, v : e = <<m + 126>> /\ v = Web!Length2(n) /\ e \in Seq(Octet) /\ v \in Seq(Octet) /\ Len(e) = 1 /\ Len(v) = 2 /\ e[1] = m + 126
    BY <1>2, Single, LengthOctets
  <2>2. Joins(e \o v, e, Len(e), v, Len(v))
    BY <2>1, JoinIs
  <2>3. Joins(l, e, 1, v, 2)
    BY ONLY <1>4, <2>1, <2>2
  <2>4. l \in Seq(Octet) /\ Len(l) = 3 /\ l[1] = m + 126 /\ l[2] = v[1] /\ l[3] = v[2]
    <3>1. l \in Seq(Octet) /\ Len(l) = 3 /\ l[1] = e[1] /\ l[1 + 1] = v[1] /\ l[1 + 2] = v[2]
      BY ONLY <2>3 DEF Joins, Starts, Ends
    <3> QED
      BY ONLY <2>1, <3>1
  <2>5. b[2] = l[1] /\ b[3] = l[2] /\ b[4] = l[3]
    <3>1. b[1 + 1] = l[1] /\ b[1 + 2] = l[2] /\ b[1 + 3] = l[3]
      BY <2>4 DEF Ends
    <3> QED
      BY ONLY <3>1
  <2>6. Says(b[2], mask, 2)
    BY <1>1, <2>4, <2>5, Saying
  <2>7. LengthBytes(b) = 2 /\ (HasMask(b) <=> mask)
    BY ONLY <2>6 DEF Says, LengthBytes, HasMask
  <2>8. Declared(b) = n
    <3>1. PICK w : w = SubSeq(b, 3, 4)
      OBVIOUS
    <3>2. w[1] = b[3] /\ w[2] = b[4]
      BY <2>4, <3>1
    <3>3. Web!Value2(w) = Web!Value2(v)
      BY ONLY <2>4, <2>5, <3>2 DEF Web!Value2
    <3>4. Web!Value2(v) = n
      BY <1>4, <2>1, ValueRead
    <3> QED
      BY <2>7, <3>1, <3>3, <3>4 DEF Declared
  <2>9. HeaderLength(b) = 1 + Len(l) + (IF mask THEN 4 ELSE 0)
    BY ONLY <2>4, <2>7 DEF HeaderLength
  <2> QED
    BY <2>4, <2>7, <2>8, <2>9 DEF Measured
<1>5. CASE l = <<m + 127>> \o Web!Length8(n)
  <2>1. PICK e, v : e = <<m + 127>> /\ v = Web!Length8(n) /\ e \in Seq(Octet) /\ v \in Seq(Octet) /\ Len(e) = 1 /\ Len(v) = 8 /\ e[1] = m + 127
    BY <1>2, Single, LengthOctets
  <2>2. Joins(e \o v, e, Len(e), v, Len(v))
    BY <2>1, JoinIs
  <2>3. Joins(l, e, 1, v, 8)
    BY ONLY <1>5, <2>1, <2>2
  <2>4. l \in Seq(Octet) /\ Len(l) = 9 /\ l[1] = m + 127 /\ \A j \in 1..8 : l[1 + j] = v[j]
    <3>1. l \in Seq(Octet) /\ Len(l) = 9 /\ l[1] = e[1] /\ \A j \in 1..8 : l[1 + j] = v[j]
      BY ONLY <2>3 DEF Joins, Starts, Ends
    <3> QED
      BY ONLY <2>1, <3>1
  <2>5. b[2] = l[1] /\ \A j \in 1..8 : b[2 + j] = v[j]
    <3>1. \A j \in 1..9 : b[1 + j] = l[j]
      BY <2>4 DEF Ends
    <3>2. b[1 + 1] = l[1]
      BY ONLY <3>1
    <3>3. ASSUME NEW j \in 1..8 PROVE b[2 + j] = v[j]
      <4>1. 1 + j \in 1..9 /\ 1 + (1 + j) = 2 + j
        OBVIOUS
      <4>2. b[1 + (1 + j)] = l[1 + j]
        BY ONLY <3>1, <4>1
      <4> QED
        BY <2>4, <4>1, <4>2
    <3> QED
      BY <3>2, <3>3
  <2>6. Says(b[2], mask, 8)
    BY <1>1, <2>4, <2>5, Saying
  <2>7. LengthBytes(b) = 8 /\ (HasMask(b) <=> mask)
    BY ONLY <2>6 DEF Says, LengthBytes, HasMask
  <2>8. Declared(b) = n
    <3>1. PICK w : w = SubSeq(b, 3, 10)
      OBVIOUS
    <3>2. 10 <= Len(b)
      BY <2>4
    <3>3. \A j \in 1..8 : w[j] = b[3 + j - 1]
      BY <3>1, <3>2, PartIs
    <3>4. ASSUME NEW j \in 1..8 PROVE w[j] = v[j]
      <4>1. 3 + j - 1 = 2 + j
        OBVIOUS
      <4> QED
        BY <2>5, <3>3, <4>1
    <3>5. /\ w[1] = v[1] /\ w[2] = v[2] /\ w[3] = v[3] /\ w[4] = v[4]
          /\ w[5] = v[5] /\ w[6] = v[6] /\ w[7] = v[7] /\ w[8] = v[8]
      BY ONLY <3>4
    <3>6. Web!Value8(w) = Web!Value8(v)
      BY ONLY <3>5 DEF Web!Value8
    <3>7. Web!Value8(v) = n
      BY <2>1, ValueRead
    <3> QED
      BY <2>7, <3>1, <3>6, <3>7 DEF Declared
  <2>9. HeaderLength(b) = 1 + Len(l) + (IF mask THEN 4 ELSE 0)
    BY ONLY <2>4, <2>7 DEF HeaderLength
  <2> QED
    BY <2>4, <2>7, <2>8, <2>9 DEF Measured
<1> QED
  BY <1>1, <1>3, <1>4, <1>5 DEF LengthPart

\* The parser finds the parts that a frame is put together of.
LEMMA FrameBuilt ==
  ASSUME NEW x \in Octet, NEW n \in Nat, Small(n), NEW mask \in BOOLEAN, NEW l, LengthPart(l, n, mask), l \in Seq(Octet),
         NEW key \in Seq(Octet), Len(key) = (IF mask THEN 4 ELSE 0), NEW data \in Seq(Octet), Len(data) = n,
         NEW b, b = ((<<x>> \o l) \o key) \o data
  PROVE  Built(b, x, mask, n, key, data)
<1>1. PICK e, f, g : e = <<x>> /\ f = e \o l /\ g = f \o key /\ b = g \o data
  OBVIOUS
<1>2. e \in Seq(Octet) /\ Len(e) = 1 /\ e[1] = x
  BY <1>1, Single
<1>3. PICK i \in Nat, j \in Nat : i = Len(l) /\ j = Len(key)
  OBVIOUS
<1>4. Joins(f, e, 1, l, i)
  <2>1. Joins(e \o l, e, Len(e), l, Len(l))
    BY <1>2, JoinIs
  <2> QED
    BY ONLY <1>1, <1>2, <1>3, <2>1
<1>5. PICK k \in Nat : k = 1 + i /\ f \in Seq(Octet) /\ Len(f) = k
  BY <1>3, <1>4 DEF Joins
<1>6. Joins(g, f, k, key, j)
  <2>1. Joins(f \o key, f, Len(f), key, Len(key))
    BY <1>5, JoinIs
  <2> QED
    BY ONLY <1>1, <1>3, <1>5, <2>1
<1>7. PICK h \in Nat : h = k + j /\ g \in Seq(Octet) /\ Len(g) = h
  BY <1>3, <1>5, <1>6 DEF Joins
<1>8. Joins(b, g, h, data, n)
  <2>1. Joins(g \o data, g, Len(g), data, Len(data))
    BY <1>7, JoinIs
  <2> QED
    BY <1>1, <1>7, <2>1
<1>9. b \in Seq(Octet) /\ Len(b) = h + n /\ Starts(b, g, h) /\ Ends(b, data, h, n)
  BY <1>8 DEF Joins
<1>10. Starts(g, f, k) /\ Ends(g, key, k, j) /\ Starts(f, e, 1) /\ Ends(f, l, 1, i)
  BY <1>4, <1>6 DEF Joins
<1>11. Starts(b, f, k) /\ Ends(b, key, k, j)
  <2>1. k <= h /\ k + j <= h
    BY <1>3, <1>5, <1>7
  <2> QED
    BY <1>3, <1>5, <1>9, <1>10, <2>1, StartsOn, EndsOn
<1>12. Starts(b, e, 1) /\ Ends(b, l, 1, i)
  <2>1. 1 <= k /\ 1 + i <= k
    BY <1>3, <1>5
  <2> QED
    BY <1>3, <1>10, <1>11, <2>1, StartsOn, EndsOn
<1>13. b[1] = x
  BY <1>2, <1>12 DEF Starts
<1>14. Len(l) < Len(b)
  BY <1>3, <1>5, <1>7, <1>9
<1>15. 0 < i /\ Measured(b, l, mask, n)
  <2>1. Ends(b, l, 1, Len(l))
    BY <1>3, <1>12
  <2> QED
    <3>1. l \in Seq(Octet) /\ 0 < Len(l) /\ Measured(b, l, mask, n)
      <4>1. n \in Nat /\ Small(n) /\ mask \in BOOLEAN /\ LengthPart(l, n, mask) /\ b \in Seq(Octet) /\ Len(l) < Len(b)
        BY <1>9, <1>14
      <4> QED
        BY ONLY <2>1, <4>1, LengthRead
    <3> QED
      BY ONLY <1>3, <3>1
<1>16. HeaderLength(b) = h /\ (HasMask(b) <=> mask) /\ Declared(b) = n
  BY <1>3, <1>5, <1>7, <1>15 DEF Measured
<1>17. 2 <= Len(b)
  BY <1>3, <1>5, <1>7, <1>9, <1>15
<1>18. KeyOf(b) = key
  <2>1. CASE mask
    <3>1. j = 4 /\ h - 3 = k + 1
      BY <1>3, <1>5, <1>7, <2>1
    <3>2. PICK w : w = SubSeq(b, h - 3, h)
      OBVIOUS
    <3>3. h - 3 \in Nat /\ 0 < h - 3 /\ h - 3 <= h + 1 /\ h <= Len(b)
      BY <1>5, <1>7, <1>9, <3>1
    <3>9. PICK y \in Nat : y = h - 3 /\ 0 < y /\ y <= h + 1 /\ h - y + 1 = 4
      BY <1>7, <3>3
    <3>5. w = SubSeq(b, y, h) /\ h <= Len(b)
      BY <3>2, <3>3, <3>9
    <3>4. w \in Seq(Octet) /\ Len(w) = h - y + 1 /\ \A a \in 1..h - y + 1 : w[a] = b[y + a - 1]
      BY ONLY <1>7, <1>9, <3>9, <3>5, PartIs
    <3>6. ASSUME NEW a \in 1..4 PROVE w[a] = key[a]
      <4>1. y + a - 1 = k + a
        BY ONLY <1>5, <1>7, <3>1, <3>9
      <4>2. b[k + a] = key[a]
        BY <1>11, <3>1 DEF Ends
      <4>3. w[a] = b[y + a - 1]
        BY <3>4, <3>9
      <4> QED
        BY <4>1, <4>2, <4>3
    <3>7. Len(w) = 4 /\ Len(key) = 4 /\ w \in Seq(Octet)
      BY <1>3, <3>1, <3>4, <3>9
    <3>8. w = key
      BY <3>6, <3>7, SeqEqual
    <3> QED
      BY <1>16, <2>1, <3>2, <3>8 DEF KeyOf
  <2>2. CASE ~mask
    <3>1. key = <<>>
      BY <2>2
    <3> QED
      BY <1>16, <2>2, <3>1 DEF KeyOf
  <2> QED
    BY <2>1, <2>2
<1>19. Raw(b, Len(b)) = data
  <2>1. PICK w : w = Raw(b, Len(b))
    OBVIOUS
  <2>2. w \in Seq(Octet) /\ Len(w) = n /\ \A a \in 1..n : w[a] = b[h + a]
    <3>1. PICK o \in Nat : o = Len(b) /\ h <= o /\ o - h = n
      BY <1>7, <1>9
    <3>2. w = SubSeq(b, h + 1, o)
      BY <1>16, <2>1, <3>1 DEF Raw
    <3> QED
      <4>1. h + 1 \in Nat /\ 0 < h + 1 /\ h + 1 <= o + 1 /\ o <= Len(b) /\ o \in Nat /\ b \in Seq(Octet)
        BY ONLY <1>7, <1>9, <3>1
      <4>2. w \in Seq(Octet) /\ Len(w) = o - (h + 1) + 1 /\ \A v \in 1..o - (h + 1) + 1 : w[v] = b[h + 1 + v - 1]
        BY ONLY <3>2, <4>1, PartIs
      <4>3. o - (h + 1) + 1 = n /\ \A v \in Int : h + 1 + v - 1 = h + v
        BY ONLY <1>7, <3>1
      <4>4. 1..n \subseteq Int
        BY <3>1
      <4> QED
        BY ONLY <4>2, <4>3, <4>4
  <2>3. \A a \in 1..n : w[a] = data[a]
    BY <1>9, <2>2 DEF Ends
  <2> QED
    BY <2>1, <2>2, <2>3, SeqEqual
<1> QED
  BY <1>9, <1>13, <1>16, <1>17, <1>18, <1>19 DEF Built

\* Masking twice gives the content back.
LEMMA MaskIs ==
  ASSUME NEW data \in Seq(Octet), NEW key \in Seq(Octet), Len(key) = 4, NEW m, m = Mask(data, key)
  PROVE  /\ m \in Seq(Octet) /\ Len(m) = Len(data)
         /\ \A i \in 1..Len(data) : Web!Xor(m[i], key[((i - 1) % 4) + 1]) = data[i]
<1>1. PICK n \in Nat : n = Len(data)
  OBVIOUS
<1>2. m = [i \in 1..n |-> Web!Xor(data[i], key[((i - 1) % 4) + 1])]
  BY <1>1 DEF Mask
<1>3. ASSUME NEW i \in 1..n
      PROVE  m[i] \in Octet /\ Web!Xor(m[i], key[((i - 1) % 4) + 1]) = data[i]
  <2>1. ((i - 1) % 4) + 1 \in 1..4
    OBVIOUS
  <2>2. PICK a \in 1..4 : a = ((i - 1) % 4) + 1
    BY <2>1
  <2>3. key[a] \in Octet
    <3>1. a \in 1..Len(key)
      BY <2>2
    <3> QED
      BY <3>1, ElementOfSeq
  <2>4. data[i] \in Octet
    BY <1>1
  <2>5. m[i] = Web!Xor(data[i], key[a])
    BY <1>2, <2>2
  <2> QED
    BY <2>2, <2>3, <2>4, <2>5, XorTwice
<1>4. m \in Seq(Octet) /\ Len(m) = n
  <2>1. \A i \in 1..n : m[i] \in Octet
    BY <1>3
  <2>2. m \in [1..n -> Octet]
    BY ONLY <1>2, <2>1
  <2> QED
    BY <1>1, <2>2
<1> QED
  BY <1>1, <1>3, <1>4

KeySize(mask) == IF mask THEN 4 ELSE 0
OnWire(mask, data, key) == IF mask THEN Mask(data, key) ELSE data

\* What the first byte of a frame says.
Heads(x, mask, begun, n, last, close) ==
  /\ (x \div 16) % 8 = 0 /\ x % 16 \in Web!Known /\ (x >= 128 <=> last)
  /\ mask => begun = <<>> /\ last
  /\ close <=> n = 0
  /\ close => last /\ begun = <<>> /\ x % 16 = Web!Opcode.close

\* A frame carries what was put into it.
Loaded(b, x, mask, n, key, data, raw) ==
  /\ x \in Octet /\ mask \in BOOLEAN /\ key \in Seq(Octet) /\ Len(key) = KeySize(mask)
  /\ data \in Seq(Octet) /\ n = Len(data) /\ n + MaxPiece <= Web!MaxContent
  /\ raw = OnWire(mask, data, key) /\ Built(b, x, mask, n, key, raw)

\* A frame carries its content for the parser.
LEMMA Carrying ==
  ASSUME NEW b, NEW x, NEW mask, NEW n, NEW key, NEW data, NEW raw, Loaded(b, x, mask, n, key, data, raw),
         NEW begun \in Seq(Octet), NEW last \in BOOLEAN, NEW close \in BOOLEAN, Heads(x, mask, begun, n, last, close)
  PROVE  WebFrame(b, begun, begun \o data, last, close)
<1> USE DEF Loaded
<1>1. /\ b \in Seq(Octet) /\ b[1] = x /\ 2 <= Len(b) /\ (HasMask(b) <=> mask) /\ Declared(b) = n
      /\ Len(b) = HeaderLength(b) + n /\ KeyOf(b) = key /\ Raw(b, Len(b)) = raw
  BY DEF Built
<1>2. HeaderLength(b) \in Nat /\ Len(b) \in Nat /\ n \in Nat
  BY <1>1, WebSizes
<1>3. Len(b) - HeaderLength(b) = n /\ HeaderLength(b) <= Len(b)
  BY <1>1, <1>2
<1>4. Plain(b) = data
  <2>1. Plain(b) = [i \in 1..n |-> IF mask THEN Web!Xor(raw[i], key[((i - 1) % 4) + 1]) ELSE raw[i]]
    BY <1>1, <1>3 DEF Plain, OnWire
  <2>2. CASE mask
    <3>1. \A i \in 1..n : Web!Xor(raw[i], key[((i - 1) % 4) + 1]) = data[i]
      BY <2>2, MaskIs DEF KeySize, OnWire
    <3>2. Plain(b) = [i \in 1..n |-> data[i]]
      BY ONLY <2>1, <2>2, <3>1
    <3>3. data = [i \in 1..n |-> data[i]]
      OBVIOUS
    <3> QED
      BY <3>2, <3>3
  <2>3. CASE ~mask
    <3>1. Plain(b) = [i \in 1..n |-> data[i]]
      BY <2>1, <2>3 DEF OnWire
    <3>2. data = [i \in 1..n |-> data[i]]
      OBVIOUS
    <3> QED
      BY <3>1, <3>2
  <2> QED
    BY <2>2, <2>3
<1>5. begun \o data \in Seq(Octet)
  OBVIOUS
<1> QED
  BY <1>1, <1>3, <1>4, <1>5 DEF WebFrame, Heads

\* The kinds of frames.
LEMMA KnownIs == Web!Known = {0, 1, 2, 8, 9, 10} /\ Opcodes \subseteq {1, 2, 9, 10}
<1>1. DOMAIN Web!Opcode = {"continuation", "text", "binary", "close", "ping", "pong"}
  BY DEF Web!Opcode
<1>2. Web!Known = {0, 1, 2, 8, 9, 10}
  BY <1>1 DEF Web!Known, Web!Opcode
<1>3. Opcodes \subseteq {1, 2, 9, 10}
  BY <1>2, FramingAssumption DEF Web!Opcode
<1> QED
  BY <1>2, <1>3

\* Contents are short enough for their length.
LEMMA ShortIs == ASSUME NEW n \in Nat, n + MaxPiece <= Web!MaxContent PROVE Small(n)
  BY FramingAssumption, SMT DEF Small, Web!MaxContent

\* The three ways to write a length.
MaskBit(mask) == IF mask THEN 128 ELSE 0
InTwo(n) == n <= 65535

\* The three lengths.
LEMMA PartOne ==
  ASSUME NEW n \in Nat, n < 126, NEW mask \in BOOLEAN, NEW c, c = MaskBit(mask) + n, NEW l, l = <<c>>
  PROVE  l \in Seq(Octet) /\ LengthPart(l, n, mask)
<1>1. c \in Octet
  BY DEF Octet, MaskBit
<1>2. l \in Seq(Octet)
  BY <1>1, Single
<1>3. LengthPart(l, n, mask)
  BY SMT DEF LengthPart, MaskBit
<1> QED
  BY ONLY <1>2, <1>3

LEMMA PartTwo ==
  ASSUME NEW n \in Nat, InTwo(n), NEW mask \in BOOLEAN, NEW c, c = MaskBit(mask) + 126, NEW l, l = <<c>> \o Web!Length2(n)
  PROVE  l \in Seq(Octet) /\ LengthPart(l, n, mask)
<1>1. c \in Octet
  BY SMT DEF Octet, MaskBit
<1>2. <<c>> \in Seq(Octet)
  BY ONLY <1>1, Single
<1>3. Web!Length2(n) \in Seq(Octet)
  BY ONLY n \in Nat, LengthOctets
<1>4. l \in Seq(Octet)
  BY ONLY <1>2, <1>3, l = <<c>> \o Web!Length2(n)
<1>5. LengthPart(l, n, mask)
  BY SMT DEF LengthPart, MaskBit, InTwo
<1> QED
  BY ONLY <1>4, <1>5

LEMMA PartEight ==
  ASSUME NEW n \in Nat, NEW mask \in BOOLEAN, NEW c, c = MaskBit(mask) + 127, NEW l, l = <<c>> \o Web!Length8(n)
  PROVE  l \in Seq(Octet) /\ LengthPart(l, n, mask)
<1>1. c \in Octet
  BY SMT DEF Octet, MaskBit
<1>2. <<c>> \in Seq(Octet)
  BY ONLY <1>1, Single
<1>3. Web!Length8(n) \in Seq(Octet)
  BY ONLY n \in Nat, LengthOctets
<1>4. l \in Seq(Octet)
  BY ONLY <1>2, <1>3, l = <<c>> \o Web!Length8(n)
<1>5. LengthPart(l, n, mask)
  BY SMT DEF LengthPart, MaskBit
<1> QED
  BY ONLY <1>4, <1>5

\* The length that encode() writes.
LengthOf(n) == CASE n < 126 -> <<n>> [] 126 <= n /\ n <= 65535 -> << 126 >> \o Web!Length2(n) [] OTHER -> << 127 >> \o Web!Length8(n)

LEMMA LengthOfIs == ASSUME NEW n \in Nat, NEW l, l = LengthOf(n) PROVE l \in Seq(Octet) /\ LengthPart(l, n, FALSE)
<1>1. PICK c \in Nat : c = MaskBit(FALSE) + n
  BY DEF MaskBit
<1>2. PICK d, e : d = MaskBit(FALSE) + 126 /\ e = MaskBit(FALSE) + 127
  OBVIOUS
<1>3. FALSE \in BOOLEAN /\ c = n /\ d = 126 /\ e = 127
  BY <1>1, <1>2 DEF MaskBit
<1>4. CASE n < 126
  <2>1. l = <<n>>
    BY <1>4, SMT DEF LengthOf
  <2>2. l = <<c>>
    BY ONLY <1>3, <2>1
  <2> QED
    BY ONLY n \in Nat, <1>1, <1>3, <1>4, <2>2, PartOne
<1>5. CASE ~(n < 126) /\ InTwo(n)
  <2>1. l = << 126 >> \o Web!Length2(n)
    BY <1>5, SMT DEF LengthOf, InTwo
  <2>2. n \in Nat /\ InTwo(n) /\ FALSE \in BOOLEAN /\ d = MaskBit(FALSE) + 126 /\ l = <<d>> \o Web!Length2(n)
    BY ONLY n \in Nat, <1>2, <1>3, <1>5, <2>1
  <2> QED
    BY ONLY <2>2, PartTwo, ZenonT(20)
<1>6. CASE ~(n < 126) /\ ~InTwo(n)
  <2>1. l = << 127 >> \o Web!Length8(n)
    BY <1>6, SMT DEF LengthOf, InTwo
  <2>2. n \in Nat /\ FALSE \in BOOLEAN /\ e = MaskBit(FALSE) + 127 /\ l = <<e>> \o Web!Length8(n)
    BY ONLY n \in Nat, <1>2, <1>3, <2>1
  <2> QED
    BY ONLY <2>2, PartEight, ZenonT(20)
<1> QED
  BY ONLY <1>4, <1>5, <1>6, ZenonT(20)

\* The parts of what encode() returns.
FirstByte(opcode) == IF opcode = 0 THEN 0 ELSE 128 + opcode

\* What encode() puts together.
LEMMA EncodeIs ==
  ASSUME NEW data \in Seq(Octet), NEW opcode, NEW x, x = FirstByte(opcode)
  PROVE  \E l \in Seq(Octet) : LengthPart(l, Len(data), FALSE) /\ Web!encode(data, opcode) = (<<x>> \o l) \o data
<1>1. PICK l : l = LengthOf(Len(data))
  OBVIOUS
<1>2. l \in Seq(Octet) /\ LengthPart(l, Len(data), FALSE)
  <2>1. Len(data) \in Nat
    OBVIOUS
  <2> QED
    BY ONLY <1>1, <2>1, LengthOfIs, ZenonT(20)
<1>3. Web!Opcode.continuation = 0
  BY DEF Web!Opcode
<1>4. Web!encode(data, opcode) = (<<IF opcode = 0 THEN 0 ELSE 128 + opcode>> \o LengthOf(Len(data))) \o data
  BY ONLY <1>3, SMT DEF Web!encode, LengthOf
<1>5. Web!encode(data, opcode) = (<<x>> \o l) \o data
  BY ONLY <1>1, <1>4, x = FirstByte(opcode), SMT DEF FirstByte
<1> QED
  BY ONLY <1>2, <1>5

\* A frame without a mask.
LEMMA BareFrame ==
  ASSUME NEW x \in Octet, NEW data \in Seq(Octet), Len(data) + MaxPiece <= Web!MaxContent,
         NEW l \in Seq(Octet), LengthPart(l, Len(data), FALSE), NEW b, b = (<<x>> \o l) \o data,
         NEW begun \in Seq(Octet), NEW last \in BOOLEAN, NEW close \in BOOLEAN,
         (x \div 16) % 8 = 0, x % 16 \in Web!Known, x >= 128 <=> last,
         close <=> data = <<>>, close => last /\ begun = <<>> /\ x % 16 = Web!Opcode.close
  PROVE  WebFrame(b, begun, begun \o data, last, close)
<1>1. PICK n \in Nat : n = Len(data)
  OBVIOUS
<1>2. Small(n)
  BY <1>1, ShortIs
<1>7. PICK mask \in BOOLEAN : ~mask
  OBVIOUS
<1>3. PICK key : key = <<>>
  OBVIOUS
<1>8. key \in Seq(Octet) /\ Len(key) = 0
  BY <1>3
<1>9. Len(key) = (IF mask THEN 4 ELSE 0)
  BY ONLY <1>7, <1>8
<1>10. LengthPart(l, n, mask)
  <2>1. mask = FALSE
    BY ONLY <1>7
  <2> QED
    BY ONLY <1>1, <2>1, LengthPart(l, Len(data), FALSE)
<1>4. b = ((<<x>> \o l) \o key) \o data
  <2>1. <<x>> \o l \in Seq(Octet)
    BY Single
  <2>2. (<<x>> \o l) \o key = <<x>> \o l
    BY <1>3, <2>1
  <2> QED
    BY <2>2
<1>5. Built(b, x, mask, n, key, data)
  <2>1. /\ x \in Octet /\ n \in Nat /\ Small(n) /\ mask \in BOOLEAN /\ LengthPart(l, n, mask) /\ l \in Seq(Octet)
        /\ key \in Seq(Octet) /\ Len(key) = (IF mask THEN 4 ELSE 0) /\ data \in Seq(Octet) /\ Len(data) = n
        /\ b = ((<<x>> \o l) \o key) \o data
    BY <1>1, <1>2, <1>8, <1>9, <1>10, <1>4
  <2> QED
    BY ONLY <2>1, FrameBuilt, ZenonT(20)
<1>6. close <=> n = 0
  BY <1>1
<1>11. PICK raw : raw = (IF mask THEN Mask(data, key) ELSE data)
  OBVIOUS
<1>12. raw = data
  BY ONLY <1>7, <1>11
<1>13. Loaded(b, x, mask, n, key, data, raw)
  BY <1>1, <1>5, <1>8, <1>9, <1>11, <1>12 DEF KeySize, OnWire, Loaded
<1>14. begun \in Seq(Octet) /\ last \in BOOLEAN /\ close \in BOOLEAN /\ Heads(x, mask, begun, n, last, close)
  BY <1>6, <1>7 DEF Heads
<1> QED
  BY ONLY <1>13, <1>14, Carrying, ZenonT(30)

\* A message in one frame of encode() is a frame that process() expects.
LEMMA WholeSent ==
  ASSUME NEW data \in Payloads, NEW opcode \in Opcodes, NEW b, b = Web!encode(data, opcode)
  PROVE  WebFrame(b, <<>>, data, TRUE, FALSE)
<1>1. data \in Seq(Octet) /\ data # <<>> /\ Len(data) + MaxPiece <= Web!MaxContent
  BY FramingAssumption
<1>2. opcode \in {1, 2, 9, 10}
  BY KnownIs
<1>3. PICK x : x = FirstByte(opcode)
  OBVIOUS
<1>4. x \in Octet /\ (x \div 16) % 8 = 0 /\ x % 16 \in Web!Known /\ x >= 128
  <2>1. x = 128 + opcode /\ x \in {129, 130, 137, 138}
    BY <1>2, <1>3 DEF FirstByte
  <2>2. x \in Octet
    BY <2>1 DEF Octet
  <2>3. (x \div 16) % 8 = 0 /\ x >= 128
    BY <2>1
  <2>4. x % 16 \in Web!Known
    BY <2>1, KnownIs
  <2> QED
    BY <2>2, <2>3, <2>4
<1>5. PICK l \in Seq(Octet) : LengthPart(l, Len(data), FALSE) /\ b = (<<x>> \o l) \o data
  <2>1. data \in Seq(Octet) /\ x = FirstByte(opcode)
    BY <1>1, <1>3
  <2>2. \E l \in Seq(Octet) : LengthPart(l, Len(data), FALSE) /\ Web!encode(data, opcode) = (<<x>> \o l) \o data
    BY ONLY <2>1, EncodeIs, ZenonT(60)
  <2> QED
    BY ONLY <2>2, b = Web!encode(data, opcode), ZenonT(20)
<1>6. WebFrame(b, <<>>, <<>> \o data, TRUE, FALSE)
  <2>1. <<>> \in Seq(Octet)
    OBVIOUS
  <2> QED
    BY <1>1, <1>4, <1>5, <2>1, BareFrame
<1>7. <<>> \o data = data
  BY <1>1
<1> QED
  BY <1>6, <1>7

\* So is a fragment of a message.
LEMMA FragmentSent ==
  ASSUME NEW data \in Payloads, NEW begun \in Seq(Octet), NEW fin \in BOOLEAN,
         NEW opcode, opcode = (IF begun = <<>> THEN Web!Opcode.binary ELSE Web!Opcode.continuation), NEW b, b = Fragment(data, opcode, fin)
  PROVE  WebFrame(b, begun, begun \o data, fin, FALSE)
<1>1. data \in Seq(Octet) /\ data # <<>> /\ Len(data) + MaxPiece <= Web!MaxContent
  BY FramingAssumption
<1>2. opcode \in {0, 2}
  BY DEF Web!Opcode
<1>3. PICK x, y : x = FirstByte(opcode) /\ y = opcode + (IF fin THEN 128 ELSE 0)
  OBVIOUS
<1>4. x \in Octet /\ y \in Octet /\ (y \div 16) % 8 = 0 /\ y % 16 \in Web!Known /\ (y >= 128 <=> fin)
  <2>1. x \in {0, 130} /\ y \in {0, 2, 128, 130} /\ (y \in {128, 130} <=> fin)
    BY <1>2, <1>3 DEF FirstByte
  <2>2. x \in Octet /\ y \in Octet
    BY <2>1 DEF Octet
  <2>3. (y \div 16) % 8 = 0 /\ (y >= 128 <=> fin)
    BY <2>1
  <2>4. y % 16 \in Web!Known
    BY <2>1, KnownIs
  <2> QED
    BY <2>2, <2>3, <2>4
<1>5. PICK l \in Seq(Octet) : LengthPart(l, Len(data), FALSE) /\ Web!encode(data, opcode) = (<<x>> \o l) \o data
  <2>1. data \in Seq(Octet) /\ x = FirstByte(opcode)
    BY <1>1, <1>3
  <2> QED
    BY ONLY <2>1, EncodeIs, ZenonT(60)
<1>6. b = (<<y>> \o l) \o data
  <2>1. PICK e, f, z : e = <<x>> /\ f = <<y>> /\ z = l \o data
    OBVIOUS
  <2>2. /\ e \in Seq(Octet) /\ Len(e) = 1 /\ e[1] = x /\ f \in Seq(Octet) /\ Len(f) = 1 /\ f[1] = y
        /\ z \in Seq(Octet) /\ Len(z) \in Nat
    BY <1>1, <1>4, <2>1, Single
  <2>3. (e \o l) \o data = e \o z /\ (f \o l) \o data = f \o z
    <3>1. e \in Seq(Octet) /\ f \in Seq(Octet) /\ l \in Seq(Octet) /\ data \in Seq(Octet)
      BY <1>1, <2>2
    <3>2. (e \o l) \o data = e \o (l \o data)
      BY ONLY <3>1, ZenonT(60), Associative
    <3>3. (f \o l) \o data = f \o (l \o data)
      BY ONLY <3>1, ZenonT(60), Associative
    <3> QED
      BY ONLY <2>1, <3>2, <3>3
  <2>4. b = [e \o z EXCEPT ![1] = y]
    BY <1>3, <1>5, <2>1, <2>3 DEF Fragment
  <2>5. PICK u, v : u = e \o z /\ v = f \o z
    OBVIOUS
  <2>6. Joins(u, e, 1, z, Len(z)) /\ Joins(v, f, 1, z, Len(z))
    <3>1. Joins(e \o z, e, Len(e), z, Len(z)) /\ Joins(f \o z, f, Len(f), z, Len(z))
      BY <2>2, JoinIs
    <3> QED
      BY ONLY <2>2, <2>5, <3>1
  <2>7. PICK n \in Nat : n = Len(z)
    BY <2>2
  <2>8. /\ u \in Seq(Octet) /\ Len(u) = 1 + n /\ \A j \in 1..n : u[1 + j] = z[j]
        /\ v \in Seq(Octet) /\ Len(v) = 1 + n /\ v[1] = y /\ \A j \in 1..n : v[1 + j] = z[j]
    BY ONLY <2>2, <2>6, <2>7 DEF Joins, Starts, Ends
  <2>9. PICK w : w = [u EXCEPT ![1] = y]
    OBVIOUS
  <2>10. w \in Seq(Octet) /\ Len(w) = 1 + n /\ w[1] = y /\ \A j \in 2..1 + n : w[j] = u[j]
    BY <1>4, <2>7, <2>8, <2>9
  <2>11. ASSUME NEW j \in 1..1 + n PROVE w[j] = v[j]
    <3>1. CASE j = 1
      BY <2>8, <2>10, <3>1
    <3>2. CASE j # 1
      <4>1. PICK i \in 1..n : j = 1 + i
        <5>1. j - 1 \in 1..n /\ j = 1 + (j - 1)
          BY <2>7, <3>2
        <5> QED
          BY <5>1
      <4>2. w[j] = u[j]
        BY <2>10, <3>2
      <4> QED
        BY <2>8, <4>1, <4>2
    <3> QED
      BY <3>1, <3>2
  <2>12. w = v
    BY <2>8, <2>10, <2>11, SeqEqual
  <2> QED
    BY <2>1, <2>3, <2>4, <2>5, <2>9, <2>12
<1> QED
  BY <1>1, <1>4, <1>5, <1>6, BareFrame

\* The length that a peer writes.
MaskedLength(n, lengthBytes) ==
  CASE lengthBytes = 0 -> <<128 + n>> [] lengthBytes = 2 -> << 254 >> \o Web!Length2(n) [] OTHER -> << 255 >> \o Web!Length8(n)

LEMMA MaskedLengthIs ==
  ASSUME NEW n \in Nat, NEW lengthBytes, lengthBytes = 0 => n < 126, lengthBytes = 2 => InTwo(n), NEW l, l = MaskedLength(n, lengthBytes)
  PROVE  l \in Seq(Octet) /\ LengthPart(l, n, TRUE)
<1>1. PICK c \in Nat : c = MaskBit(TRUE) + n
  BY DEF MaskBit
<1>2. PICK d, e : d = MaskBit(TRUE) + 126 /\ e = MaskBit(TRUE) + 127
  OBVIOUS
<1>3. TRUE \in BOOLEAN /\ c = 128 + n /\ d = 254 /\ e = 255
  BY <1>1, <1>2 DEF MaskBit
<1>4. CASE lengthBytes = 0
  <2>1. l = <<128 + n>> /\ n < 126
    BY <1>4, SMT DEF MaskedLength
  <2>2. l = <<c>>
    BY ONLY <1>3, <2>1
  <2> QED
    BY ONLY n \in Nat, <1>1, <1>3, <2>1, <2>2, PartOne
<1>5. CASE lengthBytes = 2
  <2>1. l = << 254 >> \o Web!Length2(n) /\ InTwo(n)
    BY <1>5, SMT DEF MaskedLength
  <2>2. n \in Nat /\ InTwo(n) /\ TRUE \in BOOLEAN /\ d = MaskBit(TRUE) + 126 /\ l = <<d>> \o Web!Length2(n)
    BY ONLY n \in Nat, <1>2, <1>3, <2>1
  <2> QED
    BY ONLY <2>2, PartTwo, ZenonT(20)
<1>6. CASE lengthBytes # 0 /\ lengthBytes # 2
  <2>1. l = << 255 >> \o Web!Length8(n)
    BY <1>6, SMT DEF MaskedLength
  <2>2. n \in Nat /\ TRUE \in BOOLEAN /\ e = MaskBit(TRUE) + 127 /\ l = <<e>> \o Web!Length8(n)
    BY ONLY n \in Nat, <1>2, <1>3, <2>1
  <2> QED
    BY ONLY <2>2, PartEight, ZenonT(20)
<1> QED
  BY ONLY <1>4, <1>5, <1>6, ZenonT(20)

\* So is a masked frame, with any of the lengths.
LEMMA MaskedSent ==
  ASSUME NEW data \in Seq(Octet), Len(data) + MaxPiece <= Web!MaxContent, NEW opcode \in Opcodes \cup {8}, opcode = 8 <=> data = <<>>,
         NEW key \in Keys, NEW lengthBytes, lengthBytes = 0 => Len(data) < 126, lengthBytes = 2 => InTwo(Len(data)),
         NEW b, b = Masked(data, opcode, key, lengthBytes)
  PROVE  WebFrame(b, <<>>, data, TRUE, data = <<>>)
<1>1. key \in Seq(Octet) /\ Len(key) = 4
  BY FramingAssumption
<1>2. opcode \in {1, 2, 8, 9, 10}
  BY KnownIs
<1>3. PICK x : x = 128 + opcode
  OBVIOUS
<1>4. x \in Octet /\ (x \div 16) % 8 = 0 /\ x % 16 \in Web!Known /\ x >= 128 /\ x % 16 = opcode
  <2>1. x \in {129, 130, 136, 137, 138}
    BY <1>2, <1>3
  <2>2. x \in Octet
    BY <2>1 DEF Octet
  <2>3. (x \div 16) % 8 = 0 /\ x >= 128 /\ x % 16 = opcode
    BY <1>2, <1>3
  <2>4. x % 16 \in Web!Known
    BY <2>1, KnownIs
  <2> QED
    BY <2>2, <2>3, <2>4
<1>5. PICK n \in Nat : n = Len(data) /\ Small(n)
  BY ShortIs
<1>6. PICK l : l = MaskedLength(n, lengthBytes)
  OBVIOUS
<1>7. PICK m : m = Mask(data, key)
  OBVIOUS
<1>8. m \in Seq(Octet) /\ Len(m) = n
  BY <1>1, <1>5, <1>7, MaskIs
<1>9. b = ((<<x>> \o l) \o key) \o m
  BY ONLY <1>3, <1>5, <1>6, <1>7, b = Masked(data, opcode, key, lengthBytes), SMT DEF Masked, MaskedLength
<1>10. l \in Seq(Octet) /\ LengthPart(l, n, TRUE)
  <2>1. n \in Nat /\ (lengthBytes = 0 => n < 126) /\ (lengthBytes = 2 => InTwo(n)) /\ l = MaskedLength(n, lengthBytes)
    BY ONLY <1>5, <1>6, lengthBytes = 0 => Len(data) < 126, lengthBytes = 2 => InTwo(Len(data))
  <2> QED
    BY ONLY <2>1, MaskedLengthIs, ZenonT(20)
<1>11. Built(b, x, TRUE, n, key, m)
  BY <1>1, <1>4, <1>5, <1>8, <1>9, <1>10, FrameBuilt
<1>12. PICK close \in BOOLEAN : close = (data = <<>>)
  OBVIOUS
<1>13. (close <=> n = 0) /\ (close => x % 16 = Web!Opcode.close)
  <2>1. data = <<>> <=> n = 0
    BY <1>5
  <2>2. Web!Opcode.close = 8
    BY DEF Web!Opcode
  <2>3. opcode = 8 <=> data = <<>>
    OBVIOUS
  <2> QED
    BY ONLY <1>4, <1>12, <2>1, <2>2, <2>3
<1>14. WebFrame(b, <<>>, <<>> \o data, TRUE, close)
  <2>1. PICK mask \in BOOLEAN : mask = TRUE
    OBVIOUS
  <2>2. PICK last, begun : last = TRUE /\ begun = <<>>
    OBVIOUS
  <2>3. begun \in Seq(Octet)
    BY <2>2
  <2>4. Built(b, x, mask, n, key, m)
    BY ONLY <1>11, <2>1
  <2>5. m = (IF mask THEN Mask(data, key) ELSE data) /\ Len(key) = (IF mask THEN 4 ELSE 0)
    BY ONLY <1>1, <1>7, <2>1
  <2>6. Loaded(b, x, mask, n, key, data, m)
    BY <1>1, <1>4, <1>5, <2>4, <2>5 DEF KeySize, OnWire, Loaded
  <2>7. begun \in Seq(Octet) /\ last \in BOOLEAN /\ close \in BOOLEAN /\ Heads(x, mask, begun, n, last, close)
    BY <1>4, <1>13, <2>1, <2>2, <2>3 DEF Heads
  <2>8. WebFrame(b, begun, begun \o data, last, close)
    BY ONLY <2>6, <2>7, Carrying, ZenonT(30)
  <2> QED
    BY ONLY <2>2, <2>8
<1>15. <<>> \o data = data
  OBVIOUS
<1> QED
  BY <1>12, <1>14, <1>15

\* So are the frames that close the connection.
LEMMA CloseSent ==
  ASSUME NEW b, b \in {Web!encodeClose} \cup {Masked(<<>>, Web!Opcode.close, key, 0) : key \in Keys}
  PROVE  WebFrame(b, <<>>, <<>>, TRUE, TRUE)
<1>1. <<>> \in Seq(Octet) /\ Len(<<>>) = 0 /\ <<>> \o <<>> = <<>>
  OBVIOUS
<1>2. 0 + MaxPiece <= Web!MaxContent
  BY FramingAssumption, Limits
<1>3. CASE b = Web!encodeClose
  <2>1. b = <<136, 0>>
    BY <1>3 DEF Web!encodeClose, Web!Opcode
  <2>2. PICK l : l = << 0 >> /\ l \in Seq(Octet)
    <3>1. 0 \in Octet
      BY DEF Octet
    <3> QED
      BY <3>1, Single
  <2>3. LengthPart(l, 0, FALSE)
    BY <2>2 DEF LengthPart
  <2>4. 136 \in Octet
    BY DEF Octet
  <2>5. b = (<< 136 >> \o l) \o <<>>
    BY <2>1, <2>2
  <2>6. (136 \div 16) % 8 = 0 /\ 136 % 16 = 8 /\ 136 >= 128
    OBVIOUS
  <2>7. 136 % 16 \in Web!Known /\ 136 % 16 = Web!Opcode.close
    BY <2>6, KnownIs DEF Web!Opcode
  <2>8. PICK data, t, x : data = <<>> /\ t = TRUE /\ x = 136
    OBVIOUS
  <2>9. /\ x \in Octet /\ data \in Seq(Octet) /\ Len(data) + MaxPiece <= Web!MaxContent
        /\ l \in Seq(Octet) /\ LengthPart(l, Len(data), FALSE) /\ b = (<<x>> \o l) \o data
    <3>1. LengthPart(l, Len(data), FALSE)
      BY ONLY <1>1, <2>3, <2>8
    <3>2. b = (<<x>> \o l) \o data
      BY ONLY <2>5, <2>8
    <3> QED
      BY <1>1, <1>2, <2>2, <2>4, <2>8, <3>1, <3>2
  <2>10. /\ data \in Seq(Octet) /\ t \in BOOLEAN /\ (x \div 16) % 8 = 0 /\ x % 16 \in Web!Known /\ (x >= 128 <=> t)
         /\ (t <=> data = <<>>) /\ (t => t /\ data = <<>> /\ x % 16 = Web!Opcode.close)
    BY <1>1, <2>6, <2>7, <2>8
  <2>11. WebFrame(b, data, data \o data, t, t)
    BY ONLY <2>9, <2>10, BareFrame, ZenonT(30)
  <2>12. data \o data = data
    BY ONLY <1>1, <2>8
  <2> QED
    BY ONLY <2>8, <2>11, <2>12
<1>4. CASE b \in {Masked(<<>>, Web!Opcode.close, key, 0) : key \in Keys}
  <2>1. PICK key \in Keys : b = Masked(<<>>, 8, key, 0)
    BY <1>4 DEF Web!Opcode
  <2>2. PICK data, n, opcode : data = <<>> /\ n = 0 /\ opcode = 8
    OBVIOUS
  <2>3. /\ data \in Seq(Octet) /\ Len(data) + MaxPiece <= Web!MaxContent /\ opcode \in Opcodes \cup {8} /\ (opcode = 8 <=> data = <<>>)
        /\ key \in Keys /\ (n = 0 => Len(data) < 126) /\ (n = 2 => InTwo(Len(data))) /\ b = Masked(data, opcode, key, n)
    BY <1>1, <1>2, <2>1, <2>2
  <2>4. WebFrame(b, <<>>, data, TRUE, data = <<>>)
    BY ONLY <2>3, MaskedSent, ZenonT(30)
  <2>5. PICK t : t = (data = <<>>)
    OBVIOUS
  <2>6. t = TRUE
    BY ONLY <2>2, <2>5
  <2> QED
    BY ONLY <2>2, <2>4, <2>5, <2>6
<1> QED
  BY <1>3, <1>4
-----------------------------------------------------------------------------
(* The connection.                                                         *)
\* The records of the connection.
MessageSet == [content : Seq(Octet), close : BOOLEAN]
SentSet == [message : MessageSet, end : Nat]
FrameSet == [bytes : Seq(Octet), end : Nat, content : Seq(Octet), last : BOOLEAN, messages : Nat]

\* What there is with the first i frames, as EndOf(), MessagesOf() and Begun() of Framing say.
EndAt(fs, i) == IF i = 0 THEN 0 ELSE fs[i].end
CountAt(fs, i) == IF i = 0 THEN 0 ELSE fs[i].messages
BegunAt(fs, i) == IF i = 0 THEN <<>> ELSE IF fs[i].last THEN <<>> ELSE fs[i].content
CloseAt(fs, ss, i) == IF fs[i].last THEN ss[fs[i].messages].message.close ELSE FALSE

\* A frame as the parser of its protocol expects it.
FrameIs(p, f, begun, close) ==
  IF p = "rpc" THEN RpcFrame(f.bytes) /\ f.content = f.bytes /\ f.last /\ ~close /\ begun = <<>>
  ELSE WebFrame(f.bytes, begun, f.content, f.last, close)

\* A frame is what the parser expects behind the frames before it, and ends the message it counts.
FrameOk(p, fs, ss, i) ==
  /\ 0 < Len(fs[i].bytes)
  /\ fs[i].end = EndAt(fs, i - 1) + Len(fs[i].bytes)
  /\ fs[i].messages = CountAt(fs, i - 1) + (IF fs[i].last THEN 1 ELSE 0)
  /\ fs[i].last => /\ fs[i].messages \in 1..Len(ss) /\ ss[fs[i].messages].end = fs[i].end
                   /\ ss[fs[i].messages].message.content = fs[i].content
  /\ FrameIs(p, fs[i], BegunAt(fs, i - 1), CloseAt(fs, ss, i))
Ordered(fs, ss) ==
  /\ Len(ss) = CountAt(fs, Len(fs))
  /\ \A i \in 0..Len(fs) : EndAt(fs, i) <= EndAt(fs, Len(fs)) /\ CountAt(fs, i) <= CountAt(fs, Len(fs))
  /\ \A k \in 1..Len(ss), i \in 0..Len(fs) : k <= CountAt(fs, i) <=> ss[k].end <= EndAt(fs, i)
Line(p, fs, ss) ==
  /\ p \in {"none", "rpc", "websocket"} /\ fs \in Seq(FrameSet) /\ ss \in Seq(SentSet)
  /\ p = "none" => fs = <<>>
  /\ \A i \in 1..Len(fs) : FrameOk(p, fs, ss, i)
  /\ Ordered(fs, ss)

\* Of the bytes behind the first t, those that were read and those on their way are what was sent.
ByteAt(pc, st, n, x) ==
  /\ n \in 1..Len(pc) => pc[n] = x
  /\ n - Len(pc) \in 1..Len(st) => st[n - Len(pc)] = x
Flow(fs, pc, st, t) ==
  /\ pc \in Seq(Octet) /\ st \in Seq(Octet) /\ t \in Nat /\ Len(pc) <= MaxPiece
  /\ EndAt(fs, Len(fs)) = t + Len(pc) + Len(st)
  /\ \A i \in 1..Len(fs) : \A j \in 1..Len(fs[i].bytes) : ByteAt(pc, st, EndAt(fs, i - 1) + j - t, fs[i].bytes[j])

\* The parser is between two frames, or within one.
Ready(p, s, begun) ==
  CASE p = "rpc" -> s = Rpc!reset \/ (s \in RpcParser /\ s.finished)
    [] p = "websocket" -> WebStart(s, begun) \/ (s \in WebParser /\ s.finished /\ begun = <<>>)
    [] OTHER -> s = <<>>
Within(p, s, b, begun, o) == IF p = "rpc" THEN RpcAt(s, b, o) ELSE WebAt(s, b, begun, o)
Place(p, fs, ss, rc, rv, t, c) ==
  /\ c \in 0..Len(fs) /\ rv \in Seq(MessageSet) /\ Len(rv) = CountAt(fs, c)
  /\ \A k \in 1..Len(rv) : rv[k] = ss[k].message
  /\ EndAt(fs, c) <= t
  /\ t = EndAt(fs, c) => Ready(p, rc, BegunAt(fs, c))
  /\ t # EndAt(fs, c) => /\ c < Len(fs)
                         /\ Within(p, rc, fs[c + 1].bytes, BegunAt(fs, c), t - EndAt(fs, c))

\* The frames are in order, the bytes on their way are theirs, and the parser is where these begin.
FramingInvariant ==
  /\ Line(protocol, frames, sent)
  /\ Flow(frames, piece, stream, Taken)
  /\ \E c \in 0..Len(frames) : Place(protocol, frames, sent, receiver, received, Taken, c)

\* What process() makes of a piece that follows on the first o bytes of a frame.
FoundBy(p, q) == IF p = "rpc" THEN Message(q.parser.data, q.threw) ELSE Message(q.parser.content, q.parser.close)
Outcome(p, q, b, begun, content, last, close, o, pc) ==
  /\ ~q.threw
  /\ \/ /\ o + Len(pc) <= Len(b) /\ q.rest = <<>>
        /\ ~q.parser.finished /\ Within(p, q.parser, b, begun, o + Len(pc))
     \/ /\ Len(b) <= o + Len(pc) /\ q.rest = SubSeq(pc, Len(b) - o + 1, Len(pc))
        /\ last => q.parser.finished /\ FoundBy(p, q) = Message(content, close) /\ Ready(p, q.parser, <<>>)
        /\ ~last => ~q.parser.finished /\ Ready(p, q.parser, content)

\* A parser that has finished begins anew with the next piece.
LEMMA RpcFresh ==
  ASSUME NEW s, s.finished, NEW pc PROVE Rpc!process(s, pc) = Rpc!process(Rpc!reset, pc)
<1>1. PICK r : r = Rpc!reset
  OBVIOUS
<1>2. ~r.finished
  BY <1>1 DEF Rpc!reset
<1>3. (IF s.finished THEN Rpc!reset ELSE s) = r
  BY <1>1
<1>4. (IF r.finished THEN Rpc!reset ELSE r) = r
  BY <1>2
<1> QED
  BY ONLY <1>1, <1>3, <1>4 DEF Rpc!process

\* It has nothing of the next frame.
LEMMA RpcStarts == ASSUME NEW b, RpcFrame(b) PROVE RpcAt(Rpc!reset, b, 0)
<1>1. b \in Seq(Octet) /\ Len(b) \in Nat /\ 0 < Len(b)
  BY FrameSizes
<1>2. Rpc!reset \in RpcParser
  BY DEF Rpc!reset, RpcParser
<1>3. Rpc!reset.data = <<>> /\ Rpc!reset.finished = FALSE /\ Rpc!reset.dataProcessingStarted = FALSE
  BY DEF Rpc!reset
<1>4. SubSeq(b, 1, 0) = <<>>
  BY <1>1
<1>5. 0 \in 0..Len(b) - 1 /\ ~(8 <= 0)
  BY <1>1
<1> QED
  BY <1>2, <1>3, <1>4, <1>5 DEF RpcAt

\* A parser throws or does not.
LEMMA RpcThrows == ASSUME NEW s, NEW pc PROVE Rpc!process(s, pc).threw \in BOOLEAN
<1>1. ASSUME NEW t, NEW d PROVE Rpc!More(t, d).threw \in BOOLEAN /\ Rpc!Throw(t, d).threw \in BOOLEAN
  BY DEF Rpc!More, Rpc!Throw
<1>2. ASSUME NEW t, NEW d PROVE Rpc!Content(t, d).threw \in BOOLEAN
  BY ONLY <1>1 DEF Rpc!Content
<1>3. ASSUME NEW t, NEW d PROVE Rpc!Header(t, d).threw \in BOOLEAN
  BY ONLY <1>1, <1>2 DEF Rpc!Header
<1>4. ASSUME NEW t, NEW d PROVE Rpc!Begin(t, d).threw \in BOOLEAN
  BY ONLY <1>1, <1>2, <1>3 DEF Rpc!Begin
<1> QED
  BY ONLY <1>1, <1>2, <1>4 DEF Rpc!process

\* What process() of BinaryRpc makes of a piece.
LEMMA RpcOutcome ==
  ASSUME NEW p, p = "rpc", NEW b, RpcFrame(b), NEW begun, NEW o \in Nat, NEW s, o = 0 => Ready(p, s, begun), o # 0 => Within(p, s, b, begun, o),
         NEW pc, Follows(pc, b, o)
  PROVE  Outcome(p, Rpc!process(s, pc), b, begun, b, TRUE, FALSE, o, pc)
<1>1. PICK q : q = Rpc!process(s, pc)
  OBVIOUS
<1>2. RpcTook(q, b, o, pc)
  <2>1. CASE RpcAt(s, b, o)
    BY <1>1, <2>1, RpcStep
  <2>2. CASE o = 0 /\ s.finished
    <3>1. RpcTook(Rpc!process(Rpc!reset, pc), b, o, pc)
      BY <2>2, RpcStarts, RpcStep
    <3>2. q = Rpc!process(Rpc!reset, pc)
      BY ONLY <1>1, <2>2, RpcFresh
    <3> QED
      BY ONLY <3>1, <3>2
  <2>3. CASE o = 0 /\ s = Rpc!reset
    <3>1. RpcAt(s, b, o)
      BY ONLY <2>3, RpcFrame(b), RpcStarts
    <3> QED
      BY ONLY <2>1, <3>1
  <2> QED
    BY <2>1, <2>2, <2>3 DEF Ready, Within
<1>3. b \in Seq(Octet) /\ Len(b) \in Nat /\ pc \in Seq(Octet) /\ Len(pc) \in Nat
  BY FrameSizes DEF Follows
<1>4. PICK k \in Nat, l \in Nat : k = o + Len(pc) /\ l = Len(b)
  BY <1>3
<1>5. CASE k < l
  <2>1. RpcAt(q.parser, b, k) /\ q.rest = <<>> /\ ~q.threw
    BY ONLY <1>2, <1>4, <1>5 DEF RpcTook
  <2>2. ~q.parser.finished
    BY ONLY <2>1 DEF RpcAt
  <2>3. Within(p, q.parser, b, begun, k) /\ k <= l
    BY <1>5, <2>1 DEF Within
  <2> QED
    BY ONLY <1>1, <1>4, <2>1, <2>2, <2>3 DEF Outcome
<1>6. CASE ~(k < l)
  <2>1. /\ q.parser \in RpcParser /\ q.parser.finished /\ q.parser.data = b
        /\ q.rest = SubSeq(pc, Len(b) - o + 1, Len(pc)) /\ ~q.threw
    BY ONLY <1>2, <1>4, <1>6 DEF RpcTook
  <2>2. q.threw = FALSE
    <3>1. q.threw \in BOOLEAN
      BY ONLY <1>1, RpcThrows
    <3> QED
      BY ONLY <2>1, <3>1
  <2>3. FoundBy(p, q) = Message(b, FALSE)
    BY ONLY p = "rpc", <2>1, <2>2 DEF FoundBy
  <2>4. Ready(p, q.parser, <<>>)
    BY ONLY p = "rpc", <2>1 DEF Ready
  <2>5. l <= k
    BY ONLY <1>4, <1>6
  <2> QED
    BY ONLY <1>1, <1>4, <2>1, <2>3, <2>4, <2>5 DEF Outcome
<1> QED
  BY <1>5, <1>6

\* A parser that has finished begins anew with the next piece.
LEMMA WebFresh ==
  ASSUME NEW s, s.finished, NEW pc PROVE Web!process(s, pc) = Web!process(Web!reset, pc)
<1>1. PICK r : r = Web!reset
  OBVIOUS
<1>2. ~r.finished
  BY <1>1 DEF Web!reset
<1>3. (IF s.finished THEN Web!reset ELSE s) = r
  BY <1>1
<1>4. (IF r.finished THEN Web!reset ELSE r) = r
  BY <1>2
<1> QED
  BY ONLY <1>1, <1>3, <1>4 DEF Web!process

LEMMA WebResets == WebStart(Web!reset, <<>>)
<1>1. Web!reset \in WebParser
  BY DEF Web!reset, WebParser, Web!Opcode
<1>2. /\ Web!reset.finished = FALSE /\ Web!reset.parsed = FALSE /\ Web!reset.close = FALSE /\ Web!reset.rawHeader = <<>>
      /\ Web!reset.content = <<>> /\ Web!reset.oldContentSize = 0 /\ Web!reset.maskingKey = <<>>
  BY DEF Web!reset
<1>3. Len(<<>>) = 0
  OBVIOUS
<1> QED
  BY ONLY <1>1, <1>2, <1>3 DEF WebStart

LEMMA WebStarts ==
  ASSUME NEW b, b \in Seq(Octet), NEW begun, NEW s, WebStart(s, begun) PROVE WebAt(s, b, begun, 0)
<1>1. SubSeq(b, 1, 0) = <<>> /\ 0 \in 0..Len(b) /\ 0 <= 2
  OBVIOUS
<1> QED
  BY <1>1 DEF WebStart, WebAt, WebBefore

\* What process() of WebSocket makes of a piece.
LEMMA WebOutcome ==
  ASSUME NEW p, p = "websocket", NEW b, NEW begun, NEW content, NEW last \in BOOLEAN, NEW close \in BOOLEAN, WebFrame(b, begun, content, last, close),
         NEW o \in Nat, NEW s, o = 0 => Ready(p, s, begun), o # 0 => Within(p, s, b, begun, o),
         NEW pc, Follows(pc, b, o), Len(pc) <= MaxPiece
  PROVE  Outcome(p, Web!process(s, pc), b, begun, content, last, close, o, pc)
<1>1. PICK q : q = Web!process(s, pc)
  OBVIOUS
<1>2. b \in Seq(Octet)
  BY DEF WebFrame
<1>3. WebTook(q, b, begun, content, last, close, o, pc)
  <2>1. CASE WebAt(s, b, begun, o)
    BY <1>1, <2>1, WebStep
  <2>2. CASE o = 0 /\ s.finished /\ begun = <<>>
    <3>1. WebAt(Web!reset, b, begun, o)
      BY ONLY <1>2, <2>2, WebResets, WebStarts
    <3>2. WebTook(Web!process(Web!reset, pc), b, begun, content, last, close, o, pc)
      BY <3>1, WebStep
    <3>3. q = Web!process(Web!reset, pc)
      BY ONLY <1>1, <2>2, WebFresh
    <3> QED
      BY ONLY <3>2, <3>3
  <2>3. CASE o = 0 /\ WebStart(s, begun)
    <3>1. WebAt(s, b, begun, o)
      BY ONLY <1>2, <2>3, WebStarts
    <3> QED
      BY ONLY <2>1, <3>1
  <2>4. o = 0 => WebStart(s, begun) \/ (s.finished /\ begun = <<>>)
    BY DEF Ready
  <2>5. o # 0 => WebAt(s, b, begun, o)
    BY DEF Within
  <2> QED
    BY ONLY <2>1, <2>2, <2>3, <2>4, <2>5
<1>4. CASE WebMore(q, b, begun, o, pc)
  <2>1. o + Len(pc) <= Len(b) /\ WebAt(q.parser, b, begun, o + Len(pc)) /\ q.rest = <<>>
    BY ONLY <1>4 DEF WebMore
  <2>2. ~q.parser.finished
    BY ONLY <2>1 DEF WebAt, WebBefore, WebBehind
  <2>3. Within(p, q.parser, b, begun, o + Len(pc))
    BY ONLY p = "websocket", <2>1 DEF Within
  <2> QED
    BY ONLY <1>1, <1>3, <2>1, <2>2, <2>3 DEF Outcome, WebTook
<1>5. CASE WebDone(q, b, content, last, close, o, pc)
  <2>1. Len(b) <= o + Len(pc) /\ q.rest = SubSeq(pc, Len(b) - o + 1, Len(pc))
    BY ONLY <1>5 DEF WebDone
  <2>2. CASE last
    <3>1. q.parser \in WebParser /\ q.parser.finished /\ q.parser.content = content /\ q.parser.close = close
      BY ONLY <1>5, <2>2 DEF WebDone
    <3>2. FoundBy(p, q) = Message(content, close) /\ Ready(p, q.parser, <<>>)
      BY ONLY p = "websocket", <3>1 DEF FoundBy, Ready
    <3> QED
      BY ONLY <1>1, <1>3, <2>1, <2>2, <3>1, <3>2 DEF Outcome, WebTook
  <2>3. CASE ~last
    <3>1. WebStart(q.parser, content)
      BY ONLY <1>5, <2>3 DEF WebDone
    <3>2. ~q.parser.finished /\ Ready(p, q.parser, content)
      BY ONLY p = "websocket", <3>1 DEF WebStart, Ready
    <3> QED
      BY ONLY <1>1, <1>3, <2>1, <2>3, <3>1, <3>2 DEF Outcome, WebTook
  <2> QED
    BY ONLY <2>2, <2>3
<1> QED
  BY ONLY <1>3, <1>4, <1>5 DEF WebTook

LEMMA AppendIs ==
  ASSUME NEW S, NEW fs \in Seq(S), NEW f \in S, NEW gs, gs = Append(fs, f)
  PROVE  /\ gs \in Seq(S) /\ Len(fs) \in Nat /\ Len(gs) = Len(fs) + 1 /\ gs[Len(fs) + 1] = f
         /\ \A i \in 1..Len(fs) : gs[i] = fs[i]
  OBVIOUS

\* What there is with the frames so far does not change with one more.
LEMMA AtKept ==
  ASSUME NEW n \in Nat, NEW fs, NEW gs, \A i \in 1..n : gs[i] = fs[i], NEW i \in 0..n
  PROVE  EndAt(gs, i) = EndAt(fs, i) /\ CountAt(gs, i) = CountAt(fs, i) /\ BegunAt(gs, i) = BegunAt(fs, i)
<1>1. i = 0 \/ (i \in 1..n /\ i # 0)
  OBVIOUS
<1> QED
  BY <1>1 DEF EndAt, CountAt, BegunAt

LEMMA AtIs ==
  ASSUME NEW fs \in Seq(FrameSet), NEW i \in 0..Len(fs)
  PROVE  EndAt(fs, i) \in Nat /\ CountAt(fs, i) \in Nat /\ BegunAt(fs, i) \in Seq(Octet)
<1>1. CASE i = 0
  <2>1. <<>> \in Seq(Octet)
    OBVIOUS
  <2> QED
    BY <1>1, <2>1 DEF EndAt, CountAt, BegunAt
<1>2. CASE i # 0
  <2>1. i \in 1..Len(fs)
    BY <1>2
  <2>2. fs[i] \in FrameSet
    BY <2>1, ElementOfSeq
  <2>3. fs[i].end \in Nat /\ fs[i].messages \in Nat /\ fs[i].content \in Seq(Octet) /\ <<>> \in Seq(Octet)
    BY <2>2 DEF FrameSet
  <2> QED
    BY <1>2, <2>3 DEF EndAt, CountAt, BegunAt
<1> QED
  BY <1>1, <1>2

\* One more frame of the protocol.
Sends(p0, p, fs, f, close) ==
  /\ p \in {"rpc", "websocket"} /\ p0 \in {"none", p} /\ f \in FrameSet /\ close \in BOOLEAN
  /\ 0 < Len(f.bytes) /\ f.end = EndAt(fs, Len(fs)) + Len(f.bytes)
  /\ f.messages = CountAt(fs, Len(fs)) + (IF f.last THEN 1 ELSE 0)
  /\ FrameIs(p, f, BegunAt(fs, Len(fs)), close) /\ (~f.last => ~close)
Told(ss, f, close) == IF f.last THEN Append(ss, [message |-> Message(f.content, close), end |-> f.end]) ELSE ss

Tells(ss, ts, f, close, l) ==
  /\ ts \in Seq(SentSet) /\ l \in Nat /\ Len(ts) = l + (IF f.last THEN 1 ELSE 0)
  /\ \A k \in 1..l : ts[k] = ss[k]
  /\ f.last => ts[l + 1].end = f.end /\ ts[l + 1].message.content = f.content /\ ts[l + 1].message.close = close
LEMMA ToldIs ==
  ASSUME NEW ss \in Seq(SentSet), NEW f \in FrameSet, NEW close \in BOOLEAN, NEW ts, ts = Told(ss, f, close)
  PROVE  Tells(ss, ts, f, close, Len(ss))
<1>1. PICK m : m = [message |-> Message(f.content, close), end |-> f.end]
  OBVIOUS
<1>2. m \in SentSet /\ m.end = f.end /\ m.message.content = f.content /\ m.message.close = close
  <2>1. f.content \in Seq(Octet) /\ f.end \in Nat
    BY DEF FrameSet
  <2>2. Message(f.content, close) \in MessageSet
    BY <2>1 DEF Message, MessageSet
  <2>3. m.message = Message(f.content, close) /\ m.end = f.end /\ m \in SentSet
    BY <1>1, <2>1, <2>2 DEF SentSet
  <2> QED
    BY <2>3 DEF Message
<1>3. CASE f.last
  <2>1. ts = Append(ss, m)
    BY <1>1, <1>3 DEF Told
  <2>2. /\ ts \in Seq(SentSet) /\ Len(ss) \in Nat /\ Len(ts) = Len(ss) + 1 /\ ts[Len(ss) + 1] = m
        /\ \A k \in 1..Len(ss) : ts[k] = ss[k]
    BY <1>2, <2>1, AppendIs
  <2> QED
    BY <1>2, <1>3, <2>2 DEF Tells
<1>4. CASE ~f.last
  <2>1. ts = ss /\ Len(ss) \in Nat
    BY <1>4 DEF Told
  <2> QED
    BY <1>4, <2>1 DEF Tells
<1> QED
  BY <1>3, <1>4

\* A frame that is sent keeps the line of the frames in order.
LEMMA LineGrows ==
  ASSUME NEW p0, NEW fs, NEW ss, Line(p0, fs, ss), NEW p, NEW f, NEW close, Sends(p0, p, fs, f, close),
         NEW gs, gs = Append(fs, f), NEW ts, ts = Told(ss, f, close)
  PROVE  Line(p, gs, ts)
<1>1. /\ p0 \in {"none", p} /\ p \in {"rpc", "websocket"} /\ f \in FrameSet /\ close \in BOOLEAN
      /\ fs \in Seq(FrameSet) /\ ss \in Seq(SentSet) /\ Ordered(fs, ss) /\ (p0 = "none" => fs = <<>>)
  BY DEF Line, Sends
<1>2. PICK n \in Nat, l \in Nat : n = Len(fs) /\ l = Len(ss)
  BY <1>1
<1>3. gs \in Seq(FrameSet) /\ Len(gs) = n + 1 /\ gs[n + 1] = f /\ \A i \in 1..n : gs[i] = fs[i]
  BY <1>1, <1>2, AppendIs
<1>4. /\ ts \in Seq(SentSet) /\ Len(ts) = l + (IF f.last THEN 1 ELSE 0) /\ \A k \in 1..l : ts[k] = ss[k]
      /\ f.last => ts[l + 1].end = f.end /\ ts[l + 1].message.content = f.content /\ ts[l + 1].message.close = close
  <2>1. Tells(ss, ts, f, close, Len(ss))
    BY ONLY <1>1, ts = Told(ss, f, close), ToldIs
  <2>2. Tells(ss, ts, f, close, l)
    BY ONLY <1>2, <2>1
  <2> QED
    BY ONLY <2>2 DEF Tells
<1>5. \A i \in 0..n : EndAt(gs, i) = EndAt(fs, i) /\ CountAt(gs, i) = CountAt(fs, i) /\ BegunAt(gs, i) = BegunAt(fs, i)
  <2> TAKE i \in 0..n
  <2>1. n \in Nat /\ (\A j \in 1..n : gs[j] = fs[j]) /\ i \in 0..n
    BY <1>2, <1>3
  <2> QED
    BY ONLY <2>1, AtKept
<1>6. \A i \in 1..n : FrameOk(p, fs, ss, i)
  <2>1. CASE p0 = p
    BY <1>2, <2>1 DEF Line
  <2>2. CASE p0 = "none"
    <3>1. n = 0
      BY <1>1, <1>2, <2>2
    <3> QED
      BY <3>1
  <2> QED
    BY <1>1, <2>1, <2>2
<1>7. ASSUME NEW i \in 1..n PROVE FrameOk(p, gs, ts, i)
  <2>1. gs[i] = fs[i] /\ i - 1 \in 0..n
    BY <1>3
  <2>2. EndAt(gs, i - 1) = EndAt(fs, i - 1) /\ CountAt(gs, i - 1) = CountAt(fs, i - 1) /\ BegunAt(gs, i - 1) = BegunAt(fs, i - 1)
    BY <1>5, <2>1
  <2>3. PICK m : m = fs[i].messages
    OBVIOUS
  <2>4. fs[i].last => m \in 1..l /\ m \in 1..Len(ts) /\ ts[m] = ss[m]
    <3>1. fs[i].last => m \in 1..l
      BY <1>2, <1>6, <2>3 DEF FrameOk
    <3> QED
      BY <1>4, <3>1
  <2>5. CloseAt(gs, ts, i) = CloseAt(fs, ss, i)
    BY <2>1, <2>3, <2>4 DEF CloseAt
  <2>6. FrameOk(p, fs, ss, i)
    BY <1>6
  <2> QED
    BY ONLY <2>1, <2>2, <2>3, <2>4, <2>5, <2>6 DEF FrameOk
<1>8. l = CountAt(fs, n)
  BY <1>1, <1>2 DEF Ordered
<1>9. PICK j \in Nat : j = n + 1
  OBVIOUS
<1>10. FrameOk(p, gs, ts, j)
  <2>1. j - 1 = n /\ gs[j] = f
    BY <1>3, <1>9
  <2>2. EndAt(gs, j - 1) = EndAt(fs, n) /\ CountAt(gs, j - 1) = l /\ BegunAt(gs, j - 1) = BegunAt(fs, n)
    BY <1>5, <1>8, <2>1
  <2>3. /\ 0 < Len(f.bytes) /\ f.end = EndAt(fs, n) + Len(f.bytes)
        /\ f.messages = l + (IF f.last THEN 1 ELSE 0)
        /\ FrameIs(p, f, BegunAt(fs, n), close) /\ (~f.last => ~close)
    BY <1>2, <1>8 DEF Sends
  <2>4. f.last => f.messages = l + 1 /\ f.messages \in 1..Len(ts)
    BY <1>4, <2>3
  <2>5. CloseAt(gs, ts, j) = close
    BY <1>1, <1>4, <2>1, <2>3, <2>4 DEF CloseAt
  <2>6. f.last => ts[f.messages].end = f.end /\ ts[f.messages].message.content = f.content
    BY <1>4, <2>4
  <2> QED
    BY ONLY <2>1, <2>2, <2>3, <2>4, <2>5, <2>6 DEF FrameOk
<1>11. EndAt(gs, j) = f.end /\ CountAt(gs, j) = f.messages /\ f.end \in Nat /\ f.messages \in Nat
  <2>1. j # 0 /\ gs[j] = f
    BY <1>3, <1>9
  <2> QED
    BY <1>1, <2>1 DEF EndAt, CountAt, FrameSet
<1>12. Len(ts) = f.messages /\ EndAt(fs, n) < f.end /\ l <= f.messages /\ EndAt(fs, n) \in Nat
  <2>1. EndAt(fs, n) \in Nat
    BY <1>1, <1>2, AtIs
  <2>2. f.messages = l + (IF f.last THEN 1 ELSE 0) /\ f.end = EndAt(fs, n) + Len(f.bytes) /\ 0 < Len(f.bytes) /\ Len(f.bytes) \in Nat
    BY <1>1, <1>2, <1>8 DEF Sends, FrameSet
  <2> QED
    BY <1>4, <2>1, <2>2
<1>13. ASSUME NEW i \in 0..n
       PROVE  /\ EndAt(fs, i) <= EndAt(fs, n) /\ CountAt(fs, i) <= l /\ EndAt(fs, i) \in Nat /\ CountAt(fs, i) \in Nat
  <2>1. EndAt(fs, i) \in Nat /\ CountAt(fs, i) \in Nat
    BY <1>1, <1>2, AtIs
  <2>2. EndAt(fs, i) <= EndAt(fs, n) /\ CountAt(fs, i) <= CountAt(fs, n)
    BY <1>1, <1>2 DEF Ordered
  <2> QED
    BY <1>8, <2>1, <2>2
<1>14. ASSUME NEW i \in 0..j
       PROVE  EndAt(gs, i) <= EndAt(gs, j) /\ CountAt(gs, i) <= CountAt(gs, j)
  <2>1. CASE i = j
    BY <1>11, <2>1
  <2>2. CASE i # j
    <3>1. i \in 0..n
      BY <1>9, <2>2
    <3> QED
      BY <1>5, <1>11, <1>12, <1>13, <3>1, SMTT(40)
  <2> QED
    BY <2>1, <2>2
<1>15. ASSUME NEW k \in 1..Len(ts), NEW i \in 0..j
       PROVE  k <= CountAt(gs, i) <=> ts[k].end <= EndAt(gs, i)
  <2>1. CASE k <= l
    <3>1. k \in 1..l /\ ts[k] = ss[k]
      BY <1>4, <2>1
    <3>2. \A a \in 0..n : k <= CountAt(fs, a) <=> ss[k].end <= EndAt(fs, a)
      BY <1>1, <1>2, <3>1 DEF Ordered
    <3>3. CASE i \in 0..n
      BY <1>5, <3>1, <3>2, <3>3
    <3>4. CASE i = j
      <4>1. ss[k].end <= EndAt(fs, n)
        BY <1>8, <2>1, <3>2
      <4>2. ss[k].end \in Nat
        <5>1. ss[k] \in SentSet
          BY <1>1, <1>2, <3>1, ElementOfSeq
        <5> QED
          BY <5>1 DEF SentSet
      <4> QED
        BY <1>11, <1>12, <2>1, <3>1, <3>4, <4>1, <4>2
    <3> QED
      BY <1>9, <3>3, <3>4
  <2>2. CASE ~(k <= l)
    <3>1. f.last /\ k = l + 1 /\ ts[k].end = f.end /\ k = Len(ts)
      BY <1>4, <2>2
    <3>2. CASE i \in 0..n
      <4>1. PICK x, y : x = EndAt(fs, i) /\ y = CountAt(fs, i)
        OBVIOUS
      <4>2. EndAt(gs, i) = x /\ CountAt(gs, i) = y
        BY ONLY <1>5, <3>2, <4>1
      <4>3. x \in Nat /\ y \in Nat /\ x <= EndAt(fs, n) /\ y <= l
        BY ONLY <1>13, <3>2, <4>1
      <4>4. ~(f.end <= x) /\ ~(k <= y)
        BY <1>11, <1>12, <2>2, <4>3
      <4> QED
        BY ONLY <3>1, <4>2, <4>4
    <3>3. CASE i = j
      BY <1>11, <1>12, <3>1, <3>3
    <3> QED
      BY <1>9, <3>2, <3>3
  <2> QED
    BY <2>1, <2>2
<1>16. Len(gs) = j
  BY <1>3, <1>9
<1>17. Ordered(gs, ts)
  BY ONLY <1>11, <1>12, <1>14, <1>15, <1>16 DEF Ordered
<1>18. ASSUME NEW i \in 1..Len(gs) PROVE FrameOk(p, gs, ts, i)
  <2>1. i \in 1..n \/ i = j
    BY <1>9, <1>16
  <2> QED
    BY ONLY <1>7, <1>10, <2>1
<1> QED
  BY ONLY <1>1, <1>3, <1>4, <1>17, <1>18 DEF Line

\* A frame ends before or at the end of all.
LEMMA FrameEnds ==
  ASSUME NEW p, NEW fs, NEW ss, Line(p, fs, ss), NEW i \in 1..Len(fs)
  PROVE  /\ fs[i].bytes \in Seq(Octet) /\ i - 1 \in 0..Len(fs) /\ i \in 0..Len(fs) /\ EndAt(fs, i - 1) \in Nat /\ EndAt(fs, Len(fs)) \in Nat
         /\ EndAt(fs, i) = EndAt(fs, i - 1) + Len(fs[i].bytes) /\ EndAt(fs, i) <= EndAt(fs, Len(fs))
<1>1. fs \in Seq(FrameSet) /\ FrameOk(p, fs, ss, i) /\ Ordered(fs, ss)
  BY DEF Line
<1>2. fs[i] \in FrameSet
  BY <1>1, ElementOfSeq
<1>3. fs[i].bytes \in Seq(Octet)
  BY <1>2 DEF FrameSet
<1>4. i - 1 \in 0..Len(fs) /\ i \in 0..Len(fs) /\ Len(fs) \in 0..Len(fs) /\ i # 0
  BY <1>1
<1>5. EndAt(fs, i - 1) \in Nat /\ EndAt(fs, Len(fs)) \in Nat
  BY <1>1, <1>4, AtIs
<1>6. EndAt(fs, i) = fs[i].end
  BY <1>4 DEF EndAt
<1>7. fs[i].end = EndAt(fs, i - 1) + Len(fs[i].bytes)
  BY <1>1 DEF FrameOk
<1>8. EndAt(fs, i) <= EndAt(fs, Len(fs))
  BY <1>1, <1>4 DEF Ordered
<1> QED
  BY <1>3, <1>4, <1>5, <1>6, <1>7, <1>8

\* Sending, reading and taking bytes keep what is on its way.
LEMMA FlowGrows ==
  ASSUME NEW p0, NEW fs, NEW ss, Line(p0, fs, ss), NEW p, NEW f, NEW close, Sends(p0, p, fs, f, close),
         NEW pc, NEW st, NEW t, Flow(fs, pc, st, t), NEW gs, gs = Append(fs, f), NEW su, su = st \o f.bytes
  PROVE  Flow(gs, pc, su, t)
<1>1. pc \in Seq(Octet) /\ st \in Seq(Octet) /\ t \in Nat /\ Len(pc) <= MaxPiece /\ EndAt(fs, Len(fs)) = t + Len(pc) + Len(st)
  BY DEF Flow
<1>2. fs \in Seq(FrameSet) /\ f \in FrameSet /\ f.bytes \in Seq(Octet) /\ f.end = EndAt(fs, Len(fs)) + Len(f.bytes)
  BY DEF Line, Sends, FrameSet
<1>3. PICK n \in Nat, l \in Nat, m \in Nat, a \in Nat : n = Len(fs) /\ l = Len(pc) /\ m = Len(st) /\ a = Len(f.bytes)
  BY <1>1, <1>2
<1>4. gs \in Seq(FrameSet) /\ Len(gs) = n + 1 /\ gs[n + 1] = f /\ \A i \in 1..n : gs[i] = fs[i]
  BY <1>2, <1>3, AppendIs
<1>5. ASSUME NEW i \in 0..n PROVE EndAt(gs, i) = EndAt(fs, i)
  <2>1. n \in Nat /\ (\A k \in 1..n : gs[k] = fs[k]) /\ i \in 0..n
    BY ONLY <1>3, <1>4, i \in 0..n
  <2> QED
    BY ONLY <2>1, AtKept
<1>6. su \in Seq(Octet) /\ Len(su) = m + a /\ (\A j \in 1..m : su[j] = st[j]) /\ \A j \in 1..a : su[m + j] = f.bytes[j]
  <2>1. f.bytes \in Seq(Octet) /\ st \in Seq(Octet)
    BY <1>1, <1>2
  <2>2. Joins(su, st, m, f.bytes, a)
    BY ONLY <1>3, <2>1, JoinIs, su = st \o f.bytes
  <2> QED
    BY ONLY <2>2 DEF Joins, Starts, Ends
<1>7. ASSUME NEW i \in 1..n, NEW j \in 1..Len(fs[i].bytes) PROVE ByteAt(pc, su, EndAt(gs, i - 1) + j - t, gs[i].bytes[j])
  <2>1. /\ fs[i].bytes \in Seq(Octet) /\ i - 1 \in 0..n /\ EndAt(fs, i - 1) \in Nat
        /\ EndAt(fs, i) = EndAt(fs, i - 1) + Len(fs[i].bytes) /\ EndAt(fs, i) <= EndAt(fs, n)
    BY <1>3, FrameEnds
  <2>2. PICK x \in Int : x = EndAt(fs, i - 1) + j - t
    BY <1>1, <2>1
  <2>3. x <= l + m
    <3>1. PICK e, g : e = EndAt(fs, i - 1) /\ g = EndAt(fs, n)
      OBVIOUS
    <3>2. /\ e \in Nat /\ l \in Nat /\ m \in Nat /\ t \in Nat /\ g = t + l + m /\ x = e + j - t
          /\ e + Len(fs[i].bytes) <= g /\ j \in Nat /\ j <= Len(fs[i].bytes) /\ Len(fs[i].bytes) \in Nat
      BY <1>1, <1>3, <2>1, <2>2, <3>1
    <3> QED
      BY ONLY <3>2
  <2>4. ByteAt(pc, st, x, fs[i].bytes[j])
    BY <1>3, <2>2 DEF Flow
  <2>5. x - l \in 1..Len(su) => x - l \in 1..m
    BY <1>6, <2>3
  <2>6. ByteAt(pc, su, x, fs[i].bytes[j])
    BY ONLY <1>3, <1>6, <2>4, <2>5 DEF ByteAt
  <2> QED
    BY ONLY <1>4, <1>5, <2>1, <2>2, <2>6
<1>8. ASSUME NEW j \in 1..a PROVE ByteAt(pc, su, EndAt(gs, n) + j - t, f.bytes[j])
  <2>1. EndAt(gs, n) + j - t = l + m + j
    BY <1>1, <1>3, <1>5
  <2>2. ~(l + m + j \in 1..l) /\ l + m + j - l = m + j
    BY <1>3
  <2> QED
    <3>1. PICK y, z : y = EndAt(gs, n) + j - t /\ z = f.bytes[j] /\ y = l + m + j /\ su[m + j] = z
      BY ONLY <1>6, <2>1, j \in 1..a
    <3>2. ~(y \in 1..Len(pc)) /\ y - Len(pc) = m + j
      BY ONLY <1>3, <2>2, <3>1
    <3>3. ByteAt(pc, su, y, z)
      BY ONLY <3>1, <3>2 DEF ByteAt
    <3> QED
      BY ONLY <3>1, <3>3
<1>9. EndAt(gs, Len(gs)) = t + Len(pc) + Len(su)
  <2>1. EndAt(gs, n + 1) = f.end
    BY <1>3, <1>4 DEF EndAt
  <2> QED
    <3>1. PICK e : e = EndAt(fs, Len(fs))
      OBVIOUS
    <3>2. e = t + l + m /\ f.end = e + a /\ Len(su) = m + a
      BY ONLY <1>1, <1>2, <1>3, <1>6, <3>1
    <3>3. f.end = t + l + (m + a)
      <4>1. t \in Int /\ l \in Int /\ m \in Int /\ a \in Int /\ e \in Int
        BY ONLY <1>1, <1>3, <3>2
      <4> QED
        BY ONLY <3>2, <4>1
    <3> QED
      BY ONLY <1>3, <1>4, <2>1, <3>2, <3>3
<1>10. ASSUME NEW i \in 1..Len(gs), NEW j \in 1..Len(gs[i].bytes) PROVE ByteAt(pc, su, EndAt(gs, i - 1) + j - t, gs[i].bytes[j])
  <2>1. CASE i \in 1..n
    <3>1. j \in 1..Len(fs[i].bytes)
      BY <1>4, <2>1
    <3> QED
      BY <1>7, <2>1, <3>1
  <2>2. CASE i = n + 1
    <3>1. gs[i] = f /\ i - 1 = n
      BY <1>3, <1>4, <2>2
    <3>2. j \in 1..a
      BY <1>3, <3>1
    <3> QED
      BY <1>8, <3>1, <3>2
  <2> QED
    BY <1>3, <1>4, <2>1, <2>2
<1> QED
  BY ONLY <1>1, <1>6, <1>9, <1>10 DEF Flow

LEMMA FlowRead ==
  ASSUME NEW p, NEW fs, NEW ss, Line(p, fs, ss), NEW st, NEW t, NEW pc, pc = <<>>, Flow(fs, pc, st, t), NEW n \in 1..MaxPiece, n <= Len(st),
         NEW pd, pd = SubSeq(st, 1, n), NEW su, su = SubSeq(st, n + 1, Len(st))
  PROVE  Flow(fs, pd, su, t)
<1>1. st \in Seq(Octet) /\ t \in Nat /\ EndAt(fs, Len(fs)) = t + Len(pc) + Len(st) /\ MaxPiece \in Nat
  BY FramingAssumption DEF Flow
<1>2. PICK m \in Nat, k \in Nat : m = Len(st) /\ k = n
  BY <1>1
<1>3. /\ pd \in Seq(Octet) /\ Len(pd) = k /\ \A j \in 1..k : pd[j] = st[j]
      /\ su \in Seq(Octet) /\ Len(su) = m - k /\ \A j \in 1..m - k : su[j] = st[k + j]
  BY <1>1, <1>2, TakenSplit
<1>4. Len(pc) = 0 /\ k <= m /\ k <= MaxPiece
  BY <1>2
<1>5. ASSUME NEW i \in 1..Len(fs), NEW j \in 1..Len(fs[i].bytes) PROVE ByteAt(pd, su, EndAt(fs, i - 1) + j - t, fs[i].bytes[j])
  <2>1. EndAt(fs, i - 1) \in Nat
    BY FrameEnds
  <2>2. PICK x \in Int : x = EndAt(fs, i - 1) + j - t
    BY <1>1, <2>1
  <2>3. ByteAt(pc, st, x, fs[i].bytes[j])
    BY <2>2 DEF Flow
  <2>4. x \in 1..m => st[x] = fs[i].bytes[j]
    <3>1. x - 0 = x
      OBVIOUS
    <3> QED
      BY ONLY <1>2, <1>4, <2>3, <3>1 DEF ByteAt
  <2>5. x \in 1..k => pd[x] = fs[i].bytes[j]
    <3>1. x \in 1..k => x \in 1..m
      BY <1>4
    <3> QED
      BY <1>3, <2>4, <3>1
  <2>6. x - k \in 1..m - k => su[x - k] = fs[i].bytes[j]
    <3>1. x - k \in 1..m - k => x \in 1..m /\ k + (x - k) = x
      BY <1>4
    <3> QED
      BY <1>3, <2>4, <3>1
  <2> QED
    BY ONLY <1>3, <2>2, <2>5, <2>6 DEF ByteAt
<1>6. Len(pd) <= MaxPiece /\ EndAt(fs, Len(fs)) = t + Len(pd) + Len(su)
  <2>1. PICK e : e = EndAt(fs, Len(fs))
    OBVIOUS
  <2>2. e = t + 0 + m /\ Len(pd) = k /\ Len(su) = m - k
    BY ONLY <1>1, <1>2, <1>3, <1>4, <2>1
  <2>3. k <= MaxPiece /\ e = t + k + (m - k)
    BY ONLY <1>1, <1>2, <1>4, <2>2
  <2> QED
    BY ONLY <1>2, <1>4, <2>1, <2>2, <2>3
<1> QED
  BY ONLY <1>1, <1>3, <1>5, <1>6 DEF Flow

LEMMA FlowTaken ==
  ASSUME NEW p, NEW fs, NEW ss, Line(p, fs, ss), NEW pc, NEW st, NEW t, Flow(fs, pc, st, t), NEW m \in Nat, m <= Len(pc),
         NEW pd, pd = SubSeq(pc, m + 1, Len(pc)), NEW u, u = t + m
  PROVE  Flow(fs, pd, st, u)
<1>1. pc \in Seq(Octet) /\ st \in Seq(Octet) /\ t \in Nat /\ Len(pc) <= MaxPiece /\ EndAt(fs, Len(fs)) = t + Len(pc) + Len(st) /\ MaxPiece \in Nat
  BY FramingAssumption DEF Flow
<1>2. PICK l \in Nat : l = Len(pc)
  BY <1>1
<1>3. pd \in Seq(Octet) /\ Len(pd) = l - m /\ \A j \in 1..l - m : pd[j] = pc[m + j]
  BY <1>1, <1>2, TakenSplit
<1>4. ASSUME NEW i \in 1..Len(fs), NEW j \in 1..Len(fs[i].bytes) PROVE ByteAt(pd, st, EndAt(fs, i - 1) + j - u, fs[i].bytes[j])
  <2>1. EndAt(fs, i - 1) \in Nat
    BY FrameEnds
  <2>2. PICK x \in Int : x = EndAt(fs, i - 1) + j - t
    BY <1>1, <2>1
  <2>3. ByteAt(pc, st, x, fs[i].bytes[j])
    BY <2>2 DEF Flow
  <2>4. PICK y \in Int : y = x - m /\ y = EndAt(fs, i - 1) + j - u
    <3>1. PICK a \in Nat, b \in Nat : a = EndAt(fs, i - 1) /\ b = j
      BY <2>1
    <3>2. x = a + b - t /\ x - m = a + b - (t + m)
      BY ONLY <1>1, <2>2, <3>1, m \in Nat
    <3> QED
      BY ONLY <3>1, <3>2, <2>2, m \in Nat, u = t + m
  <2>5. y \in 1..l - m => pd[y] = fs[i].bytes[j]
    <3>1. y \in 1..l - m => x \in 1..l /\ m + y = x
      BY <1>2, <2>4
    <3>2. x \in 1..l => pc[x] = fs[i].bytes[j]
      BY ONLY <1>2, <2>3 DEF ByteAt
    <3> QED
      BY ONLY <1>3, <3>1, <3>2
  <2>6. y - (l - m) \in 1..Len(st) => st[y - (l - m)] = fs[i].bytes[j]
    <3>1. y - (l - m) = x - l
      BY <1>2, <2>4
    <3>2. x - l \in 1..Len(st) => st[x - l] = fs[i].bytes[j]
      BY ONLY <1>2, <2>3 DEF ByteAt
    <3> QED
      BY ONLY <3>1, <3>2
  <2> QED
    BY ONLY <1>3, <2>4, <2>5, <2>6 DEF ByteAt
<1>5. u \in Nat /\ Len(pd) <= MaxPiece /\ EndAt(fs, Len(fs)) = u + Len(pd) + Len(st)
  <2>1. PICK e, k \in Nat : e = EndAt(fs, Len(fs)) /\ k = Len(st)
    BY <1>1
  <2>2. e = t + l + k /\ Len(pd) = l - m /\ m <= l /\ l <= MaxPiece
    BY ONLY <1>1, <1>2, <1>3, <2>1, m <= Len(pc)
  <2>3. t + m \in Nat /\ l - m <= MaxPiece /\ e = (t + m) + (l - m) + k
    BY ONLY <1>1, <1>2, <2>1, <2>2, m \in Nat
  <2> QED
    BY ONLY <2>1, <2>2, <2>3, u = t + m
<1> QED
  BY ONLY <1>1, <1>3, <1>4, <1>5 DEF Flow

\* What was read follows on what was taken.
LEMMA FlowFollows ==
  ASSUME NEW p, NEW fs, NEW ss, Line(p, fs, ss), NEW pc, NEW st, NEW t, Flow(fs, pc, st, t),
         NEW c \in 0..Len(fs), c < Len(fs), NEW o \in Nat, t = EndAt(fs, c) + o
  PROVE  Follows(pc, fs[c + 1].bytes, o)
<1>1. PICK i \in 1..Len(fs) : i = c + 1 /\ i - 1 = c
  <2>1. c + 1 \in 1..Len(fs) /\ c + 1 - 1 = c
    BY DEF Line
  <2> QED
    BY <2>1
<1>2. pc \in Seq(Octet) /\ fs[i].bytes \in Seq(Octet) /\ EndAt(fs, c) \in Nat
  BY <1>1, FrameEnds DEF Flow
<1>3. ASSUME NEW j \in 1..Len(pc), o + j <= Len(fs[i].bytes) PROVE pc[j] = fs[i].bytes[o + j]
  <2>1. o + j \in 1..Len(fs[i].bytes)
    BY <1>2, <1>3
  <2>2. ByteAt(pc, st, EndAt(fs, i - 1) + (o + j) - t, fs[i].bytes[o + j])
    BY <2>1 DEF Flow
  <2>3. EndAt(fs, i - 1) + (o + j) - t = j
    BY <1>1, <1>2
  <2> QED
    BY ONLY <1>2, <2>2, <2>3, j \in 1..Len(pc) DEF ByteAt
<1> QED
  BY <1>1, <1>2, <1>3 DEF Follows

\* The place of the parser stays when a frame is sent.
LEMMA PlaceGrows ==
  ASSUME NEW p0, NEW fs, NEW ss, Line(p0, fs, ss), NEW p, NEW f, NEW close, Sends(p0, p, fs, f, close),
         NEW rc, NEW rv, NEW t, NEW c, Place(p0, fs, ss, rc, rv, t, c), NEW gs, gs = Append(fs, f), NEW ts, ts = Told(ss, f, close),
         NEW rd, rd = (IF p0 = p THEN rc ELSE IF p = "rpc" THEN Rpc!reset ELSE Web!reset)
  PROVE  Place(p, gs, ts, rd, rv, t, c)
<1>1. /\ c \in 0..Len(fs) /\ rv \in Seq(MessageSet) /\ Len(rv) = CountAt(fs, c)
      /\ \A k \in 1..Len(rv) : rv[k] = ss[k].message
      /\ EndAt(fs, c) <= t
      /\ t = EndAt(fs, c) => Ready(p0, rc, BegunAt(fs, c))
      /\ t # EndAt(fs, c) => c < Len(fs) /\ Within(p0, rc, fs[c + 1].bytes, BegunAt(fs, c), t - EndAt(fs, c))
  BY DEF Place
<1>2. /\ p0 \in {"none", p} /\ p \in {"rpc", "websocket"} /\ f \in FrameSet /\ close \in BOOLEAN
      /\ fs \in Seq(FrameSet) /\ ss \in Seq(SentSet) /\ Ordered(fs, ss) /\ (p0 = "none" => fs = <<>>)
  BY DEF Line, Sends
<1>3. PICK n \in Nat, l \in Nat : n = Len(fs) /\ l = Len(ss)
  BY <1>2
<1>4. gs \in Seq(FrameSet) /\ Len(gs) = n + 1 /\ gs[n + 1] = f /\ \A i \in 1..n : gs[i] = fs[i]
  BY <1>2, <1>3, AppendIs
<1>5. \A k \in 1..l : ts[k] = ss[k]
  <2>1. Tells(ss, ts, f, close, Len(ss))
    BY ONLY <1>2, ts = Told(ss, f, close), ToldIs
  <2> QED
    BY ONLY <1>3, <2>1 DEF Tells
<1>6. EndAt(gs, c) = EndAt(fs, c) /\ CountAt(gs, c) = CountAt(fs, c) /\ BegunAt(gs, c) = BegunAt(fs, c)
  <2>1. n \in Nat /\ (\A i \in 1..n : gs[i] = fs[i]) /\ c \in 0..n
    BY ONLY <1>1, <1>3, <1>4
  <2> QED
    BY ONLY <2>1, AtKept
<1>7. \A k \in 1..Len(rv) : rv[k] = ts[k].message
  <2>1. CountAt(fs, c) <= l /\ CountAt(fs, c) \in Nat
    <3>1. CountAt(fs, c) <= CountAt(fs, Len(fs)) /\ CountAt(fs, Len(fs)) = l
      BY ONLY <1>1, <1>2, <1>3 DEF Ordered
    <3>2. CountAt(fs, c) \in Nat
      BY ONLY <1>1, <1>2, AtIs
    <3> QED
      BY ONLY <3>1, <3>2
  <2>2. ASSUME NEW k \in 1..Len(rv) PROVE rv[k] = ts[k].message
    <3>1. k \in 1..l
      BY <1>1, <2>1
    <3> QED
      BY ONLY <1>1, <1>5, <3>1, k \in 1..Len(rv)
  <2> QED
    BY <2>2
<1>8. c \in 0..Len(gs)
  BY <1>1, <1>3, <1>4
<1>9. CASE p0 = p
  <2>1. rd = rc
    BY <1>9
  <2>2. t # EndAt(fs, c) => c < Len(gs) /\ gs[c + 1] = fs[c + 1]
    <3>1. c < Len(fs) => c < Len(gs) /\ c + 1 \in 1..n
      BY <1>1, <1>3, <1>4
    <3> QED
      BY ONLY <1>1, <1>4, <3>1
  <2> QED
    BY ONLY <1>1, <1>6, <1>7, <1>8, <1>9, <2>1, <2>2 DEF Place
<1>10. CASE p0 # p
  <2>1. fs = <<>> /\ p0 = "none"
    BY <1>2, <1>10
  <2>2. c = 0 /\ n = 0
    BY <1>1, <1>3, <2>1
  <2>3. EndAt(fs, c) = t
    BY <1>1, <1>3, <2>2
  <2>4. BegunAt(gs, c) = <<>>
    BY <2>2 DEF BegunAt
  <2>5. CASE p = "rpc"
    <3>1. rd = Rpc!reset
      BY <1>10, <2>5
    <3>2. Ready(p, rd, <<>>)
      BY ONLY <2>5, <3>1 DEF Ready
    <3> QED
      BY ONLY <1>1, <1>6, <1>7, <1>8, <2>3, <2>4, <3>2 DEF Place
  <2>6. CASE p = "websocket"
    <3>1. rd = Web!reset
      BY <1>10, <2>6
    <3>2. Ready(p, rd, <<>>)
      BY ONLY <2>6, <3>1, WebResets DEF Ready
    <3> QED
      BY ONLY <1>1, <1>6, <1>7, <1>8, <2>3, <2>4, <3>2 DEF Place
  <2> QED
    BY <1>2, <2>5, <2>6
<1> QED
  BY <1>9, <1>10

LEMMA MessageIs ==
  ASSUME NEW x \in MessageSet, NEW content, x.content = content, NEW close, x.close = close PROVE x = Message(content, close)
  BY DEF MessageSet, Message

LEMMA WithinFrame ==
  ASSUME NEW p, NEW s, NEW b, b \in Seq(Octet), NEW begun, NEW o \in Nat, o # 0 => Within(p, s, b, begun, o)
  PROVE  o <= Len(b)
<1>1. Len(b) \in Nat
  OBVIOUS
<1>2. CASE o = 0
  BY <1>1, <1>2
<1>3. CASE o # 0 /\ p = "rpc"
  <2>1. o \in 0..Len(b) - 1
    BY <1>3 DEF Within, RpcAt
  <2> QED
    BY <1>1, <2>1
<1>4. CASE o # 0 /\ p # "rpc"
  <2>1. o \in 0..Len(b)
    BY <1>4 DEF Within, WebAt, WebBefore, WebBehind
  <2> QED
    BY <1>1, <2>1
<1> QED
  BY <1>2, <1>3, <1>4

\* What process() does to a piece.
Processed(p, fs, ss, pc, pd, rd, rw, t) ==
  \E m \in 0..Len(pc), d \in 0..Len(fs) : pd = SubSeq(pc, m + 1, Len(pc)) /\ Place(p, fs, ss, rd, rw, t + m, d)

\* The frame of which the next byte is, and what is known of it.
Current(p, fs, ss, t, c, o, f, close) ==
  /\ f = fs[c + 1] /\ f \in FrameSet /\ f.bytes \in Seq(Octet) /\ close = CloseAt(fs, ss, c + 1) /\ close \in BOOLEAN
  /\ p \in {"rpc", "websocket"} /\ c \in 0..Len(fs) /\ c < Len(fs) /\ o \in Nat /\ t = EndAt(fs, c) + o
  /\ FrameOk(p, fs, ss, c + 1) /\ FrameIs(p, f, BegunAt(fs, c), close)
LEMMA CurrentIs ==
  ASSUME NEW p, NEW fs, NEW ss, Line(p, fs, ss), NEW pc, NEW st, NEW t, Flow(fs, pc, st, t),
         NEW rc, NEW rv, NEW c, Place(p, fs, ss, rc, rv, t, c), pc # <<>> \/ c < Len(fs)
  PROVE  Current(p, fs, ss, t, c, t - EndAt(fs, c), fs[c + 1], CloseAt(fs, ss, c + 1))
<1>1. /\ pc \in Seq(Octet) /\ st \in Seq(Octet) /\ t \in Nat /\ EndAt(fs, Len(fs)) = t + Len(pc) + Len(st)
      /\ fs \in Seq(FrameSet) /\ ss \in Seq(SentSet) /\ c \in 0..Len(fs) /\ EndAt(fs, c) <= t
  BY DEF Line, Flow, Place
<1>2. EndAt(fs, c) \in Nat
  BY <1>1, AtIs
<1>3. c < Len(fs)
  <2>1. CASE pc # <<>>
    <3>1. Len(pc) \in Nat /\ 0 < Len(pc) /\ Len(st) \in Nat
      BY <1>1, <2>1
    <3>2. c # Len(fs)
      BY <1>1, <1>2, <3>1
    <3> QED
      BY <1>1, <3>2
  <2> QED
    BY ONLY <2>1, pc # <<>> \/ c < Len(fs)
<1>4. t - EndAt(fs, c) \in Nat /\ t = EndAt(fs, c) + (t - EndAt(fs, c))
  BY <1>1, <1>2
<1>12. PICK i : i = c + 1
  OBVIOUS
<1>5. i \in 1..Len(fs) /\ i = c + 1 /\ i - 1 = c
  BY <1>1, <1>3, <1>12
<1>6. FrameOk(p, fs, ss, i)
  BY <1>5 DEF Line
<1>7. fs[i] \in FrameSet
  BY <1>1, <1>5, ElementOfSeq
<1>8. fs[i].bytes \in Seq(Octet) /\ fs[i].last \in BOOLEAN
  BY <1>7 DEF FrameSet
<1>9. CloseAt(fs, ss, i) \in BOOLEAN
  <2>1. CASE fs[i].last
    <3>1. PICK m : m = fs[i].messages
      OBVIOUS
    <3>2. m \in 1..Len(ss)
      BY <1>6, <2>1, <3>1 DEF FrameOk
    <3>3. ss[m] \in SentSet
      BY <1>1, <3>2, ElementOfSeq
    <3>4. ss[m].message.close \in BOOLEAN
      BY <3>3 DEF SentSet, MessageSet
    <3> QED
      BY <2>1, <3>1, <3>4 DEF CloseAt
  <2>2. CASE ~fs[i].last
    BY <2>2 DEF CloseAt
  <2> QED
    BY <2>1, <2>2
<1>10. FrameIs(p, fs[i], BegunAt(fs, c), CloseAt(fs, ss, i))
  BY ONLY <1>5, <1>6 DEF FrameOk
<1>11. p \in {"rpc", "websocket"}
  <2>1. fs # <<>>
    BY <1>1, <1>3
  <2> QED
    BY <2>1 DEF Line
<1> QED
  BY ONLY <1>1, <1>3, <1>4, <1>5, <1>6, <1>7, <1>8, <1>9, <1>10, <1>11 DEF Current

\* What process() makes of a piece, for both protocols.
LEMMA OutcomeIs ==
  ASSUME NEW p, NEW fs, NEW ss, NEW t, NEW c, NEW o, NEW f, NEW close, Current(p, fs, ss, t, c, o, f, close),
         NEW rc, o = 0 => Ready(p, rc, BegunAt(fs, c)), o # 0 => Within(p, rc, f.bytes, BegunAt(fs, c), o),
         NEW pc, Follows(pc, f.bytes, o), Len(pc) <= MaxPiece,
         NEW q, q = (IF p = "rpc" THEN Rpc!process(rc, pc) ELSE Web!process(rc, pc))
  PROVE  Outcome(p, q, f.bytes, BegunAt(fs, c), f.content, f.last, close, o, pc)
<1>1. f \in FrameSet /\ close \in BOOLEAN /\ o \in Nat /\ p \in {"rpc", "websocket"} /\ FrameIs(p, f, BegunAt(fs, c), close)
  BY DEF Current
<1>2. f.last \in BOOLEAN
  BY <1>1 DEF FrameSet
<1>3. PICK b, begun, content : b = f.bytes /\ begun = BegunAt(fs, c) /\ content = f.content
  OBVIOUS
<1>4. PICK last \in BOOLEAN : last = f.last
  BY <1>2
<1>5. CASE p = "rpc"
  <2>1. RpcFrame(b) /\ content = b /\ f.last /\ ~close
    BY ONLY <1>1, <1>3, <1>5 DEF FrameIs
  <2>2. last = TRUE /\ close = FALSE
    BY ONLY <1>1, <1>4, <2>1
  <2>3. (o = 0 => Ready(p, rc, begun)) /\ (o # 0 => Within(p, rc, b, begun, o)) /\ Follows(pc, b, o)
    BY ONLY <1>3, o = 0 => Ready(p, rc, BegunAt(fs, c)), o # 0 => Within(p, rc, f.bytes, BegunAt(fs, c), o), Follows(pc, f.bytes, o)
  <2>4. Outcome(p, Rpc!process(rc, pc), b, begun, b, TRUE, FALSE, o, pc)
    BY ONLY <1>1, <1>5, <2>1, <2>3, RpcOutcome
  <2>5. q = Rpc!process(rc, pc)
    BY <1>5
  <2> QED
    BY ONLY <1>3, <1>4, <2>1, <2>2, <2>4, <2>5
<1>6. CASE p = "websocket"
  <2>1. WebFrame(b, begun, content, last, close)
    BY ONLY <1>1, <1>3, <1>4, <1>6 DEF FrameIs
  <2>2. (o = 0 => Ready(p, rc, begun)) /\ (o # 0 => Within(p, rc, b, begun, o)) /\ Follows(pc, b, o) /\ Len(pc) <= MaxPiece
    BY ONLY <1>3, o = 0 => Ready(p, rc, BegunAt(fs, c)), o # 0 => Within(p, rc, f.bytes, BegunAt(fs, c), o), Follows(pc, f.bytes, o), Len(pc) <= MaxPiece
  <2>3. Outcome(p, Web!process(rc, pc), b, begun, content, last, close, o, pc)
    BY ONLY <1>1, <1>4, <1>6, <2>1, <2>2, WebOutcome
  <2>4. q = Web!process(rc, pc)
    BY <1>6
  <2> QED
    BY ONLY <1>3, <1>4, <2>3, <2>4
<1> QED
  BY <1>1, <1>5, <1>6

\* The place of the parser after process(), within the frame and behind it.
LEMMA PlaceMore ==
  ASSUME NEW p, NEW fs, NEW ss, NEW t, NEW c, NEW o, NEW f, NEW close, Current(p, fs, ss, t, c, o, f, close), EndAt(fs, c) \in Nat,
         NEW rc, NEW rv, Place(p, fs, ss, rc, rv, t, c), NEW pc \in Seq(Octet), pc # <<>>,
         NEW rd, Within(p, rd, f.bytes, BegunAt(fs, c), o + Len(pc))
  PROVE  Processed(p, fs, ss, pc, <<>>, rd, rv, t)
<1>1. PICK m \in Nat : m = Len(pc) /\ 0 < m
  OBVIOUS
<1>2. SubSeq(pc, m + 1, Len(pc)) = <<>> /\ m \in 0..Len(pc)
  BY <1>1
<1>3. f = fs[c + 1] /\ c \in 0..Len(fs) /\ c < Len(fs) /\ o \in Nat /\ t = EndAt(fs, c) + o
  BY DEF Current
<1>4. PICK u \in Nat : u = t + m
  BY <1>1, <1>3
<1>5. u - EndAt(fs, c) = o + Len(pc) /\ u # EndAt(fs, c) /\ EndAt(fs, c) <= u
  <2>1. PICK e \in Nat : e = EndAt(fs, c)
    OBVIOUS
  <2>2. e \in Nat /\ m \in Nat /\ m = Len(pc) /\ 0 < m /\ o \in Nat /\ t = e + o /\ u = t + m
    BY ONLY <1>1, <1>3, <1>4, <2>1
  <2>3. u - e = o + m /\ u # e /\ e <= u
    BY ONLY <2>2
  <2> QED
    BY ONLY <2>1, <2>2, <2>3
<1>6. rv \in Seq(MessageSet) /\ Len(rv) = CountAt(fs, c) /\ \A k \in 1..Len(rv) : rv[k] = ss[k].message
  BY DEF Place
<1>7. Within(p, rd, fs[c + 1].bytes, BegunAt(fs, c), u - EndAt(fs, c))
  BY ONLY <1>3, <1>5, Within(p, rd, f.bytes, BegunAt(fs, c), o + Len(pc))
<1>8. Place(p, fs, ss, rd, rv, u, c)
  BY ONLY <1>3, <1>5, <1>6, <1>7 DEF Place
<1> QED
  BY ONLY <1>2, <1>3, <1>4, <1>8 DEF Processed

LEMMA PlaceDone ==
  ASSUME NEW p, NEW fs \in Seq(FrameSet), NEW ss \in Seq(SentSet), NEW t, NEW c, NEW o, NEW f, NEW close, Current(p, fs, ss, t, c, o, f, close), EndAt(fs, c) \in Nat,
         NEW rc, NEW rv, Place(p, fs, ss, rc, rv, t, c), NEW pc \in Seq(Octet), o <= Len(f.bytes), Len(f.bytes) <= o + Len(pc),
         NEW rd, f.last => Ready(p, rd, <<>>), ~f.last => Ready(p, rd, f.content),
         NEW rw, rw = (IF f.last THEN Append(rv, Message(f.content, close)) ELSE rv)
  PROVE  Processed(p, fs, ss, pc, SubSeq(pc, Len(f.bytes) - o + 1, Len(pc)), rd, rw, t)
<1>1. /\ f = fs[c + 1] /\ f \in FrameSet /\ f.bytes \in Seq(Octet) /\ close = CloseAt(fs, ss, c + 1)
      /\ c \in 0..Len(fs) /\ c < Len(fs) /\ o \in Nat /\ t = EndAt(fs, c) + o /\ FrameOk(p, fs, ss, c + 1)
  BY DEF Current
<1>2. PICK m : m = Len(f.bytes) - o
  OBVIOUS
<1>3. m \in 0..Len(pc) /\ m \in Nat
  BY <1>1, <1>2
<1>13. PICK d : d = c + 1
  OBVIOUS
<1>4. d \in 0..Len(fs) /\ d = c + 1 /\ d - 1 = c /\ d # 0
  BY <1>1, <1>13
<1>5. EndAt(fs, d) = f.end /\ CountAt(fs, d) = f.messages /\ BegunAt(fs, d) = (IF f.last THEN <<>> ELSE f.content)
  BY ONLY <1>1, <1>4 DEF EndAt, CountAt, BegunAt
<1>6. /\ f.end = EndAt(fs, c) + Len(f.bytes) /\ f.messages = CountAt(fs, c) + (IF f.last THEN 1 ELSE 0)
      /\ f.last => f.messages \in 1..Len(ss) /\ ss[f.messages].message.content = f.content
  BY ONLY <1>1, <1>4 DEF FrameOk
<1>7. PICK u : u = t + m
  OBVIOUS
<1>8. u = EndAt(fs, d) /\ EndAt(fs, d) <= u
  <2>1. PICK e \in Nat, l \in Nat : e = EndAt(fs, c) /\ l = Len(f.bytes)
    BY <1>1
  <2>2. u = e + o + (l - o) /\ e \in Int /\ o \in Int /\ l \in Int
    BY ONLY <1>1, <1>2, <1>7, <2>1
  <2>3. u = e + l
    BY ONLY <2>2
  <2>4. u = f.end /\ u \in Int
    BY ONLY <1>6, <2>1, <2>2, <2>3
  <2> QED
    BY ONLY <1>5, <2>4
<1>9. Ready(p, rd, BegunAt(fs, d))
  BY ONLY <1>5, f.last => Ready(p, rd, <<>>), ~f.last => Ready(p, rd, f.content)
<1>10. rv \in Seq(MessageSet) /\ Len(rv) = CountAt(fs, c) /\ \A k \in 1..Len(rv) : rv[k] = ss[k].message
  BY DEF Place
<1>11. rw \in Seq(MessageSet) /\ Len(rw) = CountAt(fs, d) /\ \A k \in 1..Len(rw) : rw[k] = ss[k].message
  <2>1. CASE ~f.last
    <3>1. rw = rv /\ CountAt(fs, d) = CountAt(fs, c)
      <4>1. CountAt(fs, c) \in Nat
        BY <1>1, AtIs
      <4>2. f.messages = CountAt(fs, c)
        BY ONLY <1>6, <2>1, <4>1
      <4> QED
        BY <1>5, <2>1, <4>2
    <3> QED
      BY ONLY <1>10, <3>1
  <2>2. CASE f.last
    <3>1. PICK x, n : x = Message(f.content, close) /\ n = Len(rv) /\ n \in Nat
      BY <1>10
    <3>2. f.messages = n + 1 /\ f.messages \in 1..Len(ss) /\ ss[f.messages].message.content = f.content
      BY ONLY <1>6, <1>10, <2>2, <3>1
    <3>3. close = ss[f.messages].message.close
      BY ONLY <1>1, <2>2 DEF CloseAt
    <3>4. ss[n + 1] \in SentSet
      BY <3>2, ElementOfSeq
    <3>5. ss[n + 1].message \in MessageSet
      BY <3>4 DEF SentSet
    <3>6. ss[n + 1].message = x
      BY ONLY <3>1, <3>2, <3>3, <3>5, MessageIs
    <3>7. rw = Append(rv, x) /\ x \in MessageSet
      BY <2>2, <3>1, <3>5, <3>6
    <3>8. rw \in Seq(MessageSet) /\ Len(rw) = n + 1 /\ rw[n + 1] = x /\ \A k \in 1..n : rw[k] = rv[k]
      BY ONLY <1>10, <3>1, <3>7, AppendIs
    <3>9. ASSUME NEW k \in 1..n + 1 PROVE rw[k] = ss[k].message
      <4>1. k \in 1..n \/ k = n + 1
        BY <3>1
      <4> QED
        BY ONLY <1>10, <3>1, <3>6, <3>8, <4>1
    <3> QED
      BY ONLY <1>5, <3>2, <3>8, <3>9
  <2> QED
    BY <2>1, <2>2
<1>12. Place(p, fs, ss, rd, rw, u, d)
  BY ONLY <1>4, <1>8, <1>9, <1>11 DEF Place
<1> QED
  BY ONLY <1>2, <1>3, <1>4, <1>7, <1>12 DEF Processed

LEMMA PlaceProcessed ==
  ASSUME NEW p, NEW fs, NEW ss, Line(p, fs, ss), NEW pc, pc # <<>>, NEW st, NEW t, Flow(fs, pc, st, t),
         NEW rc, NEW rv, NEW c, Place(p, fs, ss, rc, rv, t, c),
         NEW q, q = (IF p = "rpc" THEN Rpc!process(rc, pc) ELSE Web!process(rc, pc)),
         NEW pd, pd = (IF q.threw THEN <<>> ELSE q.rest),
         NEW rw, rw = (IF q.parser.finished THEN Append(rv, FoundBy(p, q)) ELSE rv)
  PROVE  Processed(p, fs, ss, pc, pd, q.parser, rw, t)
<1>1. pc \in Seq(Octet) /\ Len(pc) <= MaxPiece /\ fs \in Seq(FrameSet) /\ ss \in Seq(SentSet)
  BY DEF Line, Flow
<1>2. PICK o, f, close : o = t - EndAt(fs, c) /\ f = fs[c + 1] /\ close = CloseAt(fs, ss, c + 1)
  OBVIOUS
<1>3. Current(p, fs, ss, t, c, o, f, close)
  BY <1>2, CurrentIs
<1>4. /\ f \in FrameSet /\ f.bytes \in Seq(Octet) /\ c \in 0..Len(fs) /\ c < Len(fs) /\ o \in Nat /\ t = EndAt(fs, c) + o
  BY ONLY <1>3 DEF Current
<1>5. EndAt(fs, c) \in Nat
  BY ONLY <1>1, <1>4, AtIs
<1>6. (o = 0 => Ready(p, rc, BegunAt(fs, c))) /\ (o # 0 => Within(p, rc, f.bytes, BegunAt(fs, c), o))
  <2>1. (o = 0 <=> t = EndAt(fs, c))
    BY ONLY <1>4, <1>5
  <2>2. /\ t = EndAt(fs, c) => Ready(p, rc, BegunAt(fs, c))
        /\ t # EndAt(fs, c) => Within(p, rc, fs[c + 1].bytes, BegunAt(fs, c), t - EndAt(fs, c))
    BY DEF Place
  <2> QED
    BY ONLY <1>2, <2>1, <2>2
<1>7. Follows(pc, f.bytes, o)
  <2>1. Follows(pc, fs[c + 1].bytes, o)
    BY <1>4, FlowFollows
  <2> QED
    BY ONLY <1>2, <2>1
<1>8. Outcome(p, q, f.bytes, BegunAt(fs, c), f.content, f.last, close, o, pc)
  BY ONLY <1>1, <1>3, <1>6, <1>7, q = (IF p = "rpc" THEN Rpc!process(rc, pc) ELSE Web!process(rc, pc)), OutcomeIs
<1>9. pd = q.rest
  <2>1. ~q.threw
    BY ONLY <1>8 DEF Outcome
  <2> QED
    BY ONLY <2>1, pd = (IF q.threw THEN <<>> ELSE q.rest)
<1>10. o <= Len(f.bytes)
  BY ONLY <1>4, <1>6, WithinFrame
<1>11. CASE q.rest = <<>> /\ ~q.parser.finished /\ Within(p, q.parser, f.bytes, BegunAt(fs, c), o + Len(pc))
  <2>1. rw = rv
    BY ONLY <1>11, rw = (IF q.parser.finished THEN Append(rv, FoundBy(p, q)) ELSE rv)
  <2>2. Processed(p, fs, ss, pc, <<>>, q.parser, rv, t)
    BY <1>1, <1>3, <1>5, <1>11, PlaceMore
  <2> QED
    BY ONLY <1>9, <1>11, <2>1, <2>2
<1>12. CASE /\ Len(f.bytes) <= o + Len(pc) /\ q.rest = SubSeq(pc, Len(f.bytes) - o + 1, Len(pc))
            /\ f.last => q.parser.finished /\ FoundBy(p, q) = Message(f.content, close) /\ Ready(p, q.parser, <<>>)
            /\ ~f.last => ~q.parser.finished /\ Ready(p, q.parser, f.content)
  <2>1. rw = (IF f.last THEN Append(rv, Message(f.content, close)) ELSE rv)
    BY ONLY <1>12, rw = (IF q.parser.finished THEN Append(rv, FoundBy(p, q)) ELSE rv)
  <2>2. PICK rd : rd = q.parser
    OBVIOUS
  <2>3. /\ fs \in Seq(FrameSet) /\ ss \in Seq(SentSet) /\ Current(p, fs, ss, t, c, o, f, close) /\ EndAt(fs, c) \in Nat
        /\ Place(p, fs, ss, rc, rv, t, c) /\ pc \in Seq(Octet) /\ o <= Len(f.bytes) /\ Len(f.bytes) <= o + Len(pc)
        /\ (f.last => Ready(p, rd, <<>>)) /\ (~f.last => Ready(p, rd, f.content))
        /\ rw = (IF f.last THEN Append(rv, Message(f.content, close)) ELSE rv)
    BY ONLY <1>1, <1>3, <1>5, <1>10, <1>12, <2>1, <2>2, Place(p, fs, ss, rc, rv, t, c)
  <2>4. Processed(p, fs, ss, pc, SubSeq(pc, Len(f.bytes) - o + 1, Len(pc)), rd, rw, t)
    BY ONLY <2>3, PlaceDone
  <2> QED
    BY ONLY <1>9, <1>12, <2>2, <2>4
<1> QED
  BY ONLY <1>8, <1>11, <1>12 DEF Outcome

\* A frame of two bytes is the one of encodeClose().
LEMMA ShortFrame ==
  ASSUME NEW b, NEW begun, NEW content, NEW last, NEW close, WebFrame(b, begun, content, last, close), Len(b) = 2
  PROVE  b = Web!encodeClose /\ content = <<>> /\ close
<1>1. /\ b \in Seq(Octet) /\ 2 <= Len(b) /\ HeaderLength(b) <= Len(b) /\ Declared(b) = Len(b) - HeaderLength(b)
      /\ (b[1] \div 16) % 8 = 0 /\ (b[1] >= 128 <=> last) /\ content = begun \o Plain(b) /\ begun \in Seq(Octet)
      /\ (close <=> Declared(b) = 0) /\ (close => last /\ begun = <<>> /\ b[1] % 16 = Web!Opcode.close)
  BY DEF WebFrame
<1>2. /\ b[1] \in Octet /\ b[2] \in Octet /\ HeaderLength(b) \in Nat /\ LengthBytes(b) \in {0, 2, 8}
      /\ HeaderLength(b) = 2 + LengthBytes(b) + (IF HasMask(b) THEN 4 ELSE 0)
  BY ONLY <1>1, WebSizes
<1>3. HeaderLength(b) = 2 /\ LengthBytes(b) = 0 /\ ~HasMask(b)
  BY ONLY <1>1, <1>2, Len(b) = 2
<1>4. Declared(b) = 0
  BY ONLY <1>1, <1>3, Len(b) = 2
<1>5. b[2] = 0
  <2>1. b[2] % 128 = 0
    BY ONLY <1>3, <1>4 DEF Declared
  <2>2. ~(b[2] >= 128)
    BY ONLY <1>3 DEF HasMask
  <2> QED
    BY ONLY <1>2, <2>1, <2>2, OctetIs
<1>6. b[1] = 136
  <2>1. Web!Opcode.close = 8
    BY DEF Web!Opcode
  <2>2. b[1] % 16 = 8 /\ b[1] >= 128 /\ (b[1] \div 16) % 8 = 0 /\ b[1] \in Int /\ b[1] < 256
    BY ONLY <1>1, <1>2, <1>4, <2>1, OctetIs
  <2> QED
    BY ONLY <2>2
<1>7. Web!encodeClose = <<136, 0>>
  BY DEF Web!encodeClose, Web!Opcode
<1>8. b = Web!encodeClose
  BY <1>1, <1>5, <1>6, <1>7
<1>9. content = <<>>
  <2>1. Len(b) - HeaderLength(b) = 0
    BY ONLY <1>1, <1>4
  <2>2. Plain(b) = <<>>
    BY <2>1 DEF Plain
  <2> QED
    BY ONLY <1>1, <1>4, <2>2
<1> QED
  BY ONLY <1>1, <1>4, <1>8, <1>9

LEMMA AtOf ==
  /\ \A i \in 0..Len(frames) : EndOf(i) = EndAt(frames, i) /\ MessagesOf(i) = CountAt(frames, i) /\ Begun(i) = BegunAt(frames, i)
  /\ Taken = EndAt(frames, Len(frames)) - Len(piece) - Len(stream)
  /\ EndOf(Len(frames)) = EndAt(frames, Len(frames)) /\ MessagesOf(Len(frames)) = CountAt(frames, Len(frames))
  /\ Begun(Len(frames)) = BegunAt(frames, Len(frames))
BY DEF EndOf, MessagesOf, Begun, Taken, EndAt, CountAt, BegunAt

\* The invariant holds at the beginning and is kept by every step.
LEMMA FramingStarts == FramingInit => FramingInvariant
<1> SUFFICES ASSUME FramingInit PROVE FramingInvariant
  OBVIOUS
<1>1. protocol = "none" /\ receiver = <<>> /\ sent = <<>> /\ frames = <<>> /\ stream = <<>> /\ piece = <<>> /\ received = <<>>
  BY DEF FramingInit
<1>2. /\ <<>> \in Seq(FrameSet) /\ <<>> \in Seq(SentSet) /\ <<>> \in Seq(Octet) /\ <<>> \in Seq(MessageSet) /\ Len(<<>>) = 0
      /\ 1..0 = {} /\ 0..0 = {0}
  OBVIOUS
<1>3. Len(frames) = 0 /\ Len(sent) = 0 /\ Len(stream) = 0 /\ Len(piece) = 0 /\ Len(received) = 0
  BY <1>1
<1>4. EndAt(frames, 0) = 0 /\ CountAt(frames, 0) = 0 /\ BegunAt(frames, 0) = <<>>
  BY DEF EndAt, CountAt, BegunAt
<1>5. Taken = 0
  BY <1>3, <1>4, AtOf
<1>6. Ordered(frames, sent)
  BY ONLY <1>2, <1>3, <1>4, SMT DEF Ordered
<1>7. Line(protocol, frames, sent)
  BY ONLY <1>1, <1>2, <1>3, <1>6, SMT DEF Line
<1>8. Flow(frames, piece, stream, Taken)
  <2>1. 0 <= MaxPiece
    BY FramingAssumption
  <2> QED
    BY ONLY <1>1, <1>2, <1>3, <1>4, <1>5, <2>1, SMT DEF Flow
<1>9. Ready(protocol, receiver, BegunAt(frames, 0))
  BY ONLY <1>1 DEF Ready
<1>10. Place(protocol, frames, sent, receiver, received, Taken, 0)
  BY ONLY <1>1, <1>2, <1>3, <1>4, <1>5, <1>9, SMT DEF Place
<1> QED
  BY <1>2, <1>3, <1>7, <1>8, <1>10 DEF FramingInvariant

\* A frame that is sent keeps the invariant.
LEMMA TransmitKeeps ==
  ASSUME NEW bytes \in Seq(Octet), 0 < Len(bytes), NEW content \in Seq(Octet), NEW last \in BOOLEAN, NEW close \in BOOLEAN, ~last => ~close,
         NEW name \in {"rpc", "websocket"},
         IF name = "rpc" THEN RpcFrame(bytes) /\ content = bytes /\ last /\ ~close /\ (protocol \in {"none", "rpc"} => Begun(Len(frames)) = <<>>)
         ELSE WebFrame(bytes, Begun(Len(frames)), content, last, close),
         FramingInvariant, Transmit(bytes, content, last, close, name)
  PROVE  FramingInvariant'
<1>1. Line(protocol, frames, sent) /\ Flow(frames, piece, stream, Taken)
  BY DEF FramingInvariant
<1>2. PICK c \in 0..Len(frames) : Place(protocol, frames, sent, receiver, received, Taken, c)
  BY DEF FramingInvariant
<1>3. PICK n : n = Len(frames)
  OBVIOUS
<1>4. PICK f : f = [bytes |-> bytes, end |-> EndAt(frames, n) + Len(bytes), content |-> content, last |-> last,
                    messages |-> CountAt(frames, n) + (IF last THEN 1 ELSE 0)]
  OBVIOUS
<1>5. f.bytes = bytes /\ f.end = EndAt(frames, n) + Len(bytes) /\ f.content = content /\ f.last = last
      /\ f.messages = CountAt(frames, n) + (IF last THEN 1 ELSE 0)
  BY <1>4
<1>6. frames \in Seq(FrameSet) /\ n \in 0..Len(frames) /\ n \in Nat
  BY <1>1, <1>3 DEF Line
<1>7. EndAt(frames, n) \in Nat /\ CountAt(frames, n) \in Nat
  BY <1>6, AtIs
<1>8. f \in FrameSet
  <2>1. EndAt(frames, n) + Len(bytes) \in Nat /\ CountAt(frames, n) + (IF last THEN 1 ELSE 0) \in Nat
    BY <1>7
  <2> QED
    BY <1>4, <2>1 DEF FrameSet
<1>9. PICK p : p = name
  OBVIOUS
<1>10. protocol \in {"none", name} /\ protocol' = name /\ stream' = stream \o bytes /\ piece' = piece /\ received' = received
       /\ receiver' = (IF protocol = name THEN receiver ELSE IF name = "rpc" THEN Rpc!reset ELSE Web!reset)
  BY DEF Transmit
<1>11. frames' = Append(frames, f)
  BY <1>3, <1>4, AtOf DEF Transmit
<1>12. sent' = Told(sent, f, close)
  <2>1. sent' = IF last THEN Append(sent, [message |-> Message(content, close), end |-> EndAt(frames, n) + Len(bytes)]) ELSE sent
    BY <1>3, AtOf DEF Transmit
  <2> QED
    BY ONLY <1>5, <2>1 DEF Told
<1>13. FrameIs(name, f, BegunAt(frames, n), close)
  <2>1. BegunAt(frames, n) = Begun(Len(frames))
    BY <1>3, AtOf
  <2>2. CASE name = "rpc"
    BY ONLY <1>5, <1>10, <2>1, <2>2, IF name = "rpc" THEN RpcFrame(bytes) /\ content = bytes /\ last /\ ~close /\ (protocol \in {"none", "rpc"} => Begun(Len(frames)) = <<>>)
         ELSE WebFrame(bytes, Begun(Len(frames)), content, last, close) DEF FrameIs
  <2>3. CASE name # "rpc"
    BY ONLY <1>5, <2>1, <2>3, IF name = "rpc" THEN RpcFrame(bytes) /\ content = bytes /\ last /\ ~close /\ (protocol \in {"none", "rpc"} => Begun(Len(frames)) = <<>>)
         ELSE WebFrame(bytes, Begun(Len(frames)), content, last, close) DEF FrameIs
  <2> QED
    BY <2>2, <2>3
<1>14. Sends(protocol, name, frames, f, close)
  BY ONLY <1>3, <1>5, <1>8, <1>10, <1>13, name \in {"rpc", "websocket"}, close \in BOOLEAN, 0 < Len(bytes), ~last => ~close DEF Sends
<1>15. PICK gs, ts, su, rd : gs = Append(frames, f) /\ ts = Told(sent, f, close) /\ su = stream \o f.bytes
                             /\ rd = (IF protocol = name THEN receiver ELSE IF name = "rpc" THEN Rpc!reset ELSE Web!reset)
  OBVIOUS
<1>16. Line(name, gs, ts)
  BY ONLY <1>1, <1>14, <1>15, LineGrows
<1>17. Flow(gs, piece, su, Taken)
  BY ONLY <1>1, <1>14, <1>15, FlowGrows
<1>18. Place(name, gs, ts, rd, received, Taken, c)
  BY ONLY <1>1, <1>2, <1>14, <1>15, PlaceGrows
<1>19. protocol' = name /\ frames' = gs /\ sent' = ts /\ stream' = su /\ piece' = piece /\ receiver' = rd /\ received' = received
  BY ONLY <1>5, <1>10, <1>11, <1>12, <1>15
<1>20. Taken' = Taken
  <2>1. Taken' = EndAt(gs, Len(gs)) - Len(piece) - Len(su)
    <3>1. Taken' = EndOf(Len(frames))' - Len(piece') - Len(stream')
      BY DEF Taken
    <3>2. EndOf(Len(frames))' = (IF Len(frames') = 0 THEN 0 ELSE frames'[Len(frames')].end)
      BY DEF EndOf
    <3> QED
      BY ONLY <1>19, <3>1, <3>2 DEF EndAt
  <2>2. EndAt(gs, Len(gs)) = Taken + Len(piece) + Len(su) /\ Taken \in Nat /\ piece \in Seq(Octet) /\ su \in Seq(Octet)
    BY ONLY <1>17 DEF Flow
  <2> QED
    BY ONLY <2>1, <2>2
<1>21. c \in 0..Len(gs)
  BY ONLY <1>18 DEF Place
<1> QED
  BY ONLY <1>16, <1>17, <1>18, <1>19, <1>20, <1>21 DEF FramingInvariant

LEMMA NothingBegun ==
  ASSUME NEW p, NEW fs, NEW ss, Line(p, fs, ss), p \in {"none", "rpc"} PROVE BegunAt(fs, Len(fs)) = <<>>
<1>1. fs \in Seq(FrameSet) /\ Len(fs) \in Nat /\ (p = "none" => fs = <<>>)
  BY DEF Line
<1>2. CASE Len(fs) = 0
  BY <1>2 DEF BegunAt
<1>3. CASE Len(fs) # 0
  <2>1. Len(fs) \in 1..Len(fs) /\ p = "rpc"
    BY <1>1, <1>3
  <2>2. FrameOk(p, fs, ss, Len(fs))
    BY <2>1 DEF Line
  <2>3. fs[Len(fs)].last
    BY ONLY <2>1, <2>2 DEF FrameOk, FrameIs
  <2> QED
    BY ONLY <1>3, <2>3 DEF BegunAt
<1> QED
  BY <1>2, <1>3

LEMMA BegunIs == FramingInvariant => Begun(Len(frames)) \in Seq(Octet)
<1> SUFFICES ASSUME FramingInvariant PROVE Begun(Len(frames)) \in Seq(Octet)
  OBVIOUS
<1>1. frames \in Seq(FrameSet) /\ Len(frames) \in 0..Len(frames)
  BY DEF FramingInvariant, Line
<1> QED
  BY <1>1, AtIs, AtOf

LEMMA SendRpcKeeps == ASSUME FramingInvariant, NEW payload \in Payloads, SendRpc(payload) PROVE FramingInvariant'
<1>1. PICK frame \in {Rpc!encodeRequest(h, payload) : h \in RpcHeaders} \cup {Rpc!encodeResponse(e, payload) : e \in BOOLEAN} :
        Transmit(frame, frame, TRUE, FALSE, "rpc")
  BY DEF SendRpc
<1>2. RpcFrame(frame)
  BY RpcSent
<1>3. frame \in Seq(Octet) /\ 0 < Len(frame)
  BY <1>2, FrameSizes
<1>4. protocol \in {"none", "rpc"} => Begun(Len(frames)) = <<>>
  BY NothingBegun, AtOf DEF FramingInvariant
<1>5. PICK last, close, name : last = TRUE /\ close = FALSE /\ name = "rpc"
  OBVIOUS
<1>6. last \in BOOLEAN /\ close \in BOOLEAN /\ (~last => ~close) /\ name \in {"rpc", "websocket"} /\ Transmit(frame, frame, last, close, name)
  BY ONLY <1>1, <1>5
<1>7. IF name = "rpc" THEN RpcFrame(frame) /\ frame = frame /\ last /\ ~close /\ (protocol \in {"none", "rpc"} => Begun(Len(frames)) = <<>>)
      ELSE WebFrame(frame, Begun(Len(frames)), frame, last, close)
  BY ONLY <1>2, <1>4, <1>5
<1> QED
  BY ONLY <1>3, <1>6, <1>7, FramingInvariant, TransmitKeeps

\* A frame of WebSocket that is sent keeps the invariant.
LEMMA WebKeeps ==
  ASSUME FramingInvariant, NEW bytes, NEW content, NEW last \in BOOLEAN, NEW close \in BOOLEAN,
         WebFrame(bytes, Begun(Len(frames)), content, last, close), Transmit(bytes, content, last, close, "websocket")
  PROVE  FramingInvariant'
<1>1. bytes \in Seq(Octet) /\ 2 <= Len(bytes) /\ content \in Seq(Octet) /\ (close => last)
  BY DEF WebFrame
<1>2. bytes \in Seq(Octet) /\ 0 < Len(bytes) /\ content \in Seq(Octet) /\ (~last => ~close)
  BY <1>1
<1>3. PICK name : name = "websocket"
  OBVIOUS
<1>4. name \in {"rpc", "websocket"} /\ Transmit(bytes, content, last, close, name)
  BY ONLY <1>3, Transmit(bytes, content, last, close, "websocket")
<1>5. IF name = "rpc" THEN RpcFrame(bytes) /\ content = bytes /\ last /\ ~close /\ (protocol \in {"none", "rpc"} => Begun(Len(frames)) = <<>>)
      ELSE WebFrame(bytes, Begun(Len(frames)), content, last, close)
  BY ONLY <1>3, WebFrame(bytes, Begun(Len(frames)), content, last, close)
<1> QED
  BY ONLY <1>2, <1>4, <1>5, FramingInvariant, last \in BOOLEAN, close \in BOOLEAN, TransmitKeeps

LEMMA SendWholeKeeps == ASSUME FramingInvariant, NEW payload \in Payloads, SendWhole(payload) PROVE FramingInvariant'
<1>1. Begun(Len(frames)) = <<>>
  BY DEF SendWhole
<1>2. PICK t, u : t = TRUE /\ u = FALSE
  OBVIOUS
<1>3. PICK opcode \in Opcodes :
        \/ Transmit(Web!encode(payload, opcode), payload, TRUE, FALSE, "websocket")
        \/ \E key \in Keys, lengthBytes \in {0, 2, 8} :
             /\ MayTake(Len(payload), lengthBytes)
             /\ Transmit(Masked(payload, opcode, key, lengthBytes), payload, TRUE, FALSE, "websocket")
  BY DEF SendWhole
<1>4. CASE Transmit(Web!encode(payload, opcode), payload, TRUE, FALSE, "websocket")
  <2>1. WebFrame(Web!encode(payload, opcode), <<>>, payload, TRUE, FALSE)
    BY WholeSent
  <2>2. /\ WebFrame(Web!encode(payload, opcode), Begun(Len(frames)), payload, t, u) /\ t \in BOOLEAN /\ u \in BOOLEAN
        /\ Transmit(Web!encode(payload, opcode), payload, t, u, "websocket")
    BY ONLY <1>1, <1>2, <1>4, <2>1
  <2> QED
    BY ONLY <2>2, FramingInvariant, WebKeeps
<1>5. CASE \E key \in Keys, lengthBytes \in {0, 2, 8} :
             /\ MayTake(Len(payload), lengthBytes)
             /\ Transmit(Masked(payload, opcode, key, lengthBytes), payload, TRUE, FALSE, "websocket")
  <2>9. PICK key \in Keys, lengthBytes \in {0, 2, 8} :
             MayTake(Len(payload), lengthBytes) /\ Transmit(Masked(payload, opcode, key, lengthBytes), payload, TRUE, FALSE, "websocket")
    BY <1>5
  <2>10. (lengthBytes = 0 => Len(payload) < 126) /\ (lengthBytes = 2 => InTwo(Len(payload)))
    BY ONLY <2>9, SMT DEF MayTake, InTwo
  <2>1. /\ lengthBytes = 0 => Len(payload) < 126
        /\ lengthBytes = 2 => InTwo(Len(payload))
        /\ Transmit(Masked(payload, opcode, key, lengthBytes), payload, TRUE, FALSE, "websocket")
    BY ONLY <2>9, <2>10
  <2>2. payload \in Seq(Octet) /\ payload # <<>> /\ Len(payload) + MaxPiece <= Web!MaxContent
    BY FramingAssumption
  <2>3. opcode \in Opcodes \cup {8} /\ ~(opcode = 8)
    BY KnownIs
  <2>4. PICK b : b = Masked(payload, opcode, key, lengthBytes)
    OBVIOUS
  <2>5. WebFrame(b, <<>>, payload, TRUE, payload = <<>>)
    BY ONLY <2>1, <2>2, <2>3, <2>4, key \in Keys, MaskedSent
  <2>6. PICK e : e = (payload = <<>>)
    OBVIOUS
  <2>7. e = FALSE
    BY ONLY <2>2, <2>6
  <2>8. WebFrame(b, Begun(Len(frames)), payload, t, u) /\ t \in BOOLEAN /\ u \in BOOLEAN /\ Transmit(b, payload, t, u, "websocket")
    BY ONLY <1>1, <1>2, <2>1, <2>4, <2>5, <2>6, <2>7
  <2> QED
    BY ONLY <2>8, FramingInvariant, WebKeeps
<1> QED
  BY ONLY <1>3, <1>4, <1>5, ZenonT(30)

LEMMA SendFragmentKeeps == ASSUME FramingInvariant, NEW payload \in Payloads, SendFragment(payload) PROVE FramingInvariant'
<1>1. PICK begun : begun = Begun(Len(frames)) /\ begun \in Seq(Octet)
  BY BegunIs
<1>2. PICK opcode : opcode = (IF begun = <<>> THEN Web!Opcode.binary ELSE Web!Opcode.continuation)
  OBVIOUS
<1>3. PICK fin \in BOOLEAN : Transmit(Fragment(payload, opcode, fin), begun \o payload, fin, FALSE, "websocket")
  BY <1>1, <1>2 DEF SendFragment
<1>4. PICK b, u : b = Fragment(payload, opcode, fin) /\ u = FALSE
  OBVIOUS
<1>5. WebFrame(b, begun, begun \o payload, fin, FALSE)
  BY ONLY <1>1, <1>2, <1>4, fin \in BOOLEAN, payload \in Payloads, FragmentSent
<1>6. PICK content : content = begun \o payload
  OBVIOUS
<1>7. WebFrame(b, Begun(Len(frames)), content, fin, u) /\ u \in BOOLEAN /\ Transmit(b, content, fin, u, "websocket")
  BY ONLY <1>1, <1>3, <1>4, <1>5, <1>6
<1> QED
  BY ONLY <1>7, fin \in BOOLEAN, FramingInvariant, WebKeeps

LEMMA SendCloseKeeps == ASSUME FramingInvariant, SendClose PROVE FramingInvariant'
<1>1. Begun(Len(frames)) = <<>>
  BY DEF SendClose
<1>2. PICK b : /\ b \in {Web!encodeClose} \cup {Masked(<<>>, Web!Opcode.close, key, 0) : key \in Keys}
               /\ Transmit(b, <<>>, TRUE, TRUE, "websocket")
  BY DEF SendClose
<1>3. WebFrame(b, <<>>, <<>>, TRUE, TRUE)
  BY <1>2, CloseSent
<1>4. PICK t, content : t = TRUE /\ content = <<>>
  OBVIOUS
<1>5. WebFrame(b, Begun(Len(frames)), content, t, t) /\ t \in BOOLEAN /\ Transmit(b, content, t, t, "websocket")
  BY ONLY <1>1, <1>2, <1>3, <1>4
<1> QED
  BY ONLY <1>5, FramingInvariant, WebKeeps

LEMMA ReadKeeps == ASSUME FramingInvariant, Read PROVE FramingInvariant'
<1>1. Line(protocol, frames, sent) /\ Flow(frames, piece, stream, Taken)
  BY DEF FramingInvariant
<1>2. PICK c \in 0..Len(frames) : Place(protocol, frames, sent, receiver, received, Taken, c)
  BY DEF FramingInvariant
<1>3. PICK n \in 1..MaxPiece : n <= Len(stream) /\ piece' = SubSeq(stream, 1, n) /\ stream' = SubSeq(stream, n + 1, Len(stream))
  BY DEF Read
<1>4. piece = <<>> /\ protocol' = protocol /\ sent' = sent /\ frames' = frames /\ receiver' = receiver /\ received' = received
  BY DEF Read
<1>5. PICK pd, su : pd = SubSeq(stream, 1, n) /\ su = SubSeq(stream, n + 1, Len(stream))
  OBVIOUS
<1>6. Flow(frames, pd, su, Taken)
  BY ONLY <1>1, <1>3, <1>4, <1>5, n \in 1..MaxPiece, FlowRead
<1>7. Taken' = Taken
  <2>1. Taken' = EndAt(frames, Len(frames)) - Len(pd) - Len(su)
    <3>1. Taken' = EndOf(Len(frames))' - Len(piece') - Len(stream')
      BY DEF Taken
    <3>2. EndOf(Len(frames))' = (IF Len(frames') = 0 THEN 0 ELSE frames'[Len(frames')].end)
      BY DEF EndOf
    <3> QED
      BY ONLY <1>3, <1>4, <1>5, <3>1, <3>2 DEF EndAt
  <2>2. EndAt(frames, Len(frames)) = Taken + Len(pd) + Len(su) /\ Taken \in Nat /\ pd \in Seq(Octet) /\ su \in Seq(Octet)
    BY ONLY <1>6 DEF Flow
  <2> QED
    BY ONLY <2>1, <2>2
<1> QED
  BY ONLY <1>1, <1>2, <1>3, <1>4, <1>5, <1>6, <1>7, c \in 0..Len(frames) DEF FramingInvariant

LEMMA ProcessKeeps == ASSUME FramingInvariant, Process PROVE FramingInvariant'
<1>1. Line(protocol, frames, sent) /\ Flow(frames, piece, stream, Taken)
  BY DEF FramingInvariant
<1>2. PICK c \in 0..Len(frames) : Place(protocol, frames, sent, receiver, received, Taken, c)
  BY DEF FramingInvariant
<1>3. PICK q : /\ q = (IF protocol = "rpc" THEN Rpc!process(receiver, piece) ELSE Web!process(receiver, piece))
               /\ receiver' = q.parser
               /\ piece' = (IF q.threw THEN <<>> ELSE q.rest)
               /\ received' = (IF q.parser.finished THEN Append(received, Found(q)) ELSE received)
  BY DEF Process
<1>4. piece # <<>> /\ protocol' = protocol /\ sent' = sent /\ frames' = frames /\ stream' = stream
  BY DEF Process
<1>5. Found(q) = FoundBy(protocol, q)
  BY DEF Found, FoundBy
<1>6. PICK pd, rw, rd : /\ pd = (IF q.threw THEN <<>> ELSE q.rest) /\ rd = q.parser
                        /\ rw = (IF q.parser.finished THEN Append(received, FoundBy(protocol, q)) ELSE received)
  OBVIOUS
<1>7. Processed(protocol, frames, sent, piece, pd, q.parser, rw, Taken)
  BY ONLY <1>1, <1>2, <1>3, <1>4, <1>6, PlaceProcessed
<1>8. PICK m \in 0..Len(piece), d \in 0..Len(frames) :
        pd = SubSeq(piece, m + 1, Len(piece)) /\ Place(protocol, frames, sent, q.parser, rw, Taken + m, d)
  BY ONLY <1>7 DEF Processed
<1>9. PICK u : u = Taken + m
  OBVIOUS
<1>10. m \in Nat /\ m <= Len(piece)
  BY <1>1 DEF Flow
<1>11. Flow(frames, pd, stream, u)
  BY ONLY <1>1, <1>8, <1>9, <1>10, FlowTaken
<1>12. piece' = pd /\ received' = rw /\ receiver' = rd
  BY ONLY <1>3, <1>5, <1>6
<1>13. Taken' = u
  <2>1. Taken' = EndOf(Len(frames))' - Len(piece') - Len(stream')
    BY DEF Taken
  <2>2. EndOf(Len(frames))' = (IF Len(frames') = 0 THEN 0 ELSE frames'[Len(frames')].end)
    BY DEF EndOf
  <2>3. Taken' = EndAt(frames, Len(frames)) - Len(pd) - Len(stream)
    BY ONLY <1>4, <1>12, <2>1, <2>2 DEF EndAt
  <2>4. EndAt(frames, Len(frames)) = u + Len(pd) + Len(stream) /\ u \in Nat /\ pd \in Seq(Octet) /\ stream \in Seq(Octet)
    BY ONLY <1>11 DEF Flow
  <2> QED
    BY ONLY <2>3, <2>4
<1>14. Place(protocol, frames, sent, rd, rw, u, d) /\ d \in 0..Len(frames)
  BY ONLY <1>6, <1>8, <1>9, d \in 0..Len(frames)
<1> QED
  BY ONLY <1>1, <1>4, <1>11, <1>12, <1>13, <1>14 DEF FramingInvariant

LEMMA FramingKept == FramingInvariant /\ [FramingNext]_framingVars => FramingInvariant'
<1> SUFFICES ASSUME FramingInvariant, [FramingNext]_framingVars PROVE FramingInvariant'
  OBVIOUS
<1>1. ASSUME NEW payload \in Payloads, SendRpc(payload) PROVE FramingInvariant'
  BY <1>1, SendRpcKeeps
<1>2. ASSUME NEW payload \in Payloads, SendWhole(payload) PROVE FramingInvariant'
  BY <1>2, SendWholeKeeps
<1>3. ASSUME NEW payload \in Payloads, SendFragment(payload) PROVE FramingInvariant'
  BY <1>3, SendFragmentKeeps
<1>4. CASE SendClose
  BY <1>4, SendCloseKeeps
<1>5. CASE Read
  BY <1>5, ReadKeeps
<1>6. CASE Process
  BY <1>6, ProcessKeeps
<1>7. CASE UNCHANGED framingVars
  <2>1. /\ protocol' = protocol /\ sent' = sent /\ frames' = frames /\ stream' = stream /\ piece' = piece
        /\ receiver' = receiver /\ received' = received
    BY <1>7 DEF framingVars
  <2>2. Taken' = Taken
    BY <2>1 DEF Taken, EndOf
  <2> QED
    BY <2>1, <2>2 DEF FramingInvariant
<1> QED
  BY <1>1, <1>2, <1>3, <1>4, <1>5, <1>6, <1>7 DEF FramingNext

\* All that is sent up to a place in a frame is sent up to its beginning.
LEMMA SentBefore ==
  ASSUME NEW p, NEW fs, NEW ss, Line(p, fs, ss), NEW c \in 0..Len(fs), NEW t \in Nat, EndAt(fs, c) <= t,
         t = EndAt(fs, c) \/ (c < Len(fs) /\ t < EndAt(fs, c + 1)), NEW k \in 1..Len(ss), ss[k].end <= t
  PROVE  k <= CountAt(fs, c)
<1>1. fs \in Seq(FrameSet) /\ ss \in Seq(SentSet) /\ Ordered(fs, ss)
  BY DEF Line
<1>2. \A i \in 0..Len(fs) : k <= CountAt(fs, i) <=> ss[k].end <= EndAt(fs, i)
  BY <1>1 DEF Ordered
<1>3. ss[k].end \in Nat
  <2>1. ss[k] \in SentSet
    BY <1>1, ElementOfSeq
  <2> QED
    BY <2>1 DEF SentSet
<1>4. EndAt(fs, c) \in Nat /\ CountAt(fs, c) \in Nat
  BY <1>1, AtIs
<1>5. CASE t = EndAt(fs, c)
  <2>1. ss[k].end <= EndAt(fs, c)
    BY ONLY <1>5, ss[k].end <= t
  <2> QED
    BY <1>2, <2>1
<1>6. CASE c < Len(fs) /\ t < EndAt(fs, c + 1)
  <2>1. PICK d : d = c + 1
    OBVIOUS
  <2>2. d \in 1..Len(fs) /\ d \in 0..Len(fs) /\ d - 1 = c /\ d # 0
    BY <1>1, <1>6, <2>1
  <2>3. FrameOk(p, fs, ss, d)
    BY <2>2 DEF Line
  <2>4. EndAt(fs, d) = fs[d].end /\ CountAt(fs, d) = fs[d].messages /\ EndAt(fs, d) \in Nat /\ CountAt(fs, d) \in Nat
    BY <1>1, <2>2, AtIs DEF EndAt, CountAt
  <2>5. ss[k].end < EndAt(fs, d)
    BY ONLY <1>3, <1>6, <2>1, <2>4, ss[k].end <= t, t \in Nat
  <2>6. k <= CountAt(fs, d)
    BY ONLY <1>2, <1>3, <2>2, <2>4, <2>5
  <2>7. CountAt(fs, d) = CountAt(fs, c) + (IF fs[d].last THEN 1 ELSE 0)
    BY ONLY <2>2, <2>3, <2>4 DEF FrameOk
  <2>8. CASE ~fs[d].last
    BY ONLY <1>4, <2>6, <2>7, <2>8
  <2>9. CASE fs[d].last
    <3>1. ss[CountAt(fs, d)].end = EndAt(fs, d)
      BY ONLY <2>3, <2>4, <2>9 DEF FrameOk
    <3>2. k # CountAt(fs, d)
      BY ONLY <1>3, <2>4, <2>5, <3>1
    <3>3. CountAt(fs, d) = CountAt(fs, c) + 1
      BY ONLY <2>7, <2>9
    <3>4. k \in Nat
      OBVIOUS
    <3> QED
      BY ONLY <1>4, <2>6, <3>2, <3>3, <3>4
  <2> QED
    BY <2>8, <2>9
<1> QED
  BY <1>5, <1>6

\* Within a frame not all of it is there, but for the one of encodeClose().
LEMMA WithinIs ==
  ASSUME NEW p \in {"rpc", "websocket"}, NEW f, NEW begun, NEW close, FrameIs(p, f, begun, close), NEW s, NEW o, Within(p, s, f.bytes, begun, o)
  PROVE  /\ f.bytes \in Seq(Octet)
         /\ o < Len(f.bytes) \/ (o = Len(f.bytes) /\ s.rawHeader = Web!encodeClose /\ f.content = <<>> /\ close /\ f.last)
<1>1. CASE p = "rpc"
  <2>1. f.bytes \in Seq(Octet) /\ o \in 0..Len(f.bytes) - 1
    BY ONLY <1>1, FrameIs(p, f, begun, close), Within(p, s, f.bytes, begun, o) DEF FrameIs, RpcFrame, Within, RpcAt
  <2> QED
    BY <2>1
<1>2. CASE p = "websocket"
  <2>1. WebFrame(f.bytes, begun, f.content, f.last, close) /\ WebAt(s, f.bytes, begun, o)
    BY ONLY <1>2, FrameIs(p, f, begun, close), Within(p, s, f.bytes, begun, o) DEF FrameIs, Within
  <2>2. PICK b : b = f.bytes
    OBVIOUS
  <2>3. b \in Seq(Octet) /\ 2 <= Len(b) /\ HeaderLength(b) <= Len(b) /\ (close => f.last)
    BY ONLY <2>1, <2>2 DEF WebFrame
  <2>4. HeaderLength(b) \in Nat /\ Len(b) \in Nat
    BY <2>3, WebSizes
  <2>5. WebBefore(s, b, begun, o) \/ o < Len(b)
    BY ONLY <2>1, <2>2 DEF WebAt
  <2>6. CASE WebBefore(s, b, begun, o) /\ ~(o < Len(b))
    <3>1. o \in 0..Len(b) /\ (o <= 2 \/ o < HeaderLength(b)) /\ s.rawHeader = SubSeq(b, 1, o)
      BY ONLY <2>6 DEF WebBefore
    <3>2. o = 2 /\ Len(b) = 2
      <4>1. PICK h, l : h = HeaderLength(b) /\ l = Len(b)
        OBVIOUS
      <4>2. ~(o < l)
        BY ONLY <2>6, <4>1
      <4>3. h \in Nat /\ l \in Nat /\ 2 <= l /\ h <= l
        BY ONLY <2>3, <2>4, <4>1
      <4>4. o \in 0..l /\ (o <= 2 \/ o < h)
        BY ONLY <3>1, <4>1
      <4>5. o = 2 /\ l = 2
        BY ONLY <4>2, <4>3, <4>4
      <4> QED
        BY ONLY <4>1, <4>5
    <3>3. b = Web!encodeClose /\ f.content = <<>> /\ close
      BY ONLY <2>1, <2>2, <3>2, ShortFrame
    <3>4. SubSeq(b, 1, 2) = b
      BY ONLY <2>3, <3>2
    <3> QED
      BY ONLY <2>2, <2>3, <3>1, <3>2, <3>3, <3>4
  <2> QED
    BY ONLY <2>2, <2>3, <2>5, <2>6
<1> QED
  BY <1>1, <1>2

\* What the invariant says of the messages.
LEMMA FramingInvariantMeans == FramingInvariant => FramesArriveWhole
<1> SUFFICES ASSUME FramingInvariant PROVE FramesArriveWhole
  OBVIOUS
<1>1. Line(protocol, frames, sent) /\ Flow(frames, piece, stream, Taken)
  BY DEF FramingInvariant
<1>2. PICK c \in 0..Len(frames) : Place(protocol, frames, sent, receiver, received, Taken, c)
  BY DEF FramingInvariant
<1>3. /\ frames \in Seq(FrameSet) /\ sent \in Seq(SentSet) /\ Ordered(frames, sent) /\ Taken \in Nat
      /\ received \in Seq(MessageSet) /\ Len(received) = CountAt(frames, c) /\ EndAt(frames, c) <= Taken
      /\ \A k \in 1..Len(received) : received[k] = sent[k].message
  BY <1>1, <1>2 DEF Line, Flow, Place
<1>4. EndAt(frames, c) \in Nat /\ CountAt(frames, c) \in Nat
  BY <1>3, AtIs
<1>5. DOMAIN received = 1..Len(received) /\ DOMAIN sent = 1..Len(sent)
  BY <1>3
<1>6. Len(received) <= Len(sent)
  BY <1>3 DEF Ordered
<1>7. ASSUME NEW k \in 1..Len(received) PROVE sent[k].end <= Taken
  <2>1. k \in 1..Len(sent) /\ k <= CountAt(frames, c)
    BY <1>3, <1>6
  <2>2. sent[k].end <= EndAt(frames, c)
    BY <1>3, <2>1 DEF Ordered
  <2>3. sent[k].end \in Nat
    <3>1. sent[k] \in SentSet
      BY <1>3, <2>1, ElementOfSeq
    <3> QED
      BY <3>1 DEF SentSet
  <2> QED
    BY ONLY <1>3, <1>4, <2>2, <2>3
<1>8. ASSUME NEW k \in 1..Len(sent), sent[k].end <= Taken
      PROVE  \/ k \in 1..Len(received)
             \/ sent[k].end = Taken /\ sent[k].message = Message(<<>>, TRUE) /\ receiver.rawHeader = Web!encodeClose
  <2>1. k \in Nat /\ 1 <= k
    OBVIOUS
  <2> SUFFICES ASSUME k \notin 1..Len(received)
               PROVE  sent[k].end = Taken /\ sent[k].message = Message(<<>>, TRUE) /\ receiver.rawHeader = Web!encodeClose
    BY Zenon
  <2>2. ~(k <= CountAt(frames, c))
    BY <1>3, <1>4, <2>1
  <2>3. Taken # EndAt(frames, c)
    BY <1>1, <1>3, <1>8, <2>2, SentBefore
  <2>4. c < Len(frames) /\ Within(protocol, receiver, frames[c + 1].bytes, BegunAt(frames, c), Taken - EndAt(frames, c))
    BY ONLY <1>2, <2>3 DEF Place
  <2>5. PICK d, f, o, close : d = c + 1 /\ f = frames[d] /\ o = Taken - EndAt(frames, c) /\ close = CloseAt(frames, sent, d)
    OBVIOUS
  <2>6. Current(protocol, frames, sent, Taken, c, o, f, close)
    <3>1. Current(protocol, frames, sent, Taken, c, Taken - EndAt(frames, c), frames[c + 1], CloseAt(frames, sent, c + 1))
      BY ONLY <1>1, <1>2, <2>4, CurrentIs
    <3> QED
      BY ONLY <2>5, <3>1
  <2>7. /\ protocol \in {"rpc", "websocket"} /\ FrameIs(protocol, f, BegunAt(frames, c), close) /\ o \in Nat /\ Taken = EndAt(frames, c) + o
        /\ FrameOk(protocol, frames, sent, d) /\ close \in BOOLEAN
    BY ONLY <2>5, <2>6 DEF Current
  <2>8. Within(protocol, receiver, f.bytes, BegunAt(frames, c), o)
    BY ONLY <2>4, <2>5
  <2>9. /\ f.bytes \in Seq(Octet)
        /\ o < Len(f.bytes) \/ (o = Len(f.bytes) /\ receiver.rawHeader = Web!encodeClose /\ f.content = <<>> /\ close /\ f.last)
    BY ONLY <2>7, <2>8, WithinIs
  <2>10. d \in 1..Len(frames) /\ d - 1 = c /\ d # 0 /\ d \in 0..Len(frames)
    BY <1>3, <2>4, <2>5
  <2>11. EndAt(frames, d) = EndAt(frames, c) + Len(f.bytes) /\ EndAt(frames, d) = f.end
    BY ONLY <2>5, <2>7, <2>10 DEF FrameOk, EndAt
  <2>12. o = Len(f.bytes) /\ receiver.rawHeader = Web!encodeClose /\ f.content = <<>> /\ close /\ f.last
    <3>1. CASE o < Len(f.bytes)
      <4>1. Taken < EndAt(frames, d)
        BY <1>4, <2>7, <2>9, <2>11, <3>1
      <4>2. k <= CountAt(frames, c)
        BY <1>1, <1>3, <1>8, <2>4, <2>5, <4>1, SentBefore
      <4> QED
        BY ONLY <2>2, <4>2
    <3> QED
      BY ONLY <2>9, <3>1
  <2>13. Taken = EndAt(frames, d)
    BY ONLY <2>7, <2>11, <2>12
  <2>14. CountAt(frames, d) = f.messages /\ f.messages = CountAt(frames, c) + 1 /\ sent[f.messages].end = f.end
         /\ sent[f.messages].message.content = f.content /\ sent[f.messages].message.close = close /\ f.messages \in 1..Len(sent)
    BY ONLY <2>5, <2>7, <2>10, <2>12, SMTT(60) DEF FrameOk, CountAt, CloseAt
  <2>15. k <= CountAt(frames, d)
    BY <1>1, <1>3, <1>8, <2>10, <2>13, SentBefore
  <2>16. k = f.messages
    BY ONLY <1>4, <2>1, <2>2, <2>14, <2>15
  <2>17. sent[k] \in SentSet
    BY <1>3, ElementOfSeq
  <2>18. sent[k].message \in MessageSet
    BY <2>17 DEF SentSet
  <2>19. sent[k].message = Message(f.content, close)
    BY ONLY <2>14, <2>16, <2>18, MessageIs
  <2>20. close = TRUE
    BY ONLY <2>7, <2>12
  <2> QED
    BY ONLY <2>11, <2>12, <2>13, <2>14, <2>16, <2>19, <2>20
<1> QED
  BY ONLY <1>3, <1>5, <1>6, <1>7, <1>8 DEF FramesArriveWhole

-----------------------------------------------------------------------------
(* Whatever the pieces in which the bytes of a connection are read are,    *)
(* the parsers of the binary RPC protocol and of WebSocket give out every  *)
(* message that was sent, unchanged, in order, once, and as soon as its    *)
(* last byte is taken (but for the frame of encodeClose()), for any        *)
(* contents, headers, keys, lengths of pieces and numbers of messages.     *)
THEOREM FramesArriveWholeCorrect == FramingSpec => []FramesArriveWhole
<1>1. FramingInit => FramingInvariant
  BY FramingStarts
<1>2. FramingInvariant /\ [FramingNext]_framingVars => FramingInvariant'
  BY FramingKept
<1>3. FramingInvariant => FramesArriveWhole
  BY FramingInvariantMeans
<1> QED
  BY <1>1, <1>2, <1>3, PTL DEF FramingSpec
=============================================================================
