----------------------------------- MODULE Hgdc -----------------------------------
(***************************************************************************)
(* The client of the Daisy Chain Connector (Sockets/Hgdc.cpp): threads     *)
(* that call invoke() and wait for the response, the thread of listen()    *)
(* that reads packets and reconnects, and a user who starts and stops the  *)
(* client.  The gateway at the other end answers when it likes, or never,  *)
(* and the connection may break at any moment.                             *)
(*                                                                         *)
(* Each step ends where a thread takes or leaves a mutex, sleeps, or uses  *)
(* the socket.  _packetIdMutex and _rpcResponsesMutex are only held within *)
(* a step.  A packet travels in two pieces.  The queue of events is what   *)
(* FifoQueue promises, without its threads.                                *)
(***************************************************************************)
EXTENDS Integers, Sequences, FiniteSets

CONSTANTS
  Callers,       \* threads that call invoke()
  NoOne, Nothing,
  QueueSize,     \* the buffer size of the event queue
  MaxCalls,      \* calls of all callers
  MaxOthers      \* calls of start(), requests of the gateway and breaks

ASSUME HgdcAssumption ==
  /\ Callers \cap {NoOne, Nothing, "listener"} = {}
  /\ {QueueSize, MaxCalls, MaxOthers} \subseteq Nat

VARIABLES
  user,          \* where start() and stop() are
  listener,      \* where listen() is
  stopped,       \* _stopped
  quit,          \* _stopCallbackThread
  parser,        \* the packet _binaryRpc has the first piece of
  packet,        \* the packet listen() deals with
  link,          \* whether the connection is up
  wire,          \* pieces on their way to the client
  server,        \* requests the gateway has not answered
  queue,         \* the events for processQueueEntry()
  caller,        \* where each invoke() is
  id,            \* the packet id of its request
  infos,         \* the callers that have an entry of _requestInfo
  infoMutex,     \* the thread that holds _requestInfoMutex
  waitMutex,     \* for each caller, who holds the mutex of its entry
  waiting,       \* _rpcResponses: the packet id each caller waits for, or 0
  answer,        \* the packet id of the response the caller was given, or 0
  expired,       \* the timeout of the call is over
  result,        \* the response invoke() returns, 0 for "No response received."
  gaveUp,        \* history: the call saw its timeout or a closed connection
  left           \* how often things may still happen

ends == <<user, listener, stopped, quit>>
net == <<parser, packet, link, wire, server, queue>>
calls == <<caller, id, infos, infoMutex, waitMutex, waiting, answer, expired, result, gaveUp>>
vars == <<ends, net, calls, left>>

Init ==
  /\ user = "off" /\ listener = "ended" /\ stopped = TRUE /\ quit = TRUE
  /\ parser = Nothing /\ packet = Nothing
  /\ link = "down" /\ wire = <<>> /\ server = {} /\ queue = <<>>
  /\ caller = [t \in Callers |-> "idle"] /\ id = [t \in Callers |-> 0]
  /\ infos = {} /\ infoMutex = NoOne /\ waitMutex = [t \in Callers |-> NoOne]
  /\ waiting = [t \in Callers |-> 0] /\ answer = [t \in Callers |-> 0]
  /\ expired = [t \in Callers |-> FALSE] /\ result = [t \in Callers |-> 0]
  /\ gaveUp = [t \in Callers |-> FALSE]
  /\ left = [calls |-> MaxCalls, others |-> MaxOthers, id |-> 1]

\* enqueue(0, entry) does not wait: a full queue drops the entry, a stopped
\* one as well.
Enqueued(event) == IF user # "joining" /\ Len(queue) < QueueSize THEN Append(queue, event) ELSE queue

Pieces(p) == <<<<p, 1>>, <<p, 2>>>>
--------------------------------------------------------------------------------
(* start() and stop().                                                     *)

\* start() of a stopped client; one that runs is stopped first (Stop, Join).
\* The first connection may fail; then listen() tries again.
Start ==
  /\ user = "off" /\ left.others > 0
  /\ left' = [left EXCEPT !.others = @ - 1]
  /\ user' = "on" /\ listener' = "loop" /\ quit' = FALSE
  /\ \/ link' = "up" /\ stopped' = FALSE /\ queue' = Enqueued("reconnected")
     \/ UNCHANGED <<link, stopped, queue>>
  /\ UNCHANGED <<parser, packet, wire, server, calls>>

\* stopQueue() drops the events.
Stop ==
  /\ user = "on"
  /\ user' = "joining" /\ quit' = TRUE /\ queue' = <<>>
  /\ UNCHANGED <<listener, stopped, parser, packet, link, wire, server, calls, left>>

\* The listener ended; the socket goes.  Whoever called invoke() is done
\* with the socket by then: the code has no protection against that.
Join ==
  /\ user = "joining" /\ listener = "ended"
  /\ \A t \in Callers : caller[t] # "send"
  /\ user' = "off" /\ stopped' = TRUE
  /\ link' = "down" /\ wire' = <<>> /\ server' = {}
  /\ UNCHANGED <<listener, quit, parser, packet, queue, calls, left>>
--------------------------------------------------------------------------------
(* listen().                                                               *)

\* A lost connection is shut down and opened again after a second.
Loop ==
  /\ listener = "loop"
  /\ \/ quit /\ listener' = "ended" /\ UNCHANGED <<link, wire, server>>
     \/ /\ ~quit /\ (stopped \/ link = "down")
        /\ listener' = "open" /\ link' = "down" /\ wire' = <<>> /\ server' = {}
  /\ UNCHANGED <<user, stopped, quit, parser, packet, queue, calls, left>>

Open ==
  /\ listener = "open"
  /\ \/ quit /\ listener' = "ended" /\ UNCHANGED <<link, stopped, queue>>
     \/ /\ ~quit /\ listener' = "loop"
        /\ \/ link' = "up" /\ stopped' = FALSE /\ queue' = Enqueued("reconnected")
           \/ stopped' = TRUE /\ UNCHANGED <<link, queue>>
  /\ UNCHANGED <<user, quit, parser, packet, wire, server, calls, left>>

\* Read() throws without a connection; without data it times out, which
\* changes nothing.
ReadFails ==
  /\ listener = "loop" /\ ~stopped /\ link = "down" /\ wire = <<>>
  /\ stopped' = TRUE
  /\ UNCHANGED <<user, listener, quit, net, calls, left>>

\* _binaryRpc keeps a first piece.  It is not reset by a reconnect: the next
\* packet is then taken for the rest of the old one, and what follows is no
\* packet, which listen() tries again and again, or happens to be skipped.
ReadPiece ==
  LET p == Head(wire)[1]
      piece == Head(wire)[2]
  IN  /\ listener = "loop" /\ ~stopped /\ wire # <<>>
      /\ wire' = Tail(wire)
      /\ \/ /\ piece = 1 /\ parser = Nothing
            /\ parser' = p /\ listener' = "loop" /\ UNCHANGED packet
         \/ /\ piece = 2 /\ parser = p
            /\ parser' = Nothing /\ packet' = p /\ listener' = p.kind
         \/ /\ piece = 1 /\ parser # Nothing
            /\ parser' = Nothing /\ listener' \in {"spinning", "loop"} /\ UNCHANGED packet
         \/ /\ piece = 2 /\ parser # p
            /\ listener' \in {"spinning", "loop"} /\ UNCHANGED <<parser, packet>>
      /\ UNCHANGED <<user, stopped, quit, link, server, queue, calls, left>>

\* A request of the gateway is queued and acknowledged.
Request ==
  /\ listener = "request"
  /\ queue' = Enqueued("event")
  /\ listener' = "loop" /\ packet' = Nothing /\ stopped' = (stopped \/ link = "down")
  /\ UNCHANGED <<user, quit, parser, link, wire, server, calls, left>>

FindCaller ==
  /\ listener = "response" /\ infoMutex = NoOne
  /\ \/ packet.to \notin infos /\ listener' = "loop" /\ packet' = Nothing /\ UNCHANGED infoMutex
     \/ packet.to \in infos /\ listener' = "mark" /\ infoMutex' = "listener" /\ UNCHANGED packet
  /\ UNCHANGED <<user, stopped, quit, parser, link, wire, server, queue,
                 caller, id, infos, waitMutex, waiting, answer, expired, result, gaveUp, left>>

\* Mutant: the response is marked without the mutex of the wait.
WaitMutexIgnored(t) == TRUE
WaitMutexFree(t) == waitMutex[t] = NoOne

\* Mutant: any response will do.
AnswersAny(p) == waiting[p.to] # 0
Answers(p) == waiting[p.to] = p.id

Mark ==
  /\ listener = "mark" /\ WaitMutexFree(packet.to)
  /\ answer' = IF Answers(packet) THEN [answer EXCEPT ![packet.to] = packet.id] ELSE answer
  /\ listener' = "notify"
  /\ UNCHANGED <<user, stopped, quit, net, caller, id, infos, infoMutex, waitMutex, waiting,
                 expired, result, gaveUp, left>>

Notify ==
  /\ listener = "notify"
  /\ caller' = IF caller[packet.to] = "sleep" THEN [caller EXCEPT ![packet.to] = "lock"] ELSE caller
  /\ infoMutex' = NoOne /\ packet' = Nothing /\ listener' = "loop"
  /\ UNCHANGED <<user, stopped, quit, parser, link, wire, server, queue, id, infos, waitMutex,
                 waiting, answer, expired, result, gaveUp, left>>
--------------------------------------------------------------------------------
(* invoke().                                                               *)

At(t, here, there) == caller[t] = here /\ caller' = [caller EXCEPT ![t] = there]

\* Callers ask for the connection before (sendPacket, isMaster, ...).  The
\* caller and its packet id are entered under one mutex after the other.
Begin(t) ==
  /\ At(t, "idle", "send")
  /\ user = "on" /\ link = "up" /\ left.calls > 0 /\ infoMutex = NoOne
  /\ left' = [left EXCEPT !.calls = @ - 1, !.id = @ + 1]
  /\ infos' = infos \cup {t}
  /\ id' = [id EXCEPT ![t] = left.id] /\ waiting' = [waiting EXCEPT ![t] = left.id]
  /\ UNCHANGED <<ends, net, infoMutex, waitMutex, answer, expired, result, gaveUp>>

\* After five attempts the call waits all the same: "i == 5" is never true.
Send(t) ==
  /\ At(t, "send", "lock")
  /\ server' = IF link = "up" THEN server \cup {[kind |-> "response", to |-> t, id |-> id[t]]} ELSE server
  /\ UNCHANGED <<ends, parser, packet, link, wire, queue, id, infos, infoMutex, waitMutex, waiting,
                 answer, expired, result, gaveUp, left>>

\* Mutant: the timeout is only looked at when the connection is closed.
EndedUnlessOpen(t) == answer[t] # 0 \/ (stopped /\ expired[t])
Ended(t) == answer[t] # 0 \/ stopped \/ expired[t]

\* The predicate is tested with the mutex; the sleep gives it back.
Check(t) ==
  /\ caller[t] = "lock" /\ waitMutex[t] = NoOne
  /\ waitMutex' = [waitMutex EXCEPT ![t] = t]
  /\ caller' = [caller EXCEPT ![t] = IF Ended(t) THEN "end" ELSE "doze"]
  /\ gaveUp' = [gaveUp EXCEPT ![t] = answer[t] = 0 /\ Ended(t)]
  /\ UNCHANGED <<ends, net, id, infos, infoMutex, waiting, answer, expired, result, left>>

Sleep(t) ==
  /\ At(t, "doze", "sleep")
  /\ waitMutex' = [waitMutex EXCEPT ![t] = NoOne]
  /\ UNCHANGED <<ends, net, id, infos, infoMutex, waiting, answer, expired, result, gaveUp, left>>

\* wait_for ends after a second, or for no reason, and the call's time may be
\* over by then.
Wake(t, late) ==
  /\ At(t, "sleep", "lock")
  /\ expired' = [expired EXCEPT ![t] = late]
  /\ UNCHANGED <<ends, net, id, infos, infoMutex, waitMutex, waiting, answer, result, gaveUp, left>>

\* The mutex of the wait stays locked to the end of the function.
End(t) ==
  /\ At(t, "end", "forget")
  /\ result' = [result EXCEPT ![t] = IF answer[t] = id[t] THEN answer[t] ELSE 0]
  /\ waiting' = [waiting EXCEPT ![t] = 0]
  /\ UNCHANGED <<ends, net, id, infos, infoMutex, waitMutex, answer, expired, gaveUp, left>>

\* What the call knew goes with it.
Forget(t) ==
  /\ At(t, "forget", "idle")
  /\ infoMutex = NoOne
  /\ infos' = infos \ {t} /\ waitMutex' = [waitMutex EXCEPT ![t] = NoOne]
  /\ id' = [id EXCEPT ![t] = 0] /\ answer' = [answer EXCEPT ![t] = 0]
  /\ result' = [result EXCEPT ![t] = 0]
  /\ expired' = [expired EXCEPT ![t] = FALSE] /\ gaveUp' = [gaveUp EXCEPT ![t] = FALSE]
  /\ UNCHANGED <<ends, net, infoMutex, waiting, left>>
--------------------------------------------------------------------------------
(* The gateway, the network and the threads of the queue.                  *)

Respond(p) ==
  /\ p \in server /\ link = "up"
  /\ server' = server \ {p} /\ wire' = wire \o Pieces(p)
  /\ UNCHANGED <<ends, parser, packet, link, queue, calls, left>>

RaiseEvent ==
  /\ link = "up" /\ left.others > 0
  /\ left' = [left EXCEPT !.others = @ - 1]
  /\ wire' = wire \o Pieces([kind |-> "request"])
  /\ UNCHANGED <<ends, parser, packet, link, server, queue, calls>>

\* Pieces that arrived may still be read before the break is noticed.
Break ==
  /\ link = "up" /\ left.others > 0
  /\ left' = [left EXCEPT !.others = @ - 1]
  /\ link' = "down" /\ server' = {}
  /\ \E n \in 0..Len(wire) : wire' = SubSeq(wire, 1, n)
  /\ UNCHANGED <<ends, parser, packet, queue, calls>>

ProcessEvent ==
  /\ queue # <<>> /\ queue' = Tail(queue)
  /\ UNCHANGED <<ends, parser, packet, link, wire, server, calls, left>>

Listen == Loop \/ Open \/ ReadFails \/ ReadPiece \/ Request \/ FindCaller \/ Mark \/ Notify
Proceed(t) == Send(t) \/ Check(t) \/ Sleep(t) \/ Wake(t, FALSE) \/ End(t) \/ Forget(t)

Next ==
  \/ Start \/ Stop \/ Join
  \/ Listen
  \/ \E t \in Callers : Begin(t) \/ Proceed(t) \/ Wake(t, TRUE)
  \/ \E p \in server : Respond(p)
  \/ RaiseEvent \/ Break \/ ProcessEvent

Spec == Init /\ [][Next]_vars

(* Threads run on, waits end, and one of a call's waits ends after its     *)
(* timeout.  Nothing is asked of the gateway, the network or the user.     *)
Fairness ==
  /\ WF_vars(Join) /\ WF_vars(Listen)
  /\ \A t \in Callers : WF_vars(Proceed(t)) /\ SF_vars(Wake(t, TRUE))

FairSpec == Spec /\ Fairness
--------------------------------------------------------------------------------
(* A call returns the response to its own request or none at all, and none *)
(* only after it saw the timeout or a closed connection: neither a late    *)
(* response to an earlier call of the thread nor the response to another   *)
(* thread ends it (Hgdc::listen and Hgdc::invoke, _rpcResponses).          *)
OwnResponse ==
  \A t \in Callers : caller[t] = "forget" =>
    /\ result[t] \in {0, id[t]}
    /\ result[t] = 0 => gaveUp[t]

(* No caller sleeps on a response that was marked, except while listen()   *)
(* is on its way to wake it: the mark is set under the mutex of the wait,  *)
(* and nothing depends on the wait's poll.                                 *)
ResponseWakes ==
  \A t \in Callers : caller[t] = "sleep" /\ answer[t] # 0 => listener = "notify" /\ packet.to = t

(* Each response reaches the call it answers, and only that one.           *)
ResponsesArrive == OwnResponse /\ ResponseWakes

(* listen() holds _requestInfoMutex and waits for the mutex of a wait that *)
(* is over, whose thread waits for _requestInfoMutex.                      *)
Crossed == listener = "mark" /\ caller[packet.to] \in {"end", "forget"}

(* Whatever the gateway and the network do, a call ends and stop() returns *)
(* - unless a late response crosses the end of a call, or, for stop(), the *)
(* listener is caught by the remains of a packet that a break cut in two.  *)
CallsAndStopsReturn ==
  /\ \A t \in Callers : caller[t] # "idle" ~> caller[t] = "idle" \/ Crossed
  /\ user = "joining" ~> user = "off" \/ Crossed \/ listener = "spinning"
=================================================================================
