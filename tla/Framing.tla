------------------------------------- MODULE Framing -------------------------------------
(***************************************************************************)
(* A connection on which messages travel in frames of the binary RPC       *)
(* protocol (BinaryRpc) or of WebSocket (WebSocket).  The receiver reads   *)
(* pieces of any length from it and calls process() until it has taken     *)
(* all of a piece, as servers and clients do outside of the library.       *)
(***************************************************************************)
EXTENDS Integers, Sequences

CONSTANTS Payloads,   \* what messages or their fragments carry
          RpcHeaders, \* the encoded headers of requests, <<>> for none
          Keys,       \* the masking keys of WebSocket clients
          Opcodes,    \* the kinds of WebSocket messages
          MaxPiece,   \* how many bytes are read at a time
          MaxMessages

Rpc == INSTANCE BinaryRpc
Web == INSTANCE WebSocket

Octet == 0..255

ASSUME FramingAssumption ==
  /\ MaxPiece \in Nat \ {0} /\ MaxPiece <= Web!MaxContent /\ MaxMessages \in Nat
  /\ Opcodes \subseteq Web!Known \ {Web!Opcode.continuation, Web!Opcode.close}
  /\ \A p \in Payloads : p \in Seq(Octet) /\ p # <<>> /\ Len(p) + MaxPiece <= Web!MaxContent
  /\ \A h \in RpcHeaders : h \in Seq(Octet) /\ Len(h) <= Rpc!MaxHeaderSize
  /\ \A k \in Keys : k \in Seq(Octet) /\ Len(k) = 4

VARIABLES
  protocol,  \* "none" before anything is sent, then "rpc" or "websocket"
  sent,      \* the messages, each with the place at which its last byte lies
  frames,    \* the frames, each with what is complete of messages with it
  stream,    \* the bytes on their way
  piece,     \* those that were read and not taken by process() yet
  receiver,  \* the parser
  received   \* the messages it found
framingVars == <<protocol, sent, frames, stream, piece, receiver, received>>

FramingInit ==
  /\ protocol = "none" /\ receiver = <<>>
  /\ sent = <<>> /\ frames = <<>> /\ stream = <<>> /\ piece = <<>> /\ received = <<>>
----------------------------------------------------------------------------
(* The sender.                                                             *)

\* What is there with the first i frames: bytes, messages, and the beginning of a message.
EndOf(i) == IF i = 0 THEN 0 ELSE frames[i].end
MessagesOf(i) == IF i = 0 THEN 0 ELSE frames[i].messages
Begun(i) == IF i = 0 THEN <<>> ELSE IF frames[i].last THEN <<>> ELSE frames[i].content

Message(content, close) == [content |-> content, close |-> close]

\* A frame that carries on with a message, or is one; all are of one protocol.
Transmit(bytes, content, last, close, name) ==
  LET n == Len(frames)
      end == EndOf(n) + Len(bytes)
  IN  /\ protocol \in {"none", name} /\ protocol' = name
      /\ Len(sent) < MaxMessages
      /\ \A i \in DOMAIN sent : ~sent[i].message.close
      /\ stream' = stream \o bytes
      /\ frames' = Append(frames, [bytes |-> bytes, end |-> end, content |-> content, last |-> last,
                                   messages |-> MessagesOf(n) + (IF last THEN 1 ELSE 0)])
      /\ sent' = IF last THEN Append(sent, [message |-> Message(content, close), end |-> end]) ELSE sent
      /\ receiver' = IF protocol = name THEN receiver ELSE IF name = "rpc" THEN Rpc!reset ELSE Web!reset
      /\ UNCHANGED <<piece, received>>

SendRpc(payload) ==
  \E frame \in {Rpc!encodeRequest(h, payload) : h \in RpcHeaders} \cup {Rpc!encodeResponse(e, payload) : e \in BOOLEAN} :
    Transmit(frame, frame, TRUE, FALSE, "rpc")

\* A peer outside of the library masks, and may use any length.
Mask(data, key) == [i \in 1..Len(data) |-> Web!Xor(data[i], key[((i - 1) % 4) + 1])]
Masked(data, opcode, key, lengthBytes) ==
  <<128 + opcode>> \o (CASE lengthBytes = 0 -> <<128 + Len(data)>>
                         [] lengthBytes = 2 -> <<254>> \o Web!Length2(Len(data))
                         [] OTHER -> <<255>> \o Web!Length8(Len(data)))
  \o key \o Mask(data, key)

\* How many more bytes a length may take.
MayTake(n, lengthBytes) == (lengthBytes = 0 => n < 126) /\ (lengthBytes = 2 => n <= 65535)

\* A message in one frame.  No other frames come between those of a message.
SendWhole(payload) ==
  /\ Begun(Len(frames)) = <<>>
  /\ \E opcode \in Opcodes :
       \/ Transmit(Web!encode(payload, opcode), payload, TRUE, FALSE, "websocket")
       \/ \E key \in Keys, lengthBytes \in {0, 2, 8} :
            /\ MayTake(Len(payload), lengthBytes)
            /\ Transmit(Masked(payload, opcode, key, lengthBytes), payload, TRUE, FALSE, "websocket")

\* A message in several frames, without a mask.
Fragment(data, opcode, fin) ==
  [Web!encode(data, opcode) EXCEPT ![1] = opcode + (IF fin THEN 128 ELSE 0)]
SendFragment(payload) ==
  LET begun == Begun(Len(frames))
  IN  \E fin \in BOOLEAN :
        /\ fin => begun # <<>>
        /\ Transmit(Fragment(payload, IF begun = <<>> THEN Web!Opcode.binary ELSE Web!Opcode.continuation, fin),
                    begun \o payload, fin, FALSE, "websocket")

SendClose ==
  /\ Begun(Len(frames)) = <<>>
  /\ \E frame \in {Web!encodeClose} \cup {Masked(<<>>, Web!Opcode.close, key, 0) : key \in Keys} :
       Transmit(frame, <<>>, TRUE, TRUE, "websocket")
----------------------------------------------------------------------------
(* The receiver.                                                           *)

Read ==
  /\ piece = <<>>
  /\ \E n \in 1..MaxPiece :
       /\ n <= Len(stream)
       /\ piece' = SubSeq(stream, 1, n)
       /\ stream' = SubSeq(stream, n + 1, Len(stream))
  /\ UNCHANGED <<protocol, sent, frames, receiver, received>>

\* A parser that has finished has a message for the server; one that throws has the connection closed.
Found(q) == IF protocol = "rpc" THEN Message(q.parser.data, q.threw) ELSE Message(q.parser.content, q.parser.close)
Process ==
  /\ piece # <<>>
  /\ \E q \in {IF protocol = "rpc" THEN Rpc!process(receiver, piece) ELSE Web!process(receiver, piece)} :
       /\ receiver' = q.parser
       /\ piece' = IF q.threw THEN <<>> ELSE q.rest
       /\ received' = IF q.parser.finished THEN Append(received, Found(q)) ELSE received
  /\ UNCHANGED <<protocol, sent, frames, stream>>

FramingNext ==
  \/ \E payload \in Payloads : SendRpc(payload) \/ SendWhole(payload) \/ SendFragment(payload)
  \/ SendClose \/ Read \/ Process
FramingSpec == FramingInit /\ [][FramingNext]_framingVars
----------------------------------------------------------------------------
\* How many bytes process() has taken of all that were sent.
Taken == EndOf(Len(frames)) - Len(piece) - Len(stream)

(***************************************************************************)
(* The receiver has got what was sent in the frames that process() has     *)
(* taken completely, unchanged, in order and nothing else, whatever the    *)
(* pieces were (the buffering in BinaryRpc::process() and                  *)
(* WebSocket::process()).  One frame is noticed only with the byte after   *)
(* it: an empty one without a mask whose header ends with a piece, such as *)
(* that of encodeClose().                                                  *)
(***************************************************************************)
FramesArriveWhole ==
  /\ Len(received) <= Len(sent)
  /\ \A k \in DOMAIN received : received[k] = sent[k].message
  /\ \A k \in DOMAIN received : sent[k].end <= Taken
  /\ \A k \in DOMAIN sent : sent[k].end <= Taken =>
       \/ k \in DOMAIN received
       \/ sent[k].end = Taken /\ sent[k].message = Message(<<>>, TRUE) /\ receiver.rawHeader = Web!encodeClose
==========================================================================================
