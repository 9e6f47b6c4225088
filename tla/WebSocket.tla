------------------------------------ MODULE WebSocket ------------------------------------
(***************************************************************************)
(* The framing of WebSocket messages (Encoding/WebSocket.cpp): encode(),   *)
(* encodeClose() and the parser.  A parser is a record of the members of   *)
(* WebSocket and of its Header; process() returns the parser, the bytes it *)
(* did not take and whether it threw.                                      *)
(***************************************************************************)
EXTENDS Integers, Sequences

MaxContent == 10485760

Opcode == [continuation |-> 0, text |-> 1, binary |-> 2, close |-> 8, ping |-> 9, pong |-> 10]
Known == {Opcode[o] : o \in DOMAIN Opcode}

\* Lengths have less than 32 bits here.
Length2(n) == <<(n \div 256) % 256, n % 256>>
Length8(n) == <<0, 0, 0, 0, (n \div 16777216) % 256, (n \div 65536) % 256, (n \div 256) % 256, n % 256>>
Value2(b) == b[1] * 256 + b[2]
Value8(b) ==
  ((((((b[1] * 256 + b[2]) * 256 + b[3]) * 256 + b[4]) * 256 + b[5]) * 256 + b[6]) * 256 + b[7]) * 256 + b[8]

\* The operator ^ on bytes.
Bits == <<1, 2, 4, 8, 16, 32, 64, 128>>
Xor(a, b) ==
  LET of(n, k) == (n \div Bits[k]) % 2
      bit(k) == IF of(a, k) = of(b, k) THEN 0 ELSE Bits[k]
  IN  bit(1) + bit(2) + bit(3) + bit(4) + bit(5) + bit(6) + bit(7) + bit(8)

\* Everything but a continuation has the final bit.
encode(data, opcode) ==
  <<IF opcode = Opcode.continuation THEN 0 ELSE 128 + opcode>>
  \o (CASE Len(data) < 126 -> <<Len(data)>>
        [] 126 <= Len(data) /\ Len(data) <= 65535 -> <<126>> \o Length2(Len(data))
        [] OTHER -> <<127>> \o Length8(Len(data)))
  \o data
encodeClose == <<128 + Opcode.close, 0>>
----------------------------------------------------------------------------
\* The constructor and reset() leave the same parser.
reset == [close |-> FALSE, parsed |-> FALSE, length |-> 0, fin |-> FALSE, reserved |-> FALSE,
          opcode |-> Opcode.close, hasMask |-> FALSE, maskingKey |-> <<>>, content |-> <<>>,
          oldContentSize |-> 0, finished |-> FALSE, rawHeader |-> <<>>]

After(buffer, size) == SubSeq(buffer, size + 1, Len(buffer))

\* Two bytes tell how long the header is.
Sized(s, buffer) ==
  LET first == s.rawHeader[1]
      second == s.rawHeader[2]
      size == second % 128
      lengthBytes == CASE size = 126 -> 2 [] size = 127 -> 8 [] OTHER -> 0
      masked == second >= 128
      headerSize == 2 + lengthBytes + (IF masked THEN 4 ELSE 0)
      missing == headerSize - Len(s.rawHeader)
      raw == s.rawHeader \o SubSeq(buffer, 1, missing)
      t == [s EXCEPT !.fin = first >= 128, !.reserved = (first \div 16) % 8 # 0, !.opcode = first % 16,
                     !.hasMask = masked, !.length = IF lengthBytes = 0 THEN size ELSE @]
  IN  IF Len(buffer) < missing
      THEN [parser |-> [t EXCEPT !.rawHeader = @ \o buffer], rest |-> <<>>]
      ELSE [parser |-> [t EXCEPT !.length = CASE lengthBytes = 2 -> Value2(SubSeq(raw, 3, 4))
                                              [] lengthBytes = 8 -> Value8(SubSeq(raw, 3, 10))
                                              [] OTHER -> @,
                                 !.maskingKey = IF masked THEN @ \o SubSeq(raw, headerSize - 3, headerSize) ELSE @,
                                 !.parsed = TRUE, !.rawHeader = <<>>],
            rest |-> After(buffer, missing)]

\* If the first two bytes are the last of the piece, the header is looked at with the next piece.
processHeader(s, buffer) ==
  LET missing == IF Len(s.rawHeader) < 2 THEN 2 - Len(s.rawHeader) ELSE 0
      t == [s EXCEPT !.rawHeader = @ \o SubSeq(buffer, 1, missing)]
  IN  IF Len(buffer) <= missing THEN [parser |-> [s EXCEPT !.rawHeader = @ \o buffer], rest |-> <<>>]
      ELSE Sized(t, After(buffer, missing))

\* The key is chosen by the position in the whole content and the key of the first fragment stays.
applyMask(s) ==
  IF ~s.hasMask THEN s.content
  ELSE [i \in 1..Len(s.content) |-> IF i <= s.oldContentSize THEN s.content[i]
                                     ELSE Xor(s.content[i], s.maskingKey[((i - 1) % 4) + 1])]

\* What is there of the next frames counts for the limit, too.
processContent(s, buffer) ==
  LET size == Len(s.content) - s.oldContentSize
      taken == IF size + Len(buffer) > s.length THEN s.length - size ELSE Len(buffer)
      t == [s EXCEPT !.content = @ \o SubSeq(buffer, 1, taken)]
      u == [t EXCEPT !.content = applyMask(t)]
  IN  IF size + Len(buffer) > MaxContent THEN [parser |-> s, rest |-> buffer, threw |-> TRUE]
      ELSE [parser |-> IF size + taken # s.length THEN t
                       ELSE IF s.fin THEN [u EXCEPT !.finished = TRUE]
                       ELSE [u EXCEPT !.parsed = FALSE, !.oldContentSize = Len(t.content)],
            rest |-> After(buffer, taken), threw |-> FALSE]

\* Empty messages and those with unknown bits are the last; only a close is read on.
Headed(s, buffer) ==
  LET last == s.length = 0 \/ s.reserved \/ s.opcode \notin Known
  IN  IF last /\ s.opcode # Opcode.close
      THEN [parser |-> [s EXCEPT !.close = TRUE, !.finished = TRUE], rest |-> buffer, threw |-> FALSE]
      ELSE processContent([s EXCEPT !.close = @ \/ last], buffer)

process(s0, buffer) ==
  LET s == IF s0.finished THEN reset ELSE s0
      head == processHeader(s, buffer)
  IN  IF s.parsed THEN Headed(s, buffer)
      ELSE IF head.parser.parsed THEN Headed(head.parser, head.rest)
      ELSE [parser |-> head.parser, rest |-> head.rest, threw |-> FALSE]
==========================================================================================
