------------------------------------ MODULE BinaryRpc ------------------------------------
(***************************************************************************)
(* The framing of the binary RPC protocol: the frames that RpcEncoder      *)
(* writes and the parser that finds them in pieces of any length           *)
(* (Encoding/RpcEncoder.cpp, Encoding/BinaryRpc.cpp).  A parser is a       *)
(* record of the members of BinaryRpc; process() returns the parser, the   *)
(* bytes it did not take and what happened.                                *)
(***************************************************************************)
EXTENDS Integers, Sequences

MaxHeaderSize == 102400         \* the default
MaxContentSize == 104857600     \* the default

Bin == <<66, 105, 110>>
Size4(n) == <<(n \div 16777216) % 256, (n \div 65536) % 256, (n \div 256) % 256, n % 256>>
Number4(data, at) == ((data[at + 1] * 256 + data[at + 2]) * 256 + data[at + 3]) * 256 + data[at + 4]

(***************************************************************************)
(* Frames: "Bin", the type, header and content, each with its size.  The   *)
(* type is 0 for requests, 1 for responses and 255 for errors; 64 is added *)
(* for a header, which only requests have.                                 *)
(***************************************************************************)
encodeRequest(header, content) ==
  Bin \o (IF header = <<>> THEN <<0>> ELSE <<64>> \o Size4(Len(header)) \o header) \o Size4(Len(content)) \o content
encodeResponse(isError, content) ==
  Bin \o <<IF isError THEN 255 ELSE 1>> \o Size4(Len(content)) \o content
----------------------------------------------------------------------------
reset == [data |-> <<>>, type |-> "unknown", dataProcessingStarted |-> FALSE, finished |-> FALSE,
          hasHeader |-> FALSE, headerSize |-> 0, dataSize |-> 0]

More(s, buffer) == [parser |-> [s EXCEPT !.data = @ \o buffer], rest |-> <<>>, threw |-> FALSE]
Throw(s, buffer) == [parser |-> [s EXCEPT !.finished = TRUE], rest |-> buffer, threw |-> TRUE]

\* Take this many bytes.
Insert(s, buffer, size) == [s EXCEPT !.data = @ \o SubSeq(buffer, 1, size)]
After(buffer, size) == SubSeq(buffer, size + 1, Len(buffer))

Content(s, buffer) ==
  LET missing == 8 + s.dataSize - Len(s.data)
  IN  IF Len(buffer) < missing THEN More(s, buffer)
      ELSE IF missing <= 0 THEN Throw(s, buffer)
      ELSE [parser |-> [Insert(s, buffer, missing) EXCEPT !.finished = TRUE],
            rest |-> After(buffer, missing), threw |-> FALSE]

\* The bytes that hold the size of the content are forgotten.
HeaderForgotten(s, buffer) ==
  LET missing == 8 + s.headerSize + 4 - Len(s.data)
      t == Insert(s, buffer, missing)
      size == Number4(t.data, 8 + s.headerSize) + s.headerSize
  IN  IF Len(buffer) < missing THEN More(s, buffer)
      ELSE IF missing <= 0 THEN Throw(s, buffer)
      ELSE IF size > MaxContentSize THEN Throw(t, After(buffer, missing))
      ELSE Content([t EXCEPT !.dataSize = size, !.dataProcessingStarted = TRUE], After(buffer, missing))

\* The size of the content comes after the header; from here on it includes the header.
Header(s, buffer) ==
  LET missing == 8 + s.headerSize + 4 - Len(s.data)
      t == Insert(s, buffer, missing)
      size == Number4(t.data, 8 + s.headerSize) + s.headerSize + 4
  IN  IF Len(buffer) < missing THEN More(s, buffer)
      ELSE IF missing <= 0 THEN Throw(s, buffer)
      ELSE IF size > MaxContentSize THEN Throw(t, After(buffer, missing))
      ELSE Content([t EXCEPT !.dataSize = size, !.dataProcessingStarted = TRUE], After(buffer, missing))

\* At least 8 bytes are there.  This part runs again with every piece until the content begins.
Begin(s, buffer) ==
  LET withHeader == s.data[4] \in {64, 65}
      size == Number4(s.data, 4)
      t == [s EXCEPT !.type = IF s.data[4] % 2 = 1 THEN "response" ELSE "request",
                     !.hasHeader = @ \/ withHeader,
                     !.headerSize = IF withHeader THEN size ELSE @,
                     !.dataSize = IF withHeader THEN @ ELSE size]
  IN  IF SubSeq(s.data, 1, 3) # Bin THEN Throw(s, buffer)
      ELSE IF size = 0 \/ size > (IF withHeader THEN MaxHeaderSize ELSE MaxContentSize) THEN Throw(t, buffer)
      ELSE IF withHeader THEN Header(t, buffer)
      ELSE Content([t EXCEPT !.dataProcessingStarted = TRUE], buffer)

process(s0, buffer) ==
  LET s == IF s0.finished THEN reset ELSE s0
      missing == IF Len(s.data) < 8 THEN 8 - Len(s.data) ELSE 0
  IN  IF s.dataProcessingStarted THEN Content(s, buffer)
      ELSE IF Len(buffer) < missing THEN More(s, buffer)
      ELSE Begin(Insert(s, buffer, missing), After(buffer, missing))
==========================================================================================
