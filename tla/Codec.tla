-------------------------------------- MODULE Codec --------------------------------------
(***************************************************************************)
(* The way of a value through the library: the description of its          *)
(* parameter is loaded from a file (DeviceFile), the value is converted by *)
(* it (Parameter), its bits are put into a packet (BitReaderWriter), the   *)
(* packet travels in frames of one of two protocols (Framing), and the     *)
(* receiver reads the values back.  The calls from one step to the next    *)
(* are made by device families and by servers outside of the library.      *)
(* Values of the RPC interfaces are encoded and decoded in many more ways  *)
(* (Encodings), once and again.                                            *)
(* The descriptions of HomeMatic devices are converted (HmConverter).      *)
(***************************************************************************)
EXTENDS Parameter, BitReaderWriter, HmConverter, Framing

CONSTANTS Description, \* the parameters of the packet, by name
          Values,      \* the values that are written to each
          Index,       \* the bit of the packet at which each begins
          Contents,    \* what the bytes of the packet may be before
          MaxWrites,
          SendAfter,   \* the writes after which the packet is sent
          Samples,     \* values of the RPC interfaces
          RpcOptions,  \* settings of the binary protocol
          MaxHops      \* how often a value is relayed

Enc == INSTANCE Encodings

VARIABLES
  packet,    \* the payload the sender builds
  written,   \* the value last written to a parameter
  writes,    \* how many there were
  talk       \* the way a value of the RPC interfaces takes, what was said and what was heard
codecVars == <<packet, written, writes>>
vars == <<fileVars, codecVars, framingVars, talk, homematic>>

Names == DOMAIN Description

\* What the conversions use of a loaded parameter, if there is one of this name.
InUse(name) ==
  LET groups(d) == {GroupOf(d, d.functions[c], "variables") : c \in DOMAIN d.functions}
  IN  {Conversion(p) : p \in {q \in UNION {Range(g.ordered) : g \in UNION {groups(d) : d \in Range(device)}} : q.id = name}}

\* The value of a parameter in a packet.
ReadFrom(name, data) ==
  LET p == Description[name]
  IN  LogicalValue(p, convertFromPacket(p, getPosition(data, Index[name], BitSize(p))))

Init ==
  /\ FileInit
  /\ packet \in Contents
  /\ written = [name \in Names |-> ReadFrom(name, packet)]
  /\ writes = 0
  /\ FramingInit
  /\ talk = [hops |-> 0]
  /\ homematic = <<>>
----------------------------------------------------------------------------
(* The sender.                                                             *)

\* The bytes of the value, least significant one first.
LeastFirst(p, data) ==
  Reverse([i \in 1..ByteSize(p) |-> At(data, i - 1 + Len(data) - ByteSize(p))])

Stored(name, x, data, leastFirst) ==
  LET p == Description[name]
      bytes == convertToPacket(p, ToVariable(p, x))
  IN  IF leastFirst THEN setPositionLE(Index[name], BitSize(p), data, LeastFirst(p, bytes))
                    ELSE setPositionBE(Index[name], BitSize(p), data, bytes)

Write(name) ==
  /\ Description[name] \in InUse(name) /\ saves = 0
  /\ writes < MaxWrites /\ frames = <<>>
  /\ writes' = writes + 1
  /\ \E x \in Values[name], leastFirst \in BOOLEAN :
       /\ packet' = Stored(name, x, packet, leastFirst)
       /\ written' = [written EXCEPT ![name] = x]
  /\ UNCHANGED <<fileVars, framingVars, talk, homematic>>

\* The packet of a device that is there is sent, in fragments one part after the other.
Send ==
  LET rest == SubSeq(packet, Len(Begun(Len(frames))) + 1, Len(packet))
  IN  /\ piece = <<>> /\ Len(sent) < MaxMessages \* bounds
      /\ saves = 0 /\ \E name \in Names : Description[name] \in InUse(name)
      /\ writes = SendAfter
      /\ \/ SendRpc(packet) \/ SendWhole(packet) \/ SendClose
         \/ \E n \in {Len(rest) \div 2, Len(rest)} \ {0} :
              SendFragment(SubSeq(rest, 1, n)) /\ (n < Len(rest) <=> sent' = sent)
      /\ UNCHANGED <<fileVars, codecVars, talk, homematic>>

Receive == (Read \/ Process) /\ UNCHANGED <<fileVars, codecVars, talk, homematic>>

\* The file is not touched while the description is in use; it is used before it was saved (a bound).
File == FileNext /\ writes = 0 /\ frames = <<>> /\ talk.hops = 0 /\ homematic = <<>> /\ UNCHANGED <<codecVars, framingVars, talk, homematic>>
----------------------------------------------------------------------------
(* Values of the RPC interfaces.                                           *)

\* One side tells the other, which tells it on in the same way.
Pairs == IF talk.hops = 0 THEN Enc!Ways(RpcOptions) \X Samples ELSE {<<talk.way, talk.heard.value>>}

\* They do not depend on the rest: they are told in one initial state (a bound).
Untouched == device = <<>> /\ saves = 0 /\ file = (CHOOSE f \in Files : TRUE) /\ packet = (CHOOSE p \in Contents : TRUE)

Tell ==
  /\ talk.hops < MaxHops /\ (talk.hops > 0 => ~talk.heard.thrown)
  /\ Untouched /\ homematic = <<>>
  /\ \E x \in Pairs :
       /\ Enc!Fits(x[1], x[2])
       /\ talk' = [hops |-> talk.hops + 1, way |-> x[1], said |-> x[2], heard |-> Enc!Relay(x[1], x[2])]
  /\ UNCHANGED <<fileVars, codecVars, framingVars, homematic>>

\* The description of a HomeMatic device is converted, and asked for more channels, in the same state.
HomeMatic ==
  /\ Untouched /\ talk.hops = 0
  /\ LoadHomeMatic \/ \E count \in 1..MaxChannels + 1 : SetCountFromSysinfo(count)
  /\ UNCHANGED <<fileVars, codecVars, framingVars, talk>>

Next == \/ File \/ Tell \/ HomeMatic
        \/ (\E name \in Names : Write(name)) \/ Send \/ Receive
Spec == Init /\ [][Next]_vars
----------------------------------------------------------------------------
(* Properties.                                                             *)

\* The values that some bits of the packet stand for.
Readings ==
  [name \in Names |->
     LET p == Description[name]
         bytes(n) == [i \in 1..ByteSize(p) |-> (n \div 256^(ByteSize(p) - i)) % 256]
     IN  {LogicalValue(p, convertFromPacket(p, bytes(n))) : n \in 0..2^BitSize(p) - 1}]

(***************************************************************************)
(* Three kinds of values are not read back although they could be: with an *)
(* inverted role the mirror image of the default value, whose bits are     *)
(* those of the default value, which is never inverted; values of an       *)
(* enumeration outside of its range, which only writing brings back into   *)
(* it; and the numbers whose mantissa has all bits set, because            *)
(* integerTinyFloat halves while the mantissa is at least its maximum.     *)
(***************************************************************************)
Deviates(p, x) ==
  \/ p.logical \in {"tInteger", "tFloat"} /\ p.invert /\ x = Mirrored(p, p.defaultValue)
  \/ p.logical = "tEnum" /\ x \notin p.minimumValue..p.maximumValue
  \/ \E i \in DOMAIN p.casts :
       /\ p.casts[i].name = "integerTinyFloat"
       /\ \E e \in 0..2^p.casts[i].exponentSize - 1 : x = (2^p.casts[i].mantissaSize - 1) * 2^e

(***************************************************************************)
(* Every parameter of the packet, however its bits lie beside those of     *)
(* others, reads as the value last written to it, if the packet can hold   *)
(* that value at all; if it can not, then the value that is read is one    *)
(* that is read again after it is written back.  The reading functions     *)
(* agree with each other (convertToPacket(), setPositionBE(),              *)
(* setPositionLE(), getPosition(), convertFromPacket()).  The packet does  *)
(* not change any more once it is sent.                                    *)
(***************************************************************************)
WrittenIsRead ==
  frames = <<>> => \A name \in Names :
    /\ written[name] \in Readings[name] /\ ~Deviates(Description[name], written[name])
       => ReadFrom(name, packet) = written[name]
    /\ \E r \in {ReadFrom(name, packet)} :
         r \in Readings[name] /\ (~Deviates(Description[name], r) => ReadFrom(name, Stored(name, r, packet, FALSE)) = r)
    /\ LET size == BitSize(Description[name])
           bits == getPosition(packet, Index[name], size)
       IN  \A width \in {8, 16, 32, 64} : size <= width => getPositionNumber(width, packet, Index[name], size) = FromBytes(bits)

(***************************************************************************)
(* A value that an encoding can express arrives as it was said, in every   *)
(* kind of message and with every setting of the encoder and decoder, and  *)
(* an error arrives as one where the protocol has errors (JsonEncoder,     *)
(* XmlrpcEncoder, RpcEncoder and their decoders).  Whatever else is said   *)
(* can be read, too, and is then a value that does not change any more     *)
(* when it is told on, except what grows with each relay.                  *)
(***************************************************************************)
DecodedIsEncoded ==
  talk.hops > 0 =>
    LET way == talk.way
        said == talk.said
        expected == Enc!Heard(Enc!Expected(way, Enc!Told(way, said)))
    IN  /\ ~Enc!Unreadable(way, said) => ~talk.heard.thrown
        /\ Enc!Comes(way, Enc!Told(way, said)) \/ Enc!FaultComes(way, said) => talk.heard = expected
        /\ talk.hops > 1 /\ ~Enc!Unsettled(way, said) => talk.heard = expected
==========================================================================================
