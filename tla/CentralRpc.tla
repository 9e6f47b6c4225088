------------------------------ MODULE CentralRpc ------------------------------
(***************************************************************************)
(* What a central answers to clients that read (Systems/ICentral): it asks *)
(* one peer, found by its id or its serial number, or all of them, without *)
(* those that the client may not read when its ACLs are to be checked.     *)
(* All lists of peers are copied under the mutex of the maps first.        *)
(*                                                                         *)
(* Of the peers only ThePeer has channels that are placed; another one     *)
(* answers for its links and otherwise only who it is.                     *)
(***************************************************************************)
EXTENDS PeerRpc

CONSTANTS
  LinksOf        \* of each <<peer, channel>> its links: <<[to, channel, sender], ...>>

\* Peers are linked by the entries of their channels.
ASSUME CentralRpcAssumption ==
  \A x \in DOMAIN LinksOf :
    /\ x = <<x[1], x[2]>> /\ x[1] \in Peers
    /\ LinksOf[x] \in Seq([to : Peers, channel : Int, sender : BOOLEAN])
    /\ \A i \in DOMAIN LinksOf[x] : LinksOf[x][i].to \in LinkedTo[x[1]]

Elsewhere(p) == [peer |-> p]

Asked(checkAcls) == {p \in getPeers : checkAcls => deviceAccess("Read", ViewOf(IdOf(p), PlaceOf(p)))}

\* One peer, all peers, and all that have something to tell.
AskOne(kind, name, answer) ==
  CASE ~peerExists(kind, name) -> Error(-2)
    [] peerExists(kind, name) /\ getPeer(kind, name) # ThePeer -> Elsewhere(getPeer(kind, name))
    [] OTHER -> answer
AskAll(checkAcls, answer) ==
  [id \in {IdOf(p) : p \in Asked(checkAcls)} |-> IF id = IdOf(ThePeer) THEN answer ELSE <<>>]
AskSome(checkAcls, answer) ==
  If(ThePeer \in Asked(checkAcls) /\ DOMAIN answer # {}, [id \in {IdOf(ThePeer)} |-> answer])
AskWhich(checkAcls, answer) ==
  If(ThePeer \in Asked(checkAcls) /\ answer # {}, [id \in {IdOf(ThePeer)} |-> answer])

AllConfigs(client, checkAcls) == AskAll(checkAcls, getAllConfig(client))
AllValues(client, returnWriteOnly, checkAcls) ==
  AskAll(checkAcls, getAllValues(client, returnWriteOnly, checkAcls))
ConfigParameter(kind, name, client, channel, key) ==
  AskOne(kind, name, getConfigParameter(client, channel, key))
Value(kind, name, client, channel, key) == AskOne(kind, name, getValue(client, channel, key))
Description(kind, name, channel, fields) == AskOne(kind, name, getDeviceDescription(channel, fields))
DescriptionOfVariable(id, client, channel, key) ==
  AskOne("id", id, getVariableDescription(client, channel, key))

\* By the serial number no ACL is checked.
Paramset(kind, name, client, channel, type, checkAcls) ==
  AskOne(kind, name, getParamset(client, channel, type, kind = "id" /\ checkAcls))
ParamsetDescription(kind, name, client, channel, type, checkAcls) ==
  AskOne(kind, name, getParamsetDescription(client, channel, type, kind = "id" /\ checkAcls))

ChannelsInRoom(room, checkAcls) == AskWhich(checkAcls, getChannelsInRoom(room))
ChannelsInBuildingPart(part, checkAcls) == AskWhich(checkAcls, getChannelsInBuildingPart(part))
ChannelsInCategory(category, checkAcls) == AskWhich(checkAcls, getChannelsInCategory(category))

\* These check no ACLs.
DevicesInRoom(room) == {IdOf(p) : p \in {q \in getPeers : room = (IF q = ThePeer THEN getRoom(-1) ELSE 0)}}
DevicesInBuildingPart(part) ==
  {IdOf(p) : p \in {q \in getPeers : part = (IF q = ThePeer THEN getBuildingPart(-1) ELSE 0)}}
DevicesInCategory(category) == {IdOf(p) : p \in {q \in getPeers : q = ThePeer /\ hasCategory(-1, category)}}

VariablesInRoom(room, returnDeviceAssigned, checkAcls) ==
  AskWhich(checkAcls, getVariablesInRoom(room, returnDeviceAssigned, checkAcls))
VariablesInBuildingPart(part, returnDeviceAssigned, checkAcls) ==
  AskWhich(checkAcls, getVariablesInBuildingPart(part, returnDeviceAssigned, checkAcls))
VariablesInCategory(category, checkAcls) == AskWhich(checkAcls, getVariablesInCategory(category, checkAcls))
VariablesInRole(role, checkAcls) == AskSome(checkAcls, getVariablesInRole(role, checkAcls))
RolesInRoom(room, checkAcls) == AskSome(checkAcls, getRolesInRoom(room, checkAcls))

listDevices(channels, fields, known, checkAcls) ==
  [id \in {IdOf(p) : p \in Asked(checkAcls)} \ known |->
     IF id = IdOf(ThePeer) THEN getDeviceDescriptions(channels, fields) ELSE <<>>]
--------------------------------------------------------------------------------
(* Links.  Each end has an entry with the id of the other one.             *)

LinkedChannels(p) == {c \in {x[2] : x \in DOMAIN LinksOf} : <<p, c>> \in DOMAIN LinksOf}

\* Peer::getPeer: the entry of the channel for a peer, and its channel if one is asked for (-1: any).
EntryOf(p, channel, id, remoteChannel) ==
  IF channel \notin LinkedChannels(p) THEN {}
  ELSE {i \in DOMAIN LinksOf[<<p, channel>>] :
          LET link == LinksOf[<<p, channel>>][i]
          IN  entry["id"][<<p, link.to>>] = id /\ remoteChannel \in {-1, link.channel}}

Known(p, link) == peerExists("id", entry["id"][<<p, link.to>>])
Remote(p, link) == getPeer("id", entry["id"][<<p, link.to>>])
KnowsMe(p, channel, link) == EntryOf(Remote(p, link), link.channel, IdOf(p), channel) # {}

LinkElement(p, channel, link) ==
  LET here == [id |-> IdOf(p), serial |-> own["serial"][p], channel |-> channel]
      there == [id |-> IdOf(Remote(p, link)), serial |-> own["serial"][Remote(p, link)], channel |-> link.channel]
  IN  IF link.sender THEN [SENDER |-> here, RECEIVER |-> there] ELSE [SENDER |-> there, RECEIVER |-> here]

\* Mutant: a receiver tells its links, too.
getLinkTwice(p, channel, avoidDuplicates) ==
  LET links == LinksOf[<<p, channel>>]
  IN  [i \in {j \in DOMAIN links : LinkTypes[<<p, channel>>] # {} /\ Known(p, links[j])} |->
         LinkElement(p, channel, links[i])]

\* The sender tells a link that both ends know; a receiver that meets such
\* a link stops and does not look at the links that follow.
getLink(p, channel, avoidDuplicates) ==
  LET links == LinksOf[<<p, channel>>]
      stops(j) == avoidDuplicates /\ Known(p, links[j]) /\ ~links[j].sender /\ KnowsMe(p, channel, links[j])
      told == {i \in DOMAIN links : Known(p, links[i]) /\ \A j \in 1..i : ~stops(j)}
  IN  [i \in IF LinkTypes[<<p, channel>>] = {} THEN {} ELSE told |-> LinkElement(p, channel, links[i])]

\* All links, listed by peer, channel and place: those that both ends know once.
getLinks(checkAcls) ==
  LET ends == {x \in DOMAIN LinksOf : x[1] \in Asked(checkAcls)}
      places == UNION {{<<x[1], x[2], i>> : i \in DOMAIN getLink(x[1], x[2], TRUE)} : x \in ends}
  IN  [x \in places |-> getLink(x[1], x[2], TRUE)[x[3]]]
getLinksOf(p) ==
  UNION {{getLink(p, c, FALSE)[i] : i \in DOMAIN getLink(p, c, FALSE)} : c \in LinkedChannels(p)}

\* The partners of a channel, by id or by serial number.
getLinkPeers(p, channel, returnID) ==
  LET links == LinksOf[<<p, channel>>]
  IN  IF LinkTypes[<<p, channel>>] = {} THEN {}
      ELSE {IF returnID THEN <<IdOf(Remote(p, links[i])), links[i].channel>>
                        ELSE <<entry["serial"][<<p, links[i].to>>], links[i].channel>> :
              i \in {j \in DOMAIN links : returnID => Known(p, links[j])}}

getPeerId(serial, checkAcls) ==
  {IdOf(p) : p \in {q \in Asked(checkAcls) : peerExists("serial", serial) /\ getPeer("serial", serial) = q}}
================================================================================
