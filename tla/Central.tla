---------------------------------- MODULE Central ---------------------------------
(***************************************************************************)
(* The peers of a central (Systems/ICentral, Systems/Peer): the maps from  *)
(* ids and serial numbers to peers, the name each peer has itself, its row *)
(* and the entries other peers keep of it, while clients rename peers.     *)
(*                                                                         *)
(* A rename looks the peer up, lets it check and take the new name, looks  *)
(* it up again, moves its entry of the map and then tells every peer.  The *)
(* map is locked in each of these steps and in none between them.  Ids     *)
(* (setId) and serial numbers (setSerialNumber) go the same way.           *)
(***************************************************************************)
EXTENDS Integers, Sequences, FiniteSets

CONSTANTS
  Peers,         \* the peers of the central
  Names,         \* for each kind, "id" and "serial", the names there are
  FirstName,     \* for each kind, the names the peers start with
  LinkedTo,      \* for each peer, the peers it has an entry of
  Clients,       \* threads of clients that rename peers
  Resting

Kinds == DOMAIN Names

\* A rename of one kind: where it is, and what it knows.
Renames(k) ==
  [at : {"check", "store", "find", "move", "tell"}, kind : {k}, peer : Peers,
   old : Names[k], new : Names[k], left : SUBSET Peers]

ASSUME CentralAssumption ==
  /\ IsFiniteSet(Peers) /\ {"id", "serial"} \subseteq Kinds
  /\ \A k \in Kinds :
       /\ FirstName[k] \in [Peers -> Names[k]]
       /\ \A p, q \in Peers : FirstName[k][p] = FirstName[k][q] => p = q
       /\ Resting \notin Renames(k)
  /\ DOMAIN FirstName = Kinds

VARIABLES
  index,         \* _peersById and _peersBySerial: for each kind, name -> peer
  own,           \* _peerID and _serialNumber of each peer
  peerRow,       \* the names in the peers' rows of the database
  entry,         \* _peers: what peer p has noted of peer q, p and q linked
  call,          \* the rename each client is in
  overlapped     \* history: the kinds of which two renames shared a name at a time

centralVars == <<index, own, peerRow, entry, call, overlapped>>

Links == {l \in Peers \X Peers : l[2] \in LinkedTo[l[1]]}

CentralInit ==
  /\ index = [k \in Kinds |-> [n \in {FirstName[k][p] : p \in Peers} |->
                                 CHOOSE p \in Peers : FirstName[k][p] = n]]
  /\ own = FirstName /\ peerRow = FirstName
  /\ entry = [k \in Kinds |-> [l \in Links |-> FirstName[k][l[2]]]]
  /\ call = [c \in Clients |-> Resting]
  /\ overlapped = {}

getPeer(kind, name) == index[kind][name]
peerExists(kind, name) == name \in DOMAIN index[kind]
getPeers == {index["id"][n] : n \in DOMAIN index["id"]}

Step(c, at) == call[c] # Resting /\ call[c].at = at
Done(c) == call' = [call EXCEPT ![c] = Resting]
--------------------------------------------------------------------------------
\* ICentral::setId and setSerialNumber find the peer by its id; the old
\* serial number is the one the peer has.
RenameBegin(c, kind, id, new) ==
  LET p == getPeer("id", id)
      old == IF kind = "id" THEN id ELSE own[kind][p]
      shares(d) == /\ call[d] # Resting /\ call[d].kind = kind
                   /\ {call[d].old, call[d].new} \cap {old, new} # {}
  IN  /\ call[c] = Resting
      /\ peerExists("id", id)
      /\ call' = [call EXCEPT ![c] = [at |-> "check", kind |-> kind, peer |-> p,
                                      old |-> old, new |-> new, left |-> {}]]
      /\ overlapped' = IF \E d \in Clients : shares(d) THEN overlapped \cup {kind} ELSE overlapped
      /\ UNCHANGED <<index, own, peerRow, entry>>

\* Peer::setId: another name, and no other peer's.
Check(c) ==
  /\ Step(c, "check")
  /\ LET free == own[call[c].kind][call[c].peer] # call[c].new
                 /\ ~peerExists(call[c].kind, call[c].new)
     IN  \/ free /\ call' = [call EXCEPT ![c].at = "store"]
         \/ ~free /\ Done(c)
  /\ UNCHANGED <<index, own, peerRow, entry, overlapped>>

\* The database refuses a name another row has; otherwise the peer has it.
Store(c) ==
  LET k == call[c].kind
      p == call[c].peer
      taken == \E q \in Peers \ {p} : peerRow[k][q] = call[c].new
  IN  /\ Step(c, "store")
      /\ \/ taken /\ Done(c) /\ UNCHANGED <<peerRow, own>>
         \/ /\ ~taken
            /\ peerRow' = [peerRow EXCEPT ![k][p] = call[c].new]
            /\ own' = [own EXCEPT ![k][p] = call[c].new]
            /\ call' = [call EXCEPT ![c].at = "find"]
      /\ UNCHANGED <<index, entry, overlapped>>

\* ICentral::setPeerId and setPeerSerialNumber: look the old name up again,
FindAgain(c) ==
  LET k == call[c].kind
  IN  /\ Step(c, "find")
      /\ \/ ~peerExists(k, call[c].old) /\ Done(c)
         \/ /\ peerExists(k, call[c].old)
            /\ call' = [call EXCEPT ![c].at = "move", ![c].peer = getPeer(k, call[c].old)]
      /\ UNCHANGED <<index, own, peerRow, entry, overlapped>>

\* Mutant: the entry of the old name stays.
MoveKeepOld(c) ==
  LET k == call[c].kind
      names == DOMAIN index[k] \cup {call[c].new}
  IN  /\ Step(c, "move")
      /\ index' = [index EXCEPT ![k] =
                     [n \in names |-> IF n = call[c].new THEN call[c].peer ELSE index[k][n]]]
      /\ call' = [call EXCEPT ![c].at = "tell", ![c].left = {index'["id"][n] : n \in DOMAIN index'["id"]}]
      /\ UNCHANGED <<own, peerRow, entry, overlapped>>

\* move the peer in the map, and note the peers to tell,
Move(c) ==
  LET k == call[c].kind
      names == (DOMAIN index[k] \ {call[c].old}) \cup {call[c].new}
  IN  /\ Step(c, "move")
      /\ index' = [index EXCEPT ![k] =
                     [n \in names |-> IF n = call[c].new THEN call[c].peer ELSE index[k][n]]]
      /\ call' = [call EXCEPT ![c].at = "tell", ![c].left = {index'["id"][n] : n \in DOMAIN index'["id"]}]
      /\ UNCHANGED <<own, peerRow, entry, overlapped>>

\* and let each of them rename its entries (Peer::updatePeer).
UpdatePeer(c) ==
  LET k == call[c].kind
  IN  /\ Step(c, "tell") /\ call[c].left # {}
      /\ LET p == CHOOSE q \in call[c].left : TRUE
         IN  /\ entry' = [entry EXCEPT ![k] = [l \in Links |->
                            IF l[1] = p /\ @[l] = call[c].old THEN call[c].new ELSE @[l]]]
             /\ call' = [call EXCEPT ![c].left = @ \ {p}]
      /\ UNCHANGED <<index, own, peerRow, overlapped>>

\* The events of setId follow here; they change nothing of this state.
RenameEnd(c) ==
  /\ Step(c, "tell") /\ call[c].left = {}
  /\ Done(c)
  /\ UNCHANGED <<index, own, peerRow, entry, overlapped>>
=================================================================================
