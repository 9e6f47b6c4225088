\* Two groups, one placed peer of two, up to three operations of all kinds at a time.
SPECIFICATION Spec
CONSTANTS
  p1 = p1
  p2 = p2
  t1 = t1
  t2 = t2
  g1 = g1
  g2 = g2
  alice = alice
  broken = broken
  NoPeer = NoPeer
  NoOne = NoOne
  Idle = Idle
  Resting = Resting
  Fault = Fault
  Groups = {g1, g2}
  GroupsOf <- MCGroupsOf
  Loaders = {t1}
  Rows <- MCRows
  Datas <- MCDatas
  Transfers <- MCTransfers
  Channels = {0}
  Vars <- MCVars
  Rooms = {1}
  Parts = {1}
  Cats = {1}
  Roles = {71, 72}
  Directions = {"undefined", "input"}
  Access <- MCAccess
  Described <- MCDescribed
  Callers = {t1, t2}
  Peers <- MCPeers
  Names <- MCNames
  FirstName <- MCFirstName
  LinkedTo <- MCLinkedTo
  Clients = {t1, t2}
  ThePeer = p1
  Touched <- MCTouched
  Device <- MCDevice
  Functions <- MCFunctions
  Parameters <- MCParameters
  ConfigOf <- MCConfigOf
  CountOf <- MCCountOf
  LinkTypes <- MCLinkTypes
  LinksOf <- MCLinksOf
  ClientKinds <- MCClientKinds
  Budgets <- MCBudgets
CHECK_DEADLOCK FALSE
INVARIANTS  DeviceDenialReachesVariables SkippedChecksDenyNothing WholeLoads  
