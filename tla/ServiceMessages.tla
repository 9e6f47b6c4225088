---------------------------- MODULE ServiceMessages ----------------------------
(***************************************************************************)
(* The service messages of one peer (BaseLib::Systems::ServiceMessages):   *)
(* four flags (0 or 1) and the errors of its channels, kept in memory, in  *)
(* database rows, in the peer's parameters and in the events sent to RPC   *)
(* clients.  A call changes these one after the other and the process may  *)
(* end between any two changes: a call puts its changes into "todo", and   *)
(* each is a step of its own.                                              *)
(*                                                                         *)
(* Calls for one peer come one at a time here; the class guards only       *)
(* _errors by a mutex.  The database applies the writes it is handed in    *)
(* order; that they wait in a queue first adds nothing, because losing the *)
(* end of that queue is ending a moment earlier.                           *)
(***************************************************************************)
EXTENDS Naturals, SequencesExt

CONSTANTS
  Keys,       \* the <<channel, id>> pairs of the errors in use
  IdSum,      \* 1000 plus the sum of the characters of each id
  MaxValue,   \* largest error value used
  MaxCalls,   \* bound on the calls
  MaxEnds     \* bound on the restarts

Unreach == <<0, "UNREACH">>
StickyUnreach == <<0, "STICKY_UNREACH">>
ConfigPending == <<0, "CONFIG_PENDING">>
Lowbat == <<0, "LOWBAT">>
Flags == {Unreach, StickyUnreach, ConfigPending, Lowbat}
Ids == {k[2] : k \in Keys}

ASSUME ServiceMessagesAssumption ==
  /\ IsFiniteSet(Keys) /\ Keys \cap Flags = {}
  /\ \A k \in Keys : k[1] \in Nat /\ IdSum[k[2]] \in Nat /\ IdSum[k[2]] >= 1000
  /\ MaxValue \in Nat \ {0} /\ MaxCalls \in Nat /\ MaxEnds \in Nat

Values == 0 .. MaxValue
NoErrors == [k \in {} |-> 0]

(* The messageID of a row is 0 to 3 for the flags.                         *)
Index(f) ==
  CASE f = Unreach -> 0 [] f = StickyUnreach -> 1 [] f = ConfigPending -> 2 [] f = Lowbat -> 3
RowId(x) == IF x \in Flags THEN Index(x) ELSE IdSum[x[2]]

VARIABLES
  flag,      \* _unreach, _stickyUnreach, _configPending, _lowbat
  errors,    \* _errors: from the keys that have an entry to its value
  known,     \* DOMAIN _variableDatabaseIDs
  resends,   \* _unreachResendCounter
  named,     \* _peerId # 0
  unready,   \* _bl->booting or _bl->shuttingDown
  rows,      \* the rows of the database, by messageID
  params,    \* the parameters of the peer that are flags
  told,      \* the value in the last RPC event about each variable
  todo,      \* what the call in progress still has to change
  unsaved,   \* messageIDs last changed while the peer had no id
  unset,     \* flags last changed while the peer had no id for its parameters
  tries,     \* pending queues enqueued since setUnreach() last declared UNREACH
  calls, ends

memory == <<flag, errors, known, resends, named>>
outside == <<rows, params, told>>
bounds == <<unsaved, unset, tries, calls, ends>>
vars == <<memory, unready, outside, todo, bounds>>

Changes ==
  [do : {"flag", "save", "param", "tell"}, of : Flags, value : {0, 1}]
    \cup [do : {"error", "save", "tell"}, of : Keys, value : Values] \cup [do : {"erase"}, of : Keys, value : {0}]
    \cup [do : {"resends"}, value : 0 .. 3] \cup [do : {"enqueue"}]

TypeOK ==
  /\ flag \in [Flags -> {0, 1}] /\ params \in [Flags -> {0, 1}]
  /\ DOMAIN errors \subseteq Keys /\ \A k \in DOMAIN errors : errors[k] \in Values
  /\ {known, unsaved, DOMAIN rows} \subseteq SUBSET ((0 .. 3) \cup Range(IdSum)) /\ unset \subseteq Flags
  /\ \A i \in DOMAIN rows : i = RowId(rows[i].of)
  /\ DOMAIN told \subseteq Flags \cup Keys
  /\ resends \in 0 .. 3 /\ {named, unready} \subseteq BOOLEAN
  /\ \A i \in DOMAIN todo : todo[i] \in Changes
  /\ tries \in 0 .. MaxCalls /\ calls \in 0 .. MaxCalls /\ ends \in 0 .. MaxEnds

Init ==
  /\ flag = [f \in Flags |-> 0] /\ errors = NoErrors
  /\ known = {} /\ resends = 0 /\ named \in BOOLEAN /\ unready \in BOOLEAN
  /\ rows = NoErrors /\ params = flag /\ told = NoErrors
  /\ todo = <<>> /\ unsaved = {} /\ unset = {} /\ tries = 0 /\ calls = 0 /\ ends = 0

\* A map with one more entry.
Put(f, x, v) == [y \in DOMAIN f \cup {x} |-> IF y = x THEN v ELSE f[y]]

-----------------------------------------------------------------------------
(* The changes a call makes.                                               *)

Flag(f, v) == <<[do |-> "flag", of |-> f, value |-> v]>>
Error(k, v) == <<[do |-> "error", of |-> k, value |-> v]>>
Erase(k) == <<[do |-> "erase", of |-> k, value |-> 0]>>
Save(x, v) == <<[do |-> "save", of |-> x, value |-> v]>>
Param(f, v) == <<[do |-> "param", of |-> f, value |-> v]>>
Tell(x, v) == <<[do |-> "tell", of |-> x, value |-> v]>>
Resends(n) == <<[do |-> "resends", value |-> n]>>
Enqueue == <<[do |-> "enqueue"]>>

Start(changes) ==
  /\ todo = <<>> /\ calls < MaxCalls
  /\ todo' = changes /\ calls' = calls + 1
  /\ UNCHANGED <<memory, unready, outside, unsaved, unset, ends>>

Call(changes) == Start(changes) /\ UNCHANGED tries

(* set(id, value) for one of the flags; a peer is not set unreachable      *)
(* while the process boots or shuts down.                                  *)
Set(f, v) ==
  LET change == Flag(f, v) \o Save(f, v)
  IN /\ ~(f \in {Unreach, StickyUnreach} /\ v = 1 /\ flag[f] = 0 /\ unready)
     /\ Call((IF v # flag[f] THEN change ELSE <<>>) \o Param(f, v) \o Tell(f, v))

(* set(id, value) for any other id: an error of channel 0, which when it   *)
(* is reset is reset on every channel, one channel after the other.  The   *)
(* event always carries a zero.                                            *)
ByChannel(keys) ==
  {s \in [1 .. Cardinality(keys) -> keys] :
     Range(s) = keys /\ \A i, j \in DOMAIN s : i < j => s[i][1] < s[j][1]}

ResetAll(s) ==
  [i \in 1 .. 3 * Len(s) |->
     [do |-> <<"error", "save", "tell">>[((i - 1) % 3) + 1], of |-> s[(i + 2) \div 3], value |-> 0]]

SetOnChannel0(id, v) ==
  LET k == <<0, id>>
      others == {l \in DOMAIN errors : l[1] # 0 /\ l[2] = id}
  IN /\ k \in Keys
     /\ \/ v = 0 /\ \E s \in ByChannel(others) : Call(Erase(k) \o Save(k, 0) \o Tell(k, 0) \o ResetAll(s))
        \/ v # 0 /\ Call(Error(k, v) \o Save(k, v) \o Tell(k, 0))

(* set(id, value, channel); its event is raised by the peer.               *)
SetError(k, v) == Call((IF v = 0 THEN Erase(k) ELSE Error(k, v)) \o Save(k, v))

SetConfigPendingUnsaved(v) ==            \* mutant: the row is forgotten
  v # flag[ConfigPending]
    /\ Call(Flag(ConfigPending, v) \o Param(ConfigPending, v) \o Tell(ConfigPending, v))
SetConfigPending(v) ==
  LET f == ConfigPending
  IN v # flag[f] /\ Call(Flag(f, v) \o Save(f, v) \o Param(f, v) \o Tell(f, v))

(* endUnreach() also acts when the last event is at least a day old.       *)
EndUnreachUntold(aDay) ==                \* mutant: no event
  LET f == Unreach
  IN (flag[f] = 1 \/ aDay) /\ Call(Flag(f, 0) \o Resends(0) \o Save(f, 0) \o Param(f, 0))
EndUnreach(aDay) ==
  LET f == Unreach
  IN /\ flag[f] = 1 \/ aDay
     /\ Call(Flag(f, 0) \o Resends(0) \o Save(f, 0) \o Param(f, 0) \o Tell(f, 0))

Declare(u, s) == Flag(u, 1) \o Flag(s, 1) \o Save(u, 1) \o Save(s, 1)
                   \o Param(u, 1) \o Param(s, 1) \o Tell(u, 1) \o Tell(s, 1)

(* checkUnreach(): no packet came within the peer's cyclic timeout.        *)
CheckSilent(aDay) ==
  /\ ~unready /\ (flag[Unreach] = 0 \/ aDay)
  /\ Call(Declare(Unreach, StickyUnreach))

CheckHeard(aDay) == ~unready /\ flag[Unreach] = 1 /\ EndUnreach(aDay)

(* setUnreach(): requeued packets get three more tries before UNREACH.     *)
MayRequeueTwice == resends < 2           \* mutant: one try too few
MayRequeue == resends < 3

Requeue ==
  /\ ~unready /\ flag[Unreach] = 0 /\ MayRequeue
  /\ Call(Enqueue \o Resends(resends + 1))

SetUnreach(v, requeue) ==
  LET u == Unreach
      s == StickyUnreach
      sticky == Flag(s, 1) \o Save(s, 1) \o Param(s, 1)
  IN /\ ~(v = 1 /\ unready) /\ v # flag[u] /\ ~(v = 1 /\ requeue /\ MayRequeue)
     /\ tries' = IF v = 1 THEN 0 ELSE tries
     /\ Start(Resends(0) \o Flag(u, v) \o Save(u, v) \o Save(s, v) \o Param(u, v)
                \o (IF v = 1 THEN sticky \o Tell(u, 1) \o Tell(s, 1) ELSE Tell(u, 0)))

-----------------------------------------------------------------------------
(* One change of the call in progress.                                     *)

Now(do) == todo # <<>> /\ todo[1].do = do /\ todo' = Tail(todo)
Change == todo[1]

AssignFlag ==
  /\ Now("flag") /\ flag' = [flag EXCEPT ![Change.of] = Change.value]
  /\ UNCHANGED <<errors, known, resends, named, unready, outside, bounds>>

AssignError ==
  /\ Now("error") /\ errors' = Put(errors, Change.of, Change.value)
  /\ UNCHANGED <<flag, known, resends, named, unready, outside, bounds>>

EraseError ==
  /\ Now("erase") /\ errors' = Restrict(errors, DOMAIN errors \ {Change.of})
  /\ UNCHANGED <<flag, known, resends, named, unready, outside, bounds>>

(* save(): a row whose database id is known is updated or deleted, another *)
(* is inserted, whatever its value.                                        *)
Row == [of |-> Change.of, value |-> Change.value]
Known == RowId(Change.of) \in known
ForgetNothing == known                   \* mutant: the id of a deleted row is kept
Forget == known \ {RowId(Change.of)}
InsertsTrue == named /\ Change.value > 0 \* mutant: a false value is not inserted
Inserts == named

UpdateRow ==
  /\ Now("save") /\ Known /\ Change.value > 0
  /\ rows' = IF RowId(Change.of) \in DOMAIN rows
             THEN [rows EXCEPT ![RowId(Change.of)] = Row] ELSE rows
  /\ unsaved' = unsaved \ {RowId(Change.of)}
  /\ UNCHANGED <<memory, unready, params, told, unset, tries, calls, ends>>

DeleteRow ==
  /\ Now("save") /\ Known /\ Change.value = 0
  /\ rows' = Restrict(rows, DOMAIN rows \ {RowId(Change.of)})
  /\ known' = Forget
  /\ unsaved' = unsaved \ {RowId(Change.of)}
  /\ UNCHANGED <<flag, errors, resends, named, unready, params, told, unset, tries, calls, ends>>

(* The inserted row replaces the peer's row with the same messageID.       *)
Inserted == Put(rows, RowId(Change.of), Row)

InsertRow ==
  /\ Now("save") /\ ~Known /\ Inserts
  /\ rows' = Inserted /\ unsaved' = unsaved \ {RowId(Change.of)}
  /\ UNCHANGED <<memory, unready, params, told, unset, tries, calls, ends>>

NotSaved ==
  /\ Now("save") /\ ~Known /\ ~Inserts
  /\ unsaved' = IF named THEN unsaved ELSE unsaved \cup {RowId(Change.of)}
  /\ UNCHANGED <<memory, unready, outside, unset, tries, calls, ends>>

(* raiseSaveParameter() ends in the peer, which needs its id, too.         *)
SaveParameter ==
  /\ Now("param")
  /\ params' = IF named THEN [params EXCEPT ![Change.of] = Change.value] ELSE params
  /\ unset' = IF named THEN unset \ {Change.of} ELSE unset \cup {Change.of}
  /\ UNCHANGED <<memory, unready, rows, told, unsaved, tries, calls, ends>>

RaiseEvent ==
  /\ Now("tell") /\ told' = Put(told, Change.of, Change.value)
  /\ UNCHANGED <<memory, unready, rows, params, bounds>>

AssignResends ==
  /\ Now("resends") /\ resends' = Change.value
  /\ UNCHANGED <<flag, errors, known, named, unready, outside, bounds>>

EnqueuePending ==
  /\ Now("enqueue") /\ tries' = tries + 1
  /\ UNCHANGED <<memory, unready, outside, unsaved, unset, calls, ends>>

-----------------------------------------------------------------------------
(* The rest of the process, and its end at any moment; load() then reads   *)
(* the rows and copies the flags to the parameters.                        *)

SetPeerId == ~named /\ todo = <<>> /\ named' = TRUE
  /\ UNCHANGED <<flag, errors, known, resends, unready, outside, todo, bounds>>

Booted == unready /\ unready' = FALSE /\ UNCHANGED <<memory, outside, todo, bounds>>
ShutDown == ~unready /\ unready' = TRUE /\ UNCHANGED <<memory, outside, todo, bounds>>

LoadedFlags == 
  [f \in Flags |-> IF Index(f) \in DOMAIN rows THEN rows[Index(f)].value ELSE 0]
ErrorRows == {rows[i] : i \in {i \in DOMAIN rows : i >= 1000}}
LoadedErrors == [k \in {r.of : r \in ErrorRows} |->
                   (CHOOSE r \in ErrorRows : r.of = k).value]
SyncNothing == <<>>                      \* mutant: load() leaves the parameters alone
SyncParameters == Param(Unreach, LoadedFlags[Unreach])
  \o Param(StickyUnreach, LoadedFlags[StickyUnreach])
  \o Param(ConfigPending, LoadedFlags[ConfigPending]) \o Param(Lowbat, LoadedFlags[Lowbat])

Restart ==
  /\ named /\ ends < MaxEnds /\ ends' = ends + 1
  /\ flag' = LoadedFlags /\ errors' = LoadedErrors /\ known' = DOMAIN rows
  /\ resends' = 0 /\ tries' = 0 /\ unready' = TRUE
  /\ told' = NoErrors /\ todo' = SyncParameters /\ unsaved' = {} /\ unset' = {}
  /\ UNCHANGED <<named, rows, params, calls>>

Next ==
  \/ \E f \in Flags, v \in {0, 1} : Set(f, v)
  \/ \E id \in Ids, v \in {0, 1} : SetOnChannel0(id, v)
  \/ \E k \in Keys, v \in Values : SetError(k, v)
  \/ \E v \in {0, 1} : SetConfigPending(v)
  \/ \E aDay \in BOOLEAN : EndUnreach(aDay)
  \/ \E aDay \in BOOLEAN : CheckSilent(aDay)
  \/ \E aDay \in BOOLEAN : CheckHeard(aDay)
  \/ Requeue
  \/ \E v \in {0, 1}, requeue \in BOOLEAN : SetUnreach(v, requeue)
  \/ AssignFlag
  \/ AssignError
  \/ EraseError
  \/ UpdateRow
  \/ DeleteRow
  \/ InsertRow
  \/ NotSaved
  \/ SaveParameter
  \/ RaiseEvent
  \/ AssignResends
  \/ EnqueuePending
  \/ SetPeerId
  \/ Booted
  \/ ShutDown
  \/ Restart

Spec == Init /\ [][Next]_vars

-----------------------------------------------------------------------------
(* Properties.                                                             *)

AtRest == todo = <<>>

(* get(): the messages that are reported to clients.                       *)
Reported ==
  {<<f, 1>> : f \in {f \in Flags : flag[f] = 1}}
    \cup {<<k, errors[k]>> : k \in {k \in DOMAIN errors : errors[k] # 0}}

(* What get() would report after a restart.                                *)
Stored == {<<rows[i].of, rows[i].value>> : i \in {i \in DOMAIN rows : rows[i].value # 0}}

(* A database id that save() uses still is the id of a row: no update is   *)
(* lost on a row that was deleted.                                         *)
KnownRows == known \subseteq DOMAIN rows

(* Errors on several channels, or whose ids have the same sum, share a row.*)
SharesRow(x) == \E k \in Keys : k # x /\ RowId(k) = RowId(x)

(* Between calls the database holds what is reported: a restart forgets no *)
(* message, whatever was saved, updated, deleted or cut off before, apart  *)
(* from errors that share a row and from STICKY_UNREACH, for which         *)
(* setUnreach(false) stores false although it stays set.                   *)
Durable ==
  AtRest => \A m \in Reported :
    \/ m \in Stored \/ SharesRow(m[1])
    \/ RowId(m[1]) \in unsaved \cup {Index(StickyUnreach)}

(* No write of save() misses its row: what is reported stays reported      *)
(* after a restart.                                                        *)
SurvivesRestart == KnownRows /\ Durable

(* Between calls nothing is stored that is not reported, also if errors    *)
(* share a row: no reset message comes back after a restart.               *)
NothingReturns ==
  AtRest => \A m \in Stored : m \in Reported \/ RowId(m[1]) \in unsaved

(* Between calls the peer's parameters have the values of the flags, also  *)
(* when the process ended between saving the flag and the parameter.       *)
ParamsAgree ==
  AtRest => \A f \in Flags : params[f] = flag[f] \/ f \in unset

(* Between calls the last RPC event about a flag told its value.           *)
FlagsTold == AtRest => \A f \in Flags \cap DOMAIN told : told[f] = flag[f]

(* The three places that know a flag agree: the object, the peer's         *)
(* parameter and the clients that were told by an event.                   *)
FlagsAgree == ParamsAgree /\ FlagsTold

(* setUnreach() with requeueing has enqueued the pending queues three      *)
(* times since it last declared the peer unreachable and since the start.  *)
RetriesFirst == [][SetUnreach(1, TRUE) => tries >= 3]_vars
=============================================================================
