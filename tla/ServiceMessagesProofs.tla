--------------------------- MODULE ServiceMessagesProofs ---------------------------
(***************************************************************************)
(* What ServiceMessages promises between calls, for every set of errors:   *)
(* no message is forgotten by a restart, none comes back, flags agree      *)
(* wherever they are kept, and UNREACH is not declared before three tries. *)
(***************************************************************************)
EXTENDS ServiceMessages, FiniteSetTheorems, TLAPS

(***************************************************************************)
(* What a sequence of changes does: a change hits one of some things, and  *)
(* the last one that does decides.                                         *)
(***************************************************************************)
Hit(c, dos, xs) == c.do \in dos /\ c.of \in xs
Touches(s, dos, xs) == \E i \in DOMAIN s : Hit(s[i], dos, xs)
Leaves(s, dos, xs, x, v) ==
  \E i \in DOMAIN s : /\ Hit(s[i], dos, xs) /\ s[i].of = x /\ s[i].value = v
                      /\ \A j \in DOMAIN s : j > i => ~Hit(s[j], dos, xs)

Things == Flags \cup Keys
MemDo == {"flag", "error", "erase"}
Kept(x) == IF x \in Flags THEN flag[x] ELSE IF x \in DOMAIN errors THEN errors[x] ELSE 0
Sharing(x) == {y \in Things : RowId(y) = RowId(x)}
HasRow(x, v) == RowId(x) \in DOMAIN rows /\ rows[RowId(x)] = [of |-> x, value |-> v]

(* What memory, rows, parameters and clients will have after the changes s. *)
MemWill(s, x, v) == Leaves(s, MemDo, {x}, x, v) \/ (~Touches(s, MemDo, {x}) /\ Kept(x) = v)
RowWill(s, x, v) ==
  \/ Leaves(s, {"save"}, Sharing(x), x, v)
  \/ ~Touches(s, {"save"}, Sharing(x)) /\ RowId(x) \notin unsaved /\ HasRow(x, v)
Lost(s, x) == ~Touches(s, {"save"}, Sharing(x)) /\ RowId(x) \in unsaved
ParamWill(s, f, v) ==
  Leaves(s, {"param"}, {f}, f, v) \/ (~Touches(s, {"param"}, {f}) /\ (params[f] = v \/ f \in unset))
ToldWill(s, f, v) ==
  Leaves(s, {"tell"}, {f}, f, v) \/ (~Touches(s, {"tell"}, {f}) /\ (f \in DOMAIN told => told[f] = v))

(***************************************************************************)
(* The inductive invariant: what holds between calls will hold again when  *)
(* the changes that are left are done.                                     *)
(***************************************************************************)
ServiceType ==
  /\ todo \in Seq(Changes)
  /\ flag \in [Flags -> {0, 1}] /\ DOMAIN params = Flags
  /\ DOMAIN errors \subseteq Keys /\ \A k \in DOMAIN errors : errors[k] \in Values
  /\ resends \in Nat /\ tries \in Nat /\ named \in BOOLEAN
RowsInv ==
  \A i \in DOMAIN rows : \E x \in Things, v \in Values : i = RowId(x) /\ HasRow(x, v) /\ (x \in Flags => v \in {0, 1})
NothingInv(s) ==
  \A x \in Things, v \in Values \ {0} : RowWill(s, x, v) => MemWill(s, x, v)
DurableInv(s) ==
  \A x \in Things \ {StickyUnreach}, v \in Values \ {0} :
    MemWill(s, x, v) => SharesRow(x) \/ RowWill(s, x, v) \/ Lost(s, x)
FlagsInv(s) ==
  \A f \in Flags, v \in {0, 1} : MemWill(s, f, v) => ParamWill(s, f, v) /\ ToldWill(s, f, v)
EnqueuedInv ==
  \/ \E n \in 0 .. 3 : n <= tries + 1 /\ todo = Enqueue \o Resends(n)
  \/ /\ \A i \in DOMAIN todo : todo[i].do # "enqueue" /\ (todo[i].do = "resends" => todo[i].value <= tries)
     /\ resends <= tries \/ \E i \in DOMAIN todo : todo[i].do = "resends"
ServiceInv ==
  ServiceType /\ RowsInv /\ KnownRows /\ NothingInv(todo) /\ DurableInv(todo) /\ FlagsInv(todo) /\ EnqueuedInv

-----------------------------------------------------------------------------
(* Sequences of changes.                                                   *)

(* A change of one thing in one place.                                     *)
Single(do, x, v) == [do |-> do, of |-> x, value |-> v]

LEMMA SingleTouches ==
  ASSUME NEW c, NEW dos, NEW xs
  PROVE  Touches(<<c>>, dos, xs) <=> Hit(c, dos, xs)
<1>1. DOMAIN <<c>> = {1} /\ <<c>>[1] = c
  OBVIOUS
<1>2. QED
  BY <1>1 DEF Touches

LEMMA SingleLeaves ==
  ASSUME NEW c, NEW dos, NEW xs, NEW x, NEW v
  PROVE  Leaves(<<c>>, dos, xs, x, v) <=> Hit(c, dos, xs) /\ c.of = x /\ c.value = v
<1>1. DOMAIN <<c>> = {1} /\ <<c>>[1] = c
  OBVIOUS
<1>2. \A j \in {1} : ~(j > 1)
  OBVIOUS
<1>3. QED
  BY <1>1, <1>2 DEF Leaves

LEMMA EmptyTouches ==
  /\ \A dos, xs : ~Touches(<<>>, dos, xs)
  /\ \A dos, xs, x, v : ~Leaves(<<>>, dos, xs, x, v)
<1>1. DOMAIN <<>> = {}
  OBVIOUS
<1>2. QED
  BY <1>1 DEF Touches, Leaves

(* Where the elements of a concatenation are.                              *)
LEMMA Places ==
  ASSUME NEW S, NEW a \in Seq(S), NEW b \in Seq(S)
  PROVE  /\ a \o b \in Seq(S)
         /\ \A i \in DOMAIN a : i \in DOMAIN (a \o b) /\ (a \o b)[i] = a[i]
         /\ \A i \in DOMAIN b : i + Len(a) \in DOMAIN (a \o b) /\ (a \o b)[i + Len(a)] = b[i]
         /\ \A i \in DOMAIN (a \o b) : i \in DOMAIN a \/ (i - Len(a) \in DOMAIN b /\ (a \o b)[i] = b[i - Len(a)])
         /\ DOMAIN a = 1 .. Len(a) /\ DOMAIN b = 1 .. Len(b) /\ Len(a) \in Nat /\ Len(b) \in Nat
<1>1. DOMAIN a = 1 .. Len(a) /\ DOMAIN b = 1 .. Len(b) /\ Len(a) \in Nat /\ Len(b) \in Nat
  OBVIOUS
<1>2. a \o b \in Seq(S) /\ Len(a \o b) = Len(a) + Len(b) /\ DOMAIN (a \o b) = 1 .. Len(a) + Len(b)
  OBVIOUS
<1>3. \A i \in 1 .. Len(a) + Len(b) : (a \o b)[i] = IF i <= Len(a) THEN a[i] ELSE b[i - Len(a)]
  OBVIOUS
<1>4. QED
  BY <1>1, <1>2, <1>3

LEMMA JoinedTouches ==
  ASSUME NEW S, NEW a \in Seq(S), NEW b \in Seq(S), NEW dos, NEW xs
  PROVE  Touches(a \o b, dos, xs) <=> Touches(a, dos, xs) \/ Touches(b, dos, xs)
<1> DEFINE s == a \o b
<1>1. /\ \A i \in DOMAIN a : i \in DOMAIN s /\ s[i] = a[i]
      /\ \A i \in DOMAIN b : i + Len(a) \in DOMAIN s /\ s[i + Len(a)] = b[i]
      /\ \A i \in DOMAIN s : i \in DOMAIN a \/ (i - Len(a) \in DOMAIN b /\ s[i] = b[i - Len(a)])
  BY Places
<1> HIDE DEF s
<1>2. ASSUME Touches(s, dos, xs) PROVE Touches(a, dos, xs) \/ Touches(b, dos, xs)
  <2>1. PICK i \in DOMAIN s : Hit(s[i], dos, xs)
    BY <1>2 DEF Touches
  <2>2. CASE i \in DOMAIN a
    BY <1>1, <2>1, <2>2 DEF Touches
  <2>3. CASE i - Len(a) \in DOMAIN b /\ s[i] = b[i - Len(a)]
    BY <2>1, <2>3 DEF Touches
  <2>4. QED
    BY <1>1, <2>2, <2>3
<1>3. ASSUME Touches(a, dos, xs) PROVE Touches(s, dos, xs)
  BY <1>1, <1>3 DEF Touches
<1>4. ASSUME Touches(b, dos, xs) PROVE Touches(s, dos, xs)
  <2>1. PICK i \in DOMAIN b : Hit(b[i], dos, xs)
    BY <1>4 DEF Touches
  <2>2. i + Len(a) \in DOMAIN s /\ s[i + Len(a)] = b[i]
    BY <1>1
  <2>3. QED
    BY <2>1, <2>2 DEF Touches
<1>5. QED
  BY <1>2, <1>3, <1>4 DEF s

LEMMA JoinedLeaves ==
  ASSUME NEW S, NEW a \in Seq(S), NEW b \in Seq(S), NEW dos, NEW xs, NEW x, NEW v
  PROVE  Leaves(a \o b, dos, xs, x, v)
           <=> Leaves(b, dos, xs, x, v) \/ (~Touches(b, dos, xs) /\ Leaves(a, dos, xs, x, v))
<1> DEFINE s == a \o b
           n == Len(a)
<1>1. /\ \A i \in DOMAIN a : i \in DOMAIN s /\ s[i] = a[i]
      /\ \A i \in DOMAIN b : i + n \in DOMAIN s /\ s[i + n] = b[i]
      /\ \A i \in DOMAIN s : i \in DOMAIN a \/ (i - n \in DOMAIN b /\ s[i] = b[i - n])
      /\ DOMAIN a = 1 .. n /\ DOMAIN b = 1 .. Len(b) /\ n \in Nat /\ Len(b) \in Nat
  BY Places
<1>2. DOMAIN s = 1 .. n + Len(b)
  OBVIOUS
<1> HIDE DEF s, n
<1>3. ASSUME Leaves(s, dos, xs, x, v)
      PROVE  Leaves(b, dos, xs, x, v) \/ (~Touches(b, dos, xs) /\ Leaves(a, dos, xs, x, v))
  <2>1. PICK i \in DOMAIN s : /\ Hit(s[i], dos, xs) /\ s[i].of = x /\ s[i].value = v
                              /\ \A j \in DOMAIN s : j > i => ~Hit(s[j], dos, xs)
    BY <1>3 DEF Leaves
  <2>2. CASE i \in DOMAIN a
    <3>1. \A j \in DOMAIN b : ~Hit(b[j], dos, xs)
      BY <1>1, <2>1, <2>2
    <3>2. \A j \in DOMAIN a : j > i => ~Hit(a[j], dos, xs)
      BY <1>1, <2>1, <2>2
    <3>3. Hit(a[i], dos, xs) /\ a[i].of = x /\ a[i].value = v
      BY <1>1, <2>1, <2>2
    <3>4. QED
      BY <2>2, <3>1, <3>2, <3>3 DEF Leaves, Touches
  <2>3. CASE i \notin DOMAIN a
    <3>1. PICK k \in DOMAIN b : k = i - n
      BY <1>1, <2>1, <2>3
    <3>2. Hit(b[k], dos, xs) /\ b[k].of = x /\ b[k].value = v
      BY <1>1, <2>1, <2>3, <3>1
    <3>3. \A j \in DOMAIN b : j > k => j + n > i
      BY <1>1, <1>2, <3>1
    <3>4. \A j \in DOMAIN b : j > k => ~Hit(b[j], dos, xs)
      BY <1>1, <2>1, <3>3
    <3>5. QED
      BY <3>2, <3>4 DEF Leaves
  <2>4. QED
    BY <2>2, <2>3
<1>4. ASSUME Leaves(b, dos, xs, x, v)
      PROVE  Leaves(s, dos, xs, x, v)
  <2>1. PICK k \in DOMAIN b : /\ Hit(b[k], dos, xs) /\ b[k].of = x /\ b[k].value = v
                              /\ \A j \in DOMAIN b : j > k => ~Hit(b[j], dos, xs)
    BY <1>4 DEF Leaves
  <2>2. k + n \in DOMAIN s /\ s[k + n] = b[k]
    BY <1>1
  <2>3. ASSUME NEW j \in DOMAIN s, j > k + n
        PROVE  ~Hit(s[j], dos, xs)
    <3>1. j \notin DOMAIN a /\ j - n > k
      BY <1>1, <1>2, <2>3
    <3>2. QED
      BY <1>1, <2>1, <3>1
  <2>4. QED
    BY <2>1, <2>2, <2>3 DEF Leaves
<1>5. ASSUME ~Touches(b, dos, xs), Leaves(a, dos, xs, x, v)
      PROVE  Leaves(s, dos, xs, x, v)
  <2>1. PICK k \in DOMAIN a : /\ Hit(a[k], dos, xs) /\ a[k].of = x /\ a[k].value = v
                              /\ \A j \in DOMAIN a : j > k => ~Hit(a[j], dos, xs)
    BY <1>5 DEF Leaves
  <2>2. \A j \in DOMAIN b : ~Hit(b[j], dos, xs)
    BY <1>5 DEF Touches
  <2>3. \A j \in DOMAIN s : j > k => ~Hit(s[j], dos, xs)
    BY <1>1, <2>1, <2>2
  <2>4. QED
    BY <1>1, <2>1, <2>3 DEF Leaves
<1>6. QED
  BY <1>3, <1>4, <1>5 DEF s

(* A sequence that is not empty begins with its first change.              *)
LEMMA HeadFirst ==
  ASSUME NEW S, NEW s \in Seq(S), s # <<>>
  PROVE  /\ s[1] \in S /\ Tail(s) \in Seq(S) /\ <<s[1]>> \in Seq(S)
         /\ s = <<s[1]>> \o Tail(s)
<1>1. Len(s) \in Nat \ {0} /\ s \in [1 .. Len(s) -> S] /\ Tail(s) \in Seq(S)
  OBVIOUS
<1>2. Len(<<s[1]>> \o Tail(s)) = Len(s)
  BY <1>1
<1>3. \A i \in 1 .. Len(s) : (<<s[1]>> \o Tail(s))[i] = s[i]
  BY <1>1
<1>4. QED
  BY <1>1, <1>2, <1>3

(* What the first change of a sequence adds to the others.                 *)
LEMMA HeadDoes ==
  ASSUME NEW S, NEW s \in Seq(S), s # <<>>, NEW dos, NEW xs
  PROVE  /\ Touches(s, dos, xs) <=> Hit(s[1], dos, xs) \/ Touches(Tail(s), dos, xs)
         /\ \A x, v : Leaves(s, dos, xs, x, v)
              <=> \/ Leaves(Tail(s), dos, xs, x, v)
                  \/ ~Touches(Tail(s), dos, xs) /\ Hit(s[1], dos, xs) /\ s[1].of = x /\ s[1].value = v
<1> DEFINE c == s[1]
           t == Tail(s)
<1>1. <<c>> \in Seq(S) /\ t \in Seq(S) /\ s = <<c>> \o t
  BY HeadFirst
<1> HIDE DEF c, t
<1>2. Touches(<<c>> \o t, dos, xs) <=> Touches(<<c>>, dos, xs) \/ Touches(t, dos, xs)
  BY <1>1, JoinedTouches
<1>3. Touches(<<c>>, dos, xs) <=> Hit(c, dos, xs)
  BY SingleTouches
<1>4. ASSUME NEW x, NEW v
      PROVE  Leaves(s, dos, xs, x, v)
              <=> \/ Leaves(t, dos, xs, x, v)
                  \/ ~Touches(t, dos, xs) /\ Hit(c, dos, xs) /\ c.of = x /\ c.value = v
  <2>1. Leaves(<<c>> \o t, dos, xs, x, v)
           <=> Leaves(t, dos, xs, x, v) \/ (~Touches(t, dos, xs) /\ Leaves(<<c>>, dos, xs, x, v))
    BY <1>1, JoinedLeaves
  <2>2. Leaves(<<c>>, dos, xs, x, v) <=> Hit(c, dos, xs) /\ c.of = x /\ c.value = v
    BY SingleLeaves
  <2>3. QED
    BY <1>1, <2>1, <2>2
<1>5. QED
  BY <1>1, <1>2, <1>3, <1>4 DEF c, t

-----------------------------------------------------------------------------
(* Things and their rows, and the forms of a change.                       *)

LEMMA FlagIndex ==
  /\ \A f \in Flags : Index(f) \in 0 .. 3
  /\ \A f, g \in Flags : Index(f) = Index(g) => f = g
<1>1. /\ Unreach # StickyUnreach /\ Unreach # ConfigPending /\ Unreach # Lowbat
      /\ StickyUnreach # ConfigPending /\ StickyUnreach # Lowbat /\ ConfigPending # Lowbat
  BY DEF Unreach, StickyUnreach, ConfigPending, Lowbat
<1>2. Index(Unreach) = 0 /\ Index(StickyUnreach) = 1 /\ Index(ConfigPending) = 2 /\ Index(Lowbat) = 3
  BY <1>1 DEF Index
<1>3. QED
  BY <1>2 DEF Flags

LEMMA ThingRows ==
  /\ \A f \in Flags : RowId(f) = Index(f) /\ RowId(f) \in Nat /\ RowId(f) < 1000
  /\ \A k \in Keys : RowId(k) \in Nat /\ RowId(k) >= 1000 /\ k \notin Flags
  /\ \A f \in Flags, x \in Things : RowId(f) = RowId(x) => f = x
<1>1. \A f \in Flags : RowId(f) = Index(f) /\ RowId(f) \in Nat /\ RowId(f) < 1000
  BY FlagIndex DEF RowId
<1>2. \A k \in Keys : RowId(k) \in Nat /\ RowId(k) >= 1000 /\ k \notin Flags
  BY ServiceMessagesAssumption DEF RowId
<1>3. ASSUME NEW f \in Flags, NEW x \in Things, RowId(f) = RowId(x) PROVE f = x
  BY <1>1, <1>2, <1>3, FlagIndex DEF Things
<1>4. QED
  BY <1>1, <1>2, <1>3

(* A thing shares its row with itself, and a flag with nothing else.       *)
LEMMA SharedRows ==
  ASSUME NEW x \in Things
  PROVE  /\ x \in Sharing(x)
         /\ ~SharesRow(x) => Sharing(x) = {x}
         /\ x \in Flags => Sharing(x) = {x}
         /\ \A y \in Things : x \in Sharing(y) => Sharing(x) = Sharing(y) /\ RowId(x) = RowId(y)
<1>1. x \in Sharing(x)
  BY DEF Sharing
<1>2. x \in Flags => Sharing(x) = {x}
  BY <1>1, ThingRows DEF Sharing
<1>3. ASSUME ~SharesRow(x), NEW y \in Sharing(x), y # x PROVE FALSE
  <2>1. y \in Things /\ RowId(y) = RowId(x)
    BY <1>3 DEF Sharing
  <2>2. y \in Flags
    BY <1>3, <2>1 DEF SharesRow, Things
  <2>3. QED
    BY <1>3, <2>1, <2>2, ThingRows
<1>4. \A y \in Things : x \in Sharing(y) => Sharing(x) = Sharing(y) /\ RowId(x) = RowId(y)
  BY DEF Sharing
<1>5. QED
  BY <1>1, <1>2, <1>3, <1>4

LEMMA ChangeForm ==
  ASSUME NEW c \in Changes
  PROVE  /\ c.do \in {"flag", "param"} => c.of \in Flags /\ c.value \in {0, 1}
         /\ c.do = "error" => c.of \in Keys /\ c.value \in Values
         /\ c.do = "erase" => c.of \in Keys /\ c.value = 0
         /\ c.do \in {"save", "tell"} => c.of \in Things /\ c.value \in Values /\ (c.of \in Flags => c.value \in {0, 1})
         /\ c.do = "resends" => c.value \in 0 .. 3
<1>1. CASE c \in [do : {"flag", "save", "param", "tell"}, of : Flags, value : {0, 1}]
  BY <1>1, ServiceMessagesAssumption DEF Things, Values
<1>2. CASE c \in [do : {"error", "save", "tell"}, of : Keys, value : Values]
  BY <1>2, ServiceMessagesAssumption DEF Things
<1>3. CASE c \in [do : {"erase"}, of : Keys, value : {0}]
  BY <1>3
<1>4. CASE c \in [do : {"resends"}, value : 0 .. 3]
  BY <1>4
<1>5. CASE c \in [do : {"enqueue"}]
  BY <1>5
<1>6. QED
  BY <1>1, <1>2, <1>3, <1>4, <1>5 DEF Changes

-----------------------------------------------------------------------------
(* A change that is done does what the sequence said it would.             *)

LEMMA MemStep ==
  ASSUME ServiceType, todo # <<>>, todo' = Tail(todo), NEW x, NEW v,
         Hit(todo[1], MemDo, {x}) => Kept(x)' = todo[1].value /\ todo[1].of = x,
         ~Hit(todo[1], MemDo, {x}) => Kept(x)' = Kept(x)
  PROVE  MemWill(todo, x, v)' <=> MemWill(todo, x, v)
<1>1. todo \in Seq(Changes)
  BY DEF ServiceType
<1>2. /\ Touches(todo, MemDo, {x}) <=> Hit(todo[1], MemDo, {x}) \/ Touches(Tail(todo), MemDo, {x})
      /\ Leaves(todo, MemDo, {x}, x, v)
           <=> \/ Leaves(Tail(todo), MemDo, {x}, x, v)
               \/ ~Touches(Tail(todo), MemDo, {x}) /\ Hit(todo[1], MemDo, {x}) /\ todo[1].of = x /\ todo[1].value = v
  BY <1>1, HeadDoes
<1>3. MemWill(todo, x, v)' <=> \/ Leaves(Tail(todo), MemDo, {x}, x, v)
                               \/ ~Touches(Tail(todo), MemDo, {x}) /\ Kept(x)' = v
  BY DEF MemWill
<1>4. QED
  BY <1>2, <1>3 DEF MemWill

LEMMA RowStep ==
  ASSUME ServiceType, todo # <<>>, todo' = Tail(todo), NEW x \in Things, NEW v,
         ~Hit(todo[1], {"save"}, Sharing(x)) =>
           (HasRow(x, v)' <=> HasRow(x, v)) /\ (RowId(x) \in unsaved' <=> RowId(x) \in unsaved),
         Hit(todo[1], {"save"}, Sharing(x)) =>
           \/ RowId(x) \notin unsaved' /\ (HasRow(x, v)' <=> todo[1].of = x /\ todo[1].value = v)
           \/ RowId(x) \in unsaved'
  PROVE  /\ RowWill(todo, x, v)' => RowWill(todo, x, v)
         /\ RowWill(todo, x, v) \/ Lost(todo, x) => RowWill(todo, x, v)' \/ Lost(todo, x)'
<1> DEFINE S == Sharing(x)
           t == Tail(todo)
<1>1. todo \in Seq(Changes)
  BY DEF ServiceType
<1>2. /\ Touches(todo, {"save"}, S) <=> Hit(todo[1], {"save"}, S) \/ Touches(t, {"save"}, S)
      /\ Leaves(todo, {"save"}, S, x, v)
           <=> \/ Leaves(t, {"save"}, S, x, v)
               \/ ~Touches(t, {"save"}, S) /\ Hit(todo[1], {"save"}, S) /\ todo[1].of = x /\ todo[1].value = v
  BY <1>1, HeadDoes
<1>3. S' = S
  BY DEF Sharing
<1>4. RowWill(todo, x, v)' <=> \/ Leaves(t, {"save"}, S, x, v)
                               \/ ~Touches(t, {"save"}, S) /\ RowId(x) \notin unsaved' /\ HasRow(x, v)'
  BY <1>3 DEF RowWill
<1>5. Lost(todo, x)' <=> ~Touches(t, {"save"}, S) /\ RowId(x) \in unsaved'
  BY <1>3 DEF Lost
<1>6. QED
  BY <1>2, <1>4, <1>5 DEF RowWill, Lost

LEMMA ParamStep ==
  ASSUME ServiceType, todo # <<>>, todo' = Tail(todo), NEW f \in Flags, NEW v,
         Hit(todo[1], {"param"}, {f}) => todo[1].of = f /\ (params'[f] = todo[1].value \/ f \in unset'),
         ~Hit(todo[1], {"param"}, {f}) => params'[f] = params[f] /\ (f \in unset => f \in unset')
  PROVE  ParamWill(todo, f, v) => ParamWill(todo, f, v)'
<1>1. todo \in Seq(Changes)
  BY DEF ServiceType
<1>2. /\ Touches(todo, {"param"}, {f}) <=> Hit(todo[1], {"param"}, {f}) \/ Touches(Tail(todo), {"param"}, {f})
      /\ Leaves(todo, {"param"}, {f}, f, v)
           <=> \/ Leaves(Tail(todo), {"param"}, {f}, f, v)
               \/ /\ ~Touches(Tail(todo), {"param"}, {f})
                  /\ Hit(todo[1], {"param"}, {f}) /\ todo[1].of = f /\ todo[1].value = v
  BY <1>1, HeadDoes
<1>3. ParamWill(todo, f, v)' <=> \/ Leaves(Tail(todo), {"param"}, {f}, f, v)
                                 \/ ~Touches(Tail(todo), {"param"}, {f}) /\ (params'[f] = v \/ f \in unset')
  BY DEF ParamWill
<1>4. QED
  BY <1>2, <1>3 DEF ParamWill

LEMMA ToldStep ==
  ASSUME ServiceType, todo # <<>>, todo' = Tail(todo), NEW f \in Flags, NEW v,
         Hit(todo[1], {"tell"}, {f}) => todo[1].of = f /\ told'[f] = todo[1].value,
         ~Hit(todo[1], {"tell"}, {f}) =>
           (f \in DOMAIN told <=> f \in DOMAIN told') /\ (f \in DOMAIN told => told'[f] = told[f])
  PROVE  ToldWill(todo, f, v) => ToldWill(todo, f, v)'
<1>1. todo \in Seq(Changes)
  BY DEF ServiceType
<1>2. /\ Touches(todo, {"tell"}, {f}) <=> Hit(todo[1], {"tell"}, {f}) \/ Touches(Tail(todo), {"tell"}, {f})
      /\ Leaves(todo, {"tell"}, {f}, f, v)
           <=> \/ Leaves(Tail(todo), {"tell"}, {f}, f, v)
               \/ /\ ~Touches(Tail(todo), {"tell"}, {f})
                  /\ Hit(todo[1], {"tell"}, {f}) /\ todo[1].of = f /\ todo[1].value = v
  BY <1>1, HeadDoes
<1>3. ToldWill(todo, f, v)' <=> \/ Leaves(Tail(todo), {"tell"}, {f}, f, v)
                                \/ ~Touches(Tail(todo), {"tell"}, {f}) /\ (f \in DOMAIN told' => told'[f] = v)
  BY DEF ToldWill
<1>4. QED
  BY <1>2, <1>3 DEF ToldWill

(* If each part does as it was said to, the invariants stay.               *)
LEMMA DoneAsSaid ==
  ASSUME NothingInv(todo), DurableInv(todo), FlagsInv(todo),
         \A x \in Things : \A v : MemWill(todo, x, v)' <=> MemWill(todo, x, v),
         \A x \in Things, v \in Values \ {0} :
           /\ RowWill(todo, x, v)' => RowWill(todo, x, v)
           /\ RowWill(todo, x, v) \/ Lost(todo, x) => RowWill(todo, x, v)' \/ Lost(todo, x)',
         \A f \in Flags : \A v : ParamWill(todo, f, v) => ParamWill(todo, f, v)',
         \A f \in Flags : \A v : ToldWill(todo, f, v) => ToldWill(todo, f, v)'
  PROVE  NothingInv(todo)' /\ DurableInv(todo)' /\ FlagsInv(todo)'
<1>1. NothingInv(todo)'
  <2>1. \A x \in Things, v \in Values \ {0} : RowWill(todo, x, v)' => MemWill(todo, x, v)'
    BY DEF NothingInv
  <2>2. QED
    BY <2>1 DEF NothingInv, Things, Values
<1>2. DurableInv(todo)'
  <2>1. \A x \in Things \ {StickyUnreach}, v \in Values \ {0} :
          MemWill(todo, x, v)' => SharesRow(x) \/ RowWill(todo, x, v)' \/ Lost(todo, x)'
    BY DEF DurableInv
  <2>2. QED
    BY <2>1 DEF DurableInv, Things, Values, SharesRow
<1>3. FlagsInv(todo)'
  <2>1. \A f \in Flags, v \in {0, 1} : MemWill(todo, f, v)' => ParamWill(todo, f, v)' /\ ToldWill(todo, f, v)'
    BY DEF FlagsInv, Things
  <2>2. QED
    BY <2>1 DEF FlagsInv
<1>4. QED
  BY <1>1, <1>2, <1>3

(* The parts that a change leaves alone.                                   *)
LEMMA MemUntouched ==
  ASSUME ServiceType, todo # <<>>, todo' = Tail(todo), todo[1].do \notin MemDo, UNCHANGED <<flag, errors>>
  PROVE  \A x \in Things : \A v : MemWill(todo, x, v)' <=> MemWill(todo, x, v)
<1>1. ASSUME NEW x \in Things, NEW v PROVE MemWill(todo, x, v)' <=> MemWill(todo, x, v)
  <2>1. ~Hit(todo[1], MemDo, {x})
    BY DEF Hit
  <2>2. Kept(x)' = Kept(x)
    BY DEF Kept
  <2>3. QED
    BY <2>1, <2>2, MemStep
<1>2. QED
  BY <1>1

LEMMA RowsUntouched ==
  ASSUME ServiceType, todo # <<>>, todo' = Tail(todo), todo[1].do # "save", UNCHANGED <<rows, unsaved>>
  PROVE  \A x \in Things, v \in Values \ {0} :
           /\ RowWill(todo, x, v)' => RowWill(todo, x, v)
           /\ RowWill(todo, x, v) \/ Lost(todo, x) => RowWill(todo, x, v)' \/ Lost(todo, x)'
<1>1. ASSUME NEW x \in Things, NEW v \in Values \ {0}
      PROVE  /\ RowWill(todo, x, v)' => RowWill(todo, x, v)
             /\ RowWill(todo, x, v) \/ Lost(todo, x) => RowWill(todo, x, v)' \/ Lost(todo, x)'
  <2>1. ~Hit(todo[1], {"save"}, Sharing(x))
    BY DEF Hit
  <2>2. (HasRow(x, v)' <=> HasRow(x, v)) /\ (RowId(x) \in unsaved' <=> RowId(x) \in unsaved)
    BY DEF HasRow
  <2>3. QED
    BY <2>1, <2>2, RowStep
<1>2. QED
  BY <1>1

LEMMA ParamsUntouched ==
  ASSUME ServiceType, todo # <<>>, todo' = Tail(todo), todo[1].do # "param", UNCHANGED <<params, unset>>
  PROVE  \A f \in Flags : \A v : ParamWill(todo, f, v) => ParamWill(todo, f, v)'
<1>1. ASSUME NEW f \in Flags, NEW v PROVE ParamWill(todo, f, v) => ParamWill(todo, f, v)'
  <2>1. ~Hit(todo[1], {"param"}, {f})
    BY DEF Hit
  <2>2. QED
    BY <2>1, ParamStep
<1>2. QED
  BY <1>1

LEMMA ToldUntouched ==
  ASSUME ServiceType, todo # <<>>, todo' = Tail(todo), todo[1].do # "tell", UNCHANGED told
  PROVE  \A f \in Flags : \A v : ToldWill(todo, f, v) => ToldWill(todo, f, v)'
<1>1. ASSUME NEW f \in Flags, NEW v PROVE ToldWill(todo, f, v) => ToldWill(todo, f, v)'
  <2>1. ~Hit(todo[1], {"tell"}, {f})
    BY DEF Hit
  <2>2. QED
    BY <2>1, ToldStep
<1>2. QED
  BY <1>1

LEMMA TailPlaces ==
  ASSUME NEW S, NEW s \in Seq(S), s # <<>>
  PROVE  /\ Tail(s) \in Seq(S) /\ 1 \in DOMAIN s
         /\ \A i \in DOMAIN Tail(s) : i + 1 \in DOMAIN s /\ i + 1 # 1 /\ Tail(s)[i] = s[i + 1]
         /\ \A i \in DOMAIN s : i # 1 => i - 1 \in DOMAIN Tail(s) /\ Tail(s)[i - 1] = s[i]
<1>1. Len(s) \in Nat \ {0} /\ DOMAIN s = 1 .. Len(s) /\ Tail(s) \in Seq(S)
  OBVIOUS
<1>2. Len(Tail(s)) = Len(s) - 1 /\ DOMAIN Tail(s) = 1 .. Len(s) - 1
  BY <1>1
<1>3. \A i \in 1 .. Len(s) - 1 : Tail(s)[i] = s[i + 1]
  BY <1>1
<1>4. \A i \in DOMAIN Tail(s) : i + 1 \in DOMAIN s /\ i + 1 # 1 /\ Tail(s)[i] = s[i + 1]
  BY <1>1, <1>2, <1>3
<1>5. ASSUME NEW i \in DOMAIN s, i # 1 PROVE i - 1 \in DOMAIN Tail(s) /\ Tail(s)[i - 1] = s[i]
  <2>1. i - 1 \in 1 .. Len(s) - 1 /\ (i - 1) + 1 = i
    BY <1>1, <1>5
  <2>2. QED
    BY <1>2, <1>3, <2>1
<1>6. QED
  BY <1>1, <1>4, <1>5

LEMMA EnqueuedStep ==
  ASSUME ServiceType, EnqueuedInv, todo # <<>>, todo' = Tail(todo),
         todo[1].do \notin {"enqueue", "resends"}, UNCHANGED <<resends, tries>>
  PROVE  EnqueuedInv'
<1>1. /\ 1 \in DOMAIN todo
      /\ \A i \in DOMAIN todo' : i + 1 \in DOMAIN todo /\ todo'[i] = todo[i + 1]
      /\ \A i \in DOMAIN todo : i # 1 => i - 1 \in DOMAIN todo' /\ todo'[i - 1] = todo[i]
  BY TailPlaces DEF ServiceType
<1>2. ~\E n \in 0 .. 3 : n <= tries + 1 /\ todo = Enqueue \o Resends(n)
  BY DEF Enqueue, Resends
<1>3. /\ \A i \in DOMAIN todo : todo[i].do # "enqueue" /\ (todo[i].do = "resends" => todo[i].value <= tries)
      /\ resends <= tries \/ \E i \in DOMAIN todo : todo[i].do = "resends"
  BY <1>2 DEF EnqueuedInv
<1>4. \A i \in DOMAIN todo' : todo'[i].do # "enqueue" /\ (todo'[i].do = "resends" => todo'[i].value <= tries')
  BY <1>1, <1>3
<1>5. resends' <= tries' \/ \E i \in DOMAIN todo' : todo'[i].do = "resends"
  <2>1. CASE resends <= tries
    BY <2>1
  <2>2. ASSUME NEW i \in DOMAIN todo, todo[i].do = "resends" PROVE \E j \in DOMAIN todo' : todo'[j].do = "resends"
    BY <1>1, <2>2
  <2>3. QED
    BY <1>3, <2>1, <2>2
<1>6. QED
  BY <1>4, <1>5 DEF EnqueuedInv

-----------------------------------------------------------------------------
(* One step for each change of a call.                                     *)

(* Nothing but the next change is taken, and it is one of Changes.         *)
LEMMA NextChange ==
  ASSUME ServiceInv, NEW do, Now(do)
  PROVE  /\ ServiceType /\ todo # <<>> /\ todo' = Tail(todo) /\ todo' \in Seq(Changes)
         /\ todo[1] \in Changes /\ todo[1].do = do
         /\ NothingInv(todo) /\ DurableInv(todo) /\ FlagsInv(todo)
         /\ RowsInv /\ KnownRows /\ EnqueuedInv
<1>1. todo \in Seq(Changes) /\ todo # <<>> /\ todo' = Tail(todo) /\ todo[1].do = do
  BY DEF ServiceInv, ServiceType, Now
<1>2. todo[1] \in Changes /\ Tail(todo) \in Seq(Changes)
  BY <1>1, HeadFirst
<1>3. QED
  BY <1>1, <1>2 DEF ServiceInv

LEMMA AssignFlagKeeps ==
  ASSUME ServiceInv, AssignFlag
  PROVE  ServiceInv'
<1> DEFINE c == todo[1]
<1>1. Now("flag") /\ flag' = [flag EXCEPT ![c.of] = c.value]
      /\ UNCHANGED <<errors, known, resends, named, rows, params, told, unsaved, unset, tries>>
  BY DEF AssignFlag, Change, outside, bounds
<1>2. /\ ServiceType /\ todo # <<>> /\ todo' = Tail(todo) /\ todo' \in Seq(Changes)
      /\ c \in Changes /\ c.do = "flag"
      /\ NothingInv(todo) /\ DurableInv(todo) /\ FlagsInv(todo)
      /\ RowsInv /\ KnownRows /\ EnqueuedInv
  BY <1>1, NextChange
<1>3. c.of \in Flags /\ c.value \in {0, 1}
  BY <1>2, ChangeForm
<1>4. \A x \in Things : \A v : MemWill(todo, x, v)' <=> MemWill(todo, x, v)
  <2>1. ASSUME NEW x \in Things, NEW v PROVE MemWill(todo, x, v)' <=> MemWill(todo, x, v)
    <3>1. Hit(c, MemDo, {x}) <=> c.of = x
      BY <1>2 DEF Hit, MemDo
    <3>2. c.of = x => Kept(x)' = c.value
      BY <1>1, <1>2, <1>3 DEF Kept, ServiceType
    <3>3. c.of # x => Kept(x)' = Kept(x)
      BY <1>1, <1>2, <1>3 DEF Kept, ServiceType
    <3>4. QED
      BY <1>2, <3>1, <3>2, <3>3, MemStep
  <2>2. QED
    BY <2>1
<1>5. NothingInv(todo)' /\ DurableInv(todo)' /\ FlagsInv(todo)'
  BY <1>1, <1>2, <1>4, RowsUntouched, ParamsUntouched, ToldUntouched, DoneAsSaid
<1>6. EnqueuedInv'
  BY <1>1, <1>2, EnqueuedStep
<1>7. ServiceType'
  BY <1>1, <1>2, <1>3 DEF ServiceType
<1>8. RowsInv' /\ KnownRows'
  BY <1>1, <1>2 DEF RowsInv, HasRow, KnownRows
<1>9. QED
  BY <1>5, <1>6, <1>7, <1>8 DEF ServiceInv

LEMMA AssignErrorKeeps ==
  ASSUME ServiceInv, AssignError
  PROVE  ServiceInv'
<1> DEFINE c == todo[1]
<1>1. Now("error") /\ errors' = Put(errors, c.of, c.value)
      /\ UNCHANGED <<flag, known, resends, named, rows, params, told, unsaved, unset, tries>>
  BY DEF AssignError, Change, outside, bounds
<1>2. /\ ServiceType /\ todo # <<>> /\ todo' = Tail(todo) /\ todo' \in Seq(Changes)
      /\ c \in Changes /\ c.do = "error"
      /\ NothingInv(todo) /\ DurableInv(todo) /\ FlagsInv(todo)
      /\ RowsInv /\ KnownRows /\ EnqueuedInv
  BY <1>1, NextChange
<1>3. c.of \in Keys /\ c.value \in Values /\ c.of \notin Flags
  BY <1>2, ChangeForm, ThingRows
<1>4. /\ DOMAIN errors' = DOMAIN errors \cup {c.of} /\ errors'[c.of] = c.value
      /\ \A k \in DOMAIN errors : k # c.of => errors'[k] = errors[k]
  BY <1>1 DEF Put
<1>5. \A x \in Things : \A v : MemWill(todo, x, v)' <=> MemWill(todo, x, v)
  <2>1. ASSUME NEW x \in Things, NEW v PROVE MemWill(todo, x, v)' <=> MemWill(todo, x, v)
    <3>1. Hit(c, MemDo, {x}) <=> c.of = x
      BY <1>2 DEF Hit, MemDo
    <3>2. c.of = x => Kept(x)' = c.value
      BY <1>3, <1>4 DEF Kept
    <3>3. c.of # x => Kept(x)' = Kept(x)
      BY <1>1, <1>4 DEF Kept
    <3>4. QED
      BY <1>2, <3>1, <3>2, <3>3, MemStep
  <2>2. QED
    BY <2>1
<1>6. NothingInv(todo)' /\ DurableInv(todo)' /\ FlagsInv(todo)'
  BY <1>1, <1>2, <1>5, RowsUntouched, ParamsUntouched, ToldUntouched, DoneAsSaid
<1>7. EnqueuedInv'
  BY <1>1, <1>2, EnqueuedStep
<1>8. ServiceType'
  BY <1>1, <1>2, <1>3, <1>4 DEF ServiceType
<1>9. RowsInv' /\ KnownRows'
  BY <1>1, <1>2 DEF RowsInv, HasRow, KnownRows
<1>10. QED
  BY <1>6, <1>7, <1>8, <1>9 DEF ServiceInv

LEMMA EraseErrorKeeps ==
  ASSUME ServiceInv, EraseError
  PROVE  ServiceInv'
<1> DEFINE c == todo[1]
<1>1. Now("erase") /\ errors' = Restrict(errors, DOMAIN errors \ {c.of})
      /\ UNCHANGED <<flag, known, resends, named, rows, params, told, unsaved, unset, tries>>
  BY DEF EraseError, Change, outside, bounds
<1>2. /\ ServiceType /\ todo # <<>> /\ todo' = Tail(todo) /\ todo' \in Seq(Changes)
      /\ c \in Changes /\ c.do = "erase"
      /\ NothingInv(todo) /\ DurableInv(todo) /\ FlagsInv(todo)
      /\ RowsInv /\ KnownRows /\ EnqueuedInv
  BY <1>1, NextChange
<1>3. c.of \in Keys /\ c.value = 0 /\ c.of \notin Flags
  BY <1>2, ChangeForm, ThingRows
<1>4. /\ DOMAIN errors' = DOMAIN errors \ {c.of}
      /\ \A k \in DOMAIN errors' : errors'[k] = errors[k]
  BY <1>1 DEF Restrict
<1>5. \A x \in Things : \A v : MemWill(todo, x, v)' <=> MemWill(todo, x, v)
  <2>1. ASSUME NEW x \in Things, NEW v PROVE MemWill(todo, x, v)' <=> MemWill(todo, x, v)
    <3>1. Hit(c, MemDo, {x}) <=> c.of = x
      BY <1>2 DEF Hit, MemDo
    <3>2. c.of = x => Kept(x)' = c.value
      BY <1>3, <1>4 DEF Kept
    <3>3. c.of # x => Kept(x)' = Kept(x)
      BY <1>1, <1>4 DEF Kept
    <3>4. QED
      BY <1>2, <3>1, <3>2, <3>3, MemStep
  <2>2. QED
    BY <2>1
<1>6. NothingInv(todo)' /\ DurableInv(todo)' /\ FlagsInv(todo)'
  BY <1>1, <1>2, <1>5, RowsUntouched, ParamsUntouched, ToldUntouched, DoneAsSaid
<1>7. EnqueuedInv'
  BY <1>1, <1>2, EnqueuedStep
<1>8. ServiceType'
  BY <1>1, <1>2, <1>3, <1>4 DEF ServiceType
<1>9. RowsInv' /\ KnownRows'
  BY <1>1, <1>2 DEF RowsInv, HasRow, KnownRows
<1>10. QED
  BY <1>6, <1>7, <1>8, <1>9 DEF ServiceInv

(* What the four outcomes of save() have in common.                        *)
LEMMA SaveKeeps ==
  ASSUME ServiceInv, Now("save"), UNCHANGED <<flag, errors, resends, named, params, told, unset, tries>>,
         \A x \in Things, v \in Values \ {0} :
           /\ RowWill(todo, x, v)' => RowWill(todo, x, v)
           /\ RowWill(todo, x, v) \/ Lost(todo, x) => RowWill(todo, x, v)' \/ Lost(todo, x)',
         RowsInv', KnownRows'
  PROVE  ServiceInv'
<1>1. /\ ServiceType /\ todo # <<>> /\ todo' = Tail(todo) /\ todo' \in Seq(Changes)
      /\ todo[1] \in Changes /\ todo[1].do = "save"
      /\ NothingInv(todo) /\ DurableInv(todo) /\ FlagsInv(todo)
      /\ RowsInv /\ KnownRows /\ EnqueuedInv
  BY NextChange
<1>2. "save" \notin MemDo
  BY DEF MemDo
<1>3. \A x \in Things : \A v : MemWill(todo, x, v)' <=> MemWill(todo, x, v)
  BY <1>1, <1>2, MemUntouched
<1>4. NothingInv(todo)' /\ DurableInv(todo)' /\ FlagsInv(todo)'
  BY <1>1, <1>3, ParamsUntouched, ToldUntouched, DoneAsSaid
<1>5. EnqueuedInv'
  BY <1>1, EnqueuedStep
<1>6. ServiceType'
  BY <1>1 DEF ServiceType
<1>7. QED
  BY <1>4, <1>5, <1>6 DEF ServiceInv

(* The row of a change that saves, and whom it concerns.                   *)
LEMMA SavedRow ==
  ASSUME NEW c \in Changes, c.do = "save"
  PROVE  /\ c.of \in Things /\ c.value \in Values /\ (c.of \in Flags => c.value \in {0, 1})
         /\ \A x \in Things : Hit(c, {"save"}, Sharing(x)) <=> RowId(c.of) = RowId(x)
<1>1. c.of \in Things /\ c.value \in Values /\ (c.of \in Flags => c.value \in {0, 1})
  BY ChangeForm
<1>2. QED
  BY <1>1 DEF Hit, Sharing

LEMMA UpdateRowKeeps ==
  ASSUME ServiceInv, UpdateRow
  PROVE  ServiceInv'
<1> DEFINE c == todo[1]
           i == RowId(c.of)
           row == [of |-> c.of, value |-> c.value]
<1>1. /\ Now("save") /\ i \in known /\ c.value > 0
      /\ rows' = IF i \in DOMAIN rows THEN [rows EXCEPT ![i] = row] ELSE rows
      /\ unsaved' = unsaved \ {i}
      /\ UNCHANGED <<flag, errors, known, resends, named, params, told, unset, tries>>
  BY DEF UpdateRow, Change, Row, Known, memory
<1>2. /\ ServiceType /\ todo # <<>> /\ todo' = Tail(todo)
      /\ c \in Changes /\ c.do = "save" /\ RowsInv /\ KnownRows
  BY <1>1, NextChange
<1>3. /\ c.of \in Things /\ c.value \in Values /\ (c.of \in Flags => c.value \in {0, 1})
      /\ \A x \in Things : Hit(c, {"save"}, Sharing(x)) <=> i = RowId(x)
  BY <1>2, SavedRow
<1>4. /\ DOMAIN rows' = DOMAIN rows /\ i \in DOMAIN rows /\ rows'[i] = row
      /\ \A j \in DOMAIN rows : j # i => rows'[j] = rows[j]
  BY <1>1, <1>2 DEF KnownRows
<1>5. row.of = c.of /\ row.value = c.value /\ \A x, v : row = [of |-> x, value |-> v] <=> c.of = x /\ c.value = v
  OBVIOUS
<1> HIDE DEF i, row
<1>6. \A x \in Things, v \in Values \ {0} :
        /\ RowWill(todo, x, v)' => RowWill(todo, x, v)
        /\ RowWill(todo, x, v) \/ Lost(todo, x) => RowWill(todo, x, v)' \/ Lost(todo, x)'
  <2>1. ASSUME NEW x \in Things, NEW v \in Values \ {0}
        PROVE  /\ RowWill(todo, x, v)' => RowWill(todo, x, v)
               /\ RowWill(todo, x, v) \/ Lost(todo, x) => RowWill(todo, x, v)' \/ Lost(todo, x)'
    <3>1. i = RowId(x) => RowId(x) \notin unsaved' /\ (HasRow(x, v)' <=> c.of = x /\ c.value = v)
      BY <1>1, <1>4, <1>5 DEF HasRow
    <3>2. i # RowId(x) => (HasRow(x, v)' <=> HasRow(x, v)) /\ (RowId(x) \in unsaved' <=> RowId(x) \in unsaved)
      BY <1>1, <1>4 DEF HasRow
    <3>3. QED
      BY <1>2, <1>3, <3>1, <3>2, RowStep
  <2>2. QED
    BY <2>1
<1>7. RowsInv'
  <2>1. ASSUME NEW j \in DOMAIN rows'
        PROVE  \E x \in Things, v \in Values : j = RowId(x) /\ HasRow(x, v)' /\ (x \in Flags => v \in {0, 1})
    <3>1. CASE j = i
      <4>1. PICK y \in Things, w \in Values : y = c.of /\ w = c.value
        BY <1>3
      <4>2. i = RowId(y) /\ row = [of |-> y, value |-> w]
        BY <4>1 DEF i, row
      <4>3. HasRow(y, w)'
        BY <1>4, <4>2 DEF HasRow
      <4>4. QED
        BY <1>3, <3>1, <4>1, <4>2, <4>3
    <3>2. CASE j # i
      BY <1>2, <1>4, <2>1, <3>2 DEF RowsInv, HasRow
    <3>3. QED
      BY <3>1, <3>2
  <2>2. QED
    BY <2>1 DEF RowsInv, Things, Values
<1>8. KnownRows'
  BY <1>1, <1>2, <1>4 DEF KnownRows
<1>9. QED
  BY <1>1, <1>6, <1>7, <1>8, SaveKeeps

LEMMA InsertRowKeeps ==
  ASSUME ServiceInv, InsertRow
  PROVE  ServiceInv'
<1> DEFINE c == todo[1]
           i == RowId(c.of)
           row == [of |-> c.of, value |-> c.value]
<1>1. /\ Now("save") /\ i \notin known
      /\ rows' = Put(rows, i, row) /\ unsaved' = unsaved \ {i}
      /\ UNCHANGED <<flag, errors, known, resends, named, params, told, unset, tries>>
  BY DEF InsertRow, Change, Row, Known, Inserted, memory
<1>2. /\ ServiceType /\ todo # <<>> /\ todo' = Tail(todo)
      /\ c \in Changes /\ c.do = "save" /\ RowsInv /\ KnownRows
  BY <1>1, NextChange
<1>3. /\ c.of \in Things /\ c.value \in Values /\ (c.of \in Flags => c.value \in {0, 1})
      /\ \A x \in Things : Hit(c, {"save"}, Sharing(x)) <=> i = RowId(x)
  BY <1>2, SavedRow
<1>4. /\ DOMAIN rows' = DOMAIN rows \cup {i} /\ rows'[i] = row
      /\ \A j \in DOMAIN rows : j # i => rows'[j] = rows[j]
  BY <1>1 DEF Put
<1>5. row.of = c.of /\ row.value = c.value /\ \A x, v : row = [of |-> x, value |-> v] <=> c.of = x /\ c.value = v
  OBVIOUS
<1> HIDE DEF i, row
<1>6. \A x \in Things, v \in Values \ {0} :
        /\ RowWill(todo, x, v)' => RowWill(todo, x, v)
        /\ RowWill(todo, x, v) \/ Lost(todo, x) => RowWill(todo, x, v)' \/ Lost(todo, x)'
  <2>1. ASSUME NEW x \in Things, NEW v \in Values \ {0}
        PROVE  /\ RowWill(todo, x, v)' => RowWill(todo, x, v)
               /\ RowWill(todo, x, v) \/ Lost(todo, x) => RowWill(todo, x, v)' \/ Lost(todo, x)'
    <3>1. i = RowId(x) => RowId(x) \notin unsaved' /\ (HasRow(x, v)' <=> c.of = x /\ c.value = v)
      BY <1>1, <1>4, <1>5 DEF HasRow
    <3>2. i # RowId(x) => (HasRow(x, v)' <=> HasRow(x, v)) /\ (RowId(x) \in unsaved' <=> RowId(x) \in unsaved)
      BY <1>1, <1>4 DEF HasRow
    <3>3. QED
      BY <1>2, <1>3, <3>1, <3>2, RowStep
  <2>2. QED
    BY <2>1
<1>7. RowsInv'
  <2>1. ASSUME NEW j \in DOMAIN rows'
        PROVE  \E x \in Things, v \in Values : j = RowId(x) /\ HasRow(x, v)' /\ (x \in Flags => v \in {0, 1})
    <3>1. CASE j = i
      <4>1. PICK y \in Things, w \in Values : y = c.of /\ w = c.value
        BY <1>3
      <4>2. i = RowId(y) /\ row = [of |-> y, value |-> w]
        BY <4>1 DEF i, row
      <4>3. HasRow(y, w)'
        BY <1>4, <4>2 DEF HasRow
      <4>4. QED
        BY <1>3, <3>1, <4>1, <4>2, <4>3
    <3>2. CASE j # i
      BY <1>2, <1>4, <2>1, <3>2 DEF RowsInv, HasRow
    <3>3. QED
      BY <3>1, <3>2
  <2>2. QED
    BY <2>1 DEF RowsInv, Things, Values
<1>8. KnownRows'
  BY <1>1, <1>2, <1>4 DEF KnownRows
<1>9. QED
  BY <1>1, <1>6, <1>7, <1>8, SaveKeeps

LEMMA DeleteRowKeeps ==
  ASSUME ServiceInv, DeleteRow
  PROVE  ServiceInv'
<1> DEFINE c == todo[1]
           i == RowId(c.of)
<1>1. /\ Now("save") /\ c.value = 0
      /\ rows' = Restrict(rows, DOMAIN rows \ {i}) /\ known' = known \ {i} /\ unsaved' = unsaved \ {i}
      /\ UNCHANGED <<flag, errors, resends, named, params, told, unset, tries>>
  BY DEF DeleteRow, Change, Forget
<1>2. /\ ServiceType /\ todo # <<>> /\ todo' = Tail(todo)
      /\ c \in Changes /\ c.do = "save" /\ RowsInv /\ KnownRows
  BY <1>1, NextChange
<1>3. \A x \in Things : Hit(c, {"save"}, Sharing(x)) <=> i = RowId(x)
  BY <1>2, SavedRow
<1>4. DOMAIN rows' = DOMAIN rows \ {i} /\ \A j \in DOMAIN rows' : rows'[j] = rows[j]
  BY <1>1 DEF Restrict
<1> HIDE DEF i
<1>5. \A x \in Things, v \in Values \ {0} :
        /\ RowWill(todo, x, v)' => RowWill(todo, x, v)
        /\ RowWill(todo, x, v) \/ Lost(todo, x) => RowWill(todo, x, v)' \/ Lost(todo, x)'
  <2>1. ASSUME NEW x \in Things, NEW v \in Values \ {0}
        PROVE  /\ RowWill(todo, x, v)' => RowWill(todo, x, v)
               /\ RowWill(todo, x, v) \/ Lost(todo, x) => RowWill(todo, x, v)' \/ Lost(todo, x)'
    <3>1. i = RowId(x) => RowId(x) \notin unsaved' /\ (HasRow(x, v)' <=> c.of = x /\ c.value = v)
      BY <1>1, <1>4 DEF HasRow
    <3>2. i # RowId(x) => (HasRow(x, v)' <=> HasRow(x, v)) /\ (RowId(x) \in unsaved' <=> RowId(x) \in unsaved)
      BY <1>1, <1>4 DEF HasRow
    <3>3. QED
      BY <1>2, <1>3, <3>1, <3>2, RowStep
  <2>2. QED
    BY <2>1
<1>6. RowsInv'
  <2>1. ASSUME NEW j \in DOMAIN rows'
        PROVE  \E x \in Things, v \in Values : j = RowId(x) /\ HasRow(x, v)' /\ (x \in Flags => v \in {0, 1})
    <3>1. PICK x \in Things, v \in Values : j = RowId(x) /\ HasRow(x, v) /\ (x \in Flags => v \in {0, 1})
      BY <1>2, <1>4, <2>1 DEF RowsInv
    <3>2. HasRow(x, v)'
      BY <1>4, <2>1, <3>1 DEF HasRow
    <3>3. QED
      BY <3>1, <3>2
  <2>2. QED
    BY <2>1 DEF RowsInv, Things, Values
<1>7. KnownRows'
  BY <1>1, <1>2, <1>4 DEF KnownRows
<1>8. QED
  BY <1>1, <1>5, <1>6, <1>7, SaveKeeps

LEMMA NotSavedKeeps ==
  ASSUME ServiceInv, NotSaved
  PROVE  ServiceInv'
<1> DEFINE c == todo[1]
           i == RowId(c.of)
<1>1. /\ Now("save") /\ unsaved' = unsaved \cup {i}
      /\ UNCHANGED <<flag, errors, known, resends, named, rows, params, told, unset, tries>>
  BY DEF NotSaved, Inserts, Change, memory, outside
<1>2. /\ ServiceType /\ todo # <<>> /\ todo' = Tail(todo)
      /\ c \in Changes /\ c.do = "save" /\ RowsInv /\ KnownRows
  BY <1>1, NextChange
<1>3. \A x \in Things : Hit(c, {"save"}, Sharing(x)) <=> i = RowId(x)
  BY <1>2, SavedRow
<1> HIDE DEF i
<1>4. \A x \in Things, v \in Values \ {0} :
        /\ RowWill(todo, x, v)' => RowWill(todo, x, v)
        /\ RowWill(todo, x, v) \/ Lost(todo, x) => RowWill(todo, x, v)' \/ Lost(todo, x)'
  <2>1. ASSUME NEW x \in Things, NEW v \in Values \ {0}
        PROVE  /\ RowWill(todo, x, v)' => RowWill(todo, x, v)
               /\ RowWill(todo, x, v) \/ Lost(todo, x) => RowWill(todo, x, v)' \/ Lost(todo, x)'
    <3>1. i = RowId(x) => RowId(x) \in unsaved'
      BY <1>1
    <3>2. i # RowId(x) => (HasRow(x, v)' <=> HasRow(x, v)) /\ (RowId(x) \in unsaved' <=> RowId(x) \in unsaved)
      BY <1>1 DEF HasRow
    <3>3. QED
      BY <1>2, <1>3, <3>1, <3>2, RowStep
  <2>2. QED
    BY <2>1
<1>5. RowsInv' /\ KnownRows'
  BY <1>1, <1>2 DEF RowsInv, HasRow, KnownRows
<1>6. QED
  BY <1>1, <1>4, <1>5, SaveKeeps

LEMMA SaveParameterKeeps ==
  ASSUME ServiceInv, SaveParameter
  PROVE  ServiceInv'
<1> DEFINE c == todo[1]
<1>1. /\ Now("param")
      /\ params' = IF named THEN [params EXCEPT ![c.of] = c.value] ELSE params
      /\ unset' = IF named THEN unset \ {c.of} ELSE unset \cup {c.of}
      /\ UNCHANGED <<flag, errors, known, resends, named, rows, told, unsaved, tries>>
  BY DEF SaveParameter, Change, memory
<1>2. /\ ServiceType /\ todo # <<>> /\ todo' = Tail(todo) /\ todo' \in Seq(Changes)
      /\ c \in Changes /\ c.do = "param"
      /\ NothingInv(todo) /\ DurableInv(todo) /\ FlagsInv(todo)
      /\ RowsInv /\ KnownRows /\ EnqueuedInv
  BY <1>1, NextChange
<1>3. c.of \in Flags /\ c.value \in {0, 1}
  BY <1>2, ChangeForm
<1>4. \A f \in Flags : \A v : ParamWill(todo, f, v) => ParamWill(todo, f, v)'
  <2>1. ASSUME NEW f \in Flags, NEW v PROVE ParamWill(todo, f, v) => ParamWill(todo, f, v)'
    <3>1. Hit(c, {"param"}, {f}) <=> c.of = f
      BY <1>2 DEF Hit
    <3>2. c.of = f => params'[f] = c.value \/ f \in unset'
      BY <1>1, <1>2 DEF ServiceType
    <3>3. c.of # f => params'[f] = params[f] /\ (f \in unset => f \in unset')
      BY <1>1, <1>2 DEF ServiceType
    <3>4. QED
      BY <1>2, <3>1, <3>2, <3>3, ParamStep
  <2>2. QED
    BY <2>1
<1>5. "param" \notin MemDo
  BY DEF MemDo
<1>6. \A x \in Things : \A v : MemWill(todo, x, v)' <=> MemWill(todo, x, v)
  BY <1>1, <1>2, <1>5, MemUntouched
<1>7. NothingInv(todo)' /\ DurableInv(todo)' /\ FlagsInv(todo)'
  BY <1>1, <1>2, <1>4, <1>6, RowsUntouched, ToldUntouched, DoneAsSaid
<1>8. EnqueuedInv'
  BY <1>1, <1>2, EnqueuedStep
<1>9. ServiceType'
  BY <1>1, <1>2, <1>3 DEF ServiceType
<1>10. RowsInv' /\ KnownRows'
  BY <1>1, <1>2 DEF RowsInv, HasRow, KnownRows
<1>11. QED
  BY <1>7, <1>8, <1>9, <1>10 DEF ServiceInv

LEMMA RaiseEventKeeps ==
  ASSUME ServiceInv, RaiseEvent
  PROVE  ServiceInv'
<1> DEFINE c == todo[1]
<1>1. /\ Now("tell") /\ told' = Put(told, c.of, c.value)
      /\ UNCHANGED <<flag, errors, known, resends, named, rows, params, unsaved, unset, tries>>
  BY DEF RaiseEvent, Change, memory, bounds
<1>2. /\ ServiceType /\ todo # <<>> /\ todo' = Tail(todo) /\ todo' \in Seq(Changes)
      /\ c \in Changes /\ c.do = "tell"
      /\ NothingInv(todo) /\ DurableInv(todo) /\ FlagsInv(todo)
      /\ RowsInv /\ KnownRows /\ EnqueuedInv
  BY <1>1, NextChange
<1>3. /\ DOMAIN told' = DOMAIN told \cup {c.of} /\ told'[c.of] = c.value
      /\ \A x \in DOMAIN told : x # c.of => told'[x] = told[x]
  BY <1>1 DEF Put
<1>4. \A f \in Flags : \A v : ToldWill(todo, f, v) => ToldWill(todo, f, v)'
  <2>1. ASSUME NEW f \in Flags, NEW v PROVE ToldWill(todo, f, v) => ToldWill(todo, f, v)'
    <3>1. Hit(c, {"tell"}, {f}) <=> c.of = f
      BY <1>2 DEF Hit
    <3>2. QED
      BY <1>2, <1>3, <3>1, ToldStep
  <2>2. QED
    BY <2>1
<1>5. "tell" \notin MemDo
  BY DEF MemDo
<1>6. \A x \in Things : \A v : MemWill(todo, x, v)' <=> MemWill(todo, x, v)
  BY <1>1, <1>2, <1>5, MemUntouched
<1>7. NothingInv(todo)' /\ DurableInv(todo)' /\ FlagsInv(todo)'
  BY <1>1, <1>2, <1>4, <1>6, RowsUntouched, ParamsUntouched, DoneAsSaid
<1>8. EnqueuedInv'
  BY <1>1, <1>2, EnqueuedStep
<1>9. ServiceType'
  BY <1>1, <1>2 DEF ServiceType
<1>10. RowsInv' /\ KnownRows'
  BY <1>1, <1>2 DEF RowsInv, HasRow, KnownRows
<1>11. QED
  BY <1>7, <1>8, <1>9, <1>10 DEF ServiceInv

(* Requeueing counts first and notes it after.                             *)
LEMMA CountKeeps ==
  ASSUME ServiceInv, NEW do \in {"resends", "enqueue"}, Now(do),
         UNCHANGED <<flag, errors, known, named, rows, params, told, unsaved, unset>>,
         resends' \in Nat, tries' \in Nat, EnqueuedInv'
  PROVE  ServiceInv'
<1>1. /\ ServiceType /\ todo # <<>> /\ todo' = Tail(todo) /\ todo' \in Seq(Changes)
      /\ todo[1] \in Changes /\ todo[1].do = do
      /\ NothingInv(todo) /\ DurableInv(todo) /\ FlagsInv(todo)
      /\ RowsInv /\ KnownRows
  BY NextChange
<1>2. todo[1].do \notin MemDo /\ todo[1].do # "save" /\ todo[1].do # "param" /\ todo[1].do # "tell"
  BY <1>1 DEF MemDo
<1>3. \A x \in Things : \A v : MemWill(todo, x, v)' <=> MemWill(todo, x, v)
  BY <1>1, <1>2, MemUntouched
<1>4. NothingInv(todo)' /\ DurableInv(todo)' /\ FlagsInv(todo)'
  BY <1>1, <1>2, <1>3, RowsUntouched, ParamsUntouched, ToldUntouched, DoneAsSaid
<1>5. ServiceType'
  BY <1>1 DEF ServiceType
<1>6. RowsInv' /\ KnownRows'
  BY <1>1 DEF RowsInv, HasRow, KnownRows
<1>7. QED
  BY <1>4, <1>5, <1>6 DEF ServiceInv

LEMMA AssignResendsKeeps ==
  ASSUME ServiceInv, AssignResends
  PROVE  ServiceInv'
<1> DEFINE c == todo[1]
<1>1. Now("resends") /\ resends' = c.value
      /\ UNCHANGED <<flag, errors, known, named, rows, params, told, unsaved, unset, tries>>
  BY DEF AssignResends, Change, outside, bounds
<1>2. /\ ServiceType /\ todo # <<>> /\ todo' = Tail(todo) /\ c \in Changes /\ c.do = "resends" /\ EnqueuedInv
  BY <1>1, NextChange
<1>3. c.value \in Nat
  BY <1>2, ChangeForm
<1>4. /\ 1 \in DOMAIN todo
      /\ \A i \in DOMAIN todo' : i + 1 \in DOMAIN todo /\ todo'[i] = todo[i + 1]
  BY <1>2, TailPlaces DEF ServiceType
<1>5. ~\E n \in 0 .. 3 : n <= tries + 1 /\ todo = Enqueue \o Resends(n)
  BY <1>2 DEF Enqueue, Resends
<1>6. \A i \in DOMAIN todo : todo[i].do # "enqueue" /\ (todo[i].do = "resends" => todo[i].value <= tries)
  BY <1>2, <1>5 DEF EnqueuedInv
<1>7. \A i \in DOMAIN todo' : todo'[i].do # "enqueue" /\ (todo'[i].do = "resends" => todo'[i].value <= tries')
  BY <1>1, <1>4, <1>6
<1>8. resends' <= tries'
  BY <1>1, <1>2, <1>4, <1>6
<1>9. EnqueuedInv'
  BY <1>7, <1>8 DEF EnqueuedInv
<1>10. QED
  BY <1>1, <1>2, <1>3, <1>9, CountKeeps DEF ServiceType

LEMMA EnqueuePendingKeeps ==
  ASSUME ServiceInv, EnqueuePending
  PROVE  ServiceInv'
<1> DEFINE c == todo[1]
<1>1. Now("enqueue") /\ tries' = tries + 1
      /\ UNCHANGED <<flag, errors, known, resends, named, rows, params, told, unsaved, unset>>
  BY DEF EnqueuePending, outside, memory
<1>2. /\ ServiceType /\ todo # <<>> /\ todo' = Tail(todo) /\ c \in Changes /\ c.do = "enqueue" /\ EnqueuedInv
  BY <1>1, NextChange
<1>3. 1 \in DOMAIN todo
  BY <1>2, TailPlaces DEF ServiceType
<1>4. PICK n \in 0 .. 3 : n <= tries + 1 /\ todo = Enqueue \o Resends(n)
  BY <1>2, <1>3 DEF EnqueuedInv
<1>5. Len(todo) = 2 /\ todo[2] = [do |-> "resends", value |-> n]
  BY <1>4 DEF Enqueue, Resends
<1>6. 1 \in DOMAIN todo' /\ \A i \in DOMAIN todo' : todo'[i] = todo[2]
  <2>1. DOMAIN todo = {1, 2}
    BY <1>2, <1>5 DEF ServiceType
  <2>2. /\ \A i \in DOMAIN todo' : i + 1 \in DOMAIN todo /\ i + 1 # 1 /\ todo'[i] = todo[i + 1]
        /\ \A i \in DOMAIN todo : i # 1 => i - 1 \in DOMAIN todo'
    BY <1>2, TailPlaces DEF ServiceType
  <2>3. \A i \in DOMAIN todo' : i + 1 = 2 /\ todo'[i] = todo[2]
    BY <2>1, <2>2
  <2>4. 2 - 1 \in DOMAIN todo' /\ 2 - 1 = 1
    BY <2>1, <2>2
  <2>5. QED
    BY <2>3, <2>4
<1>7. EnqueuedInv'
  BY <1>1, <1>4, <1>5, <1>6 DEF EnqueuedInv
<1>8. QED
  BY <1>1, <1>2, <1>7, CountKeeps DEF ServiceType

-----------------------------------------------------------------------------
(* What the changes of a call have to do with each other: a row is saved   *)
(* with every change of memory and left as memory is left, and so are the  *)
(* parameter and the event of a flag.                                      *)
Plain(s) == \A i \in DOMAIN s : s[i].do # "enqueue" /\ (s[i].do = "resends" => s[i].value = 0)
Saves(s) ==
  /\ \A x \in Things, v \in Values \ {0} : Leaves(s, {"save"}, Sharing(x), x, v) => Leaves(s, MemDo, {x}, x, v)
  /\ \A x \in Things, v \in Values \ {0} : Leaves(s, MemDo, {x}, x, v) => Leaves(s, {"save"}, {x}, x, v)
  /\ \A x \in Things : Touches(s, MemDo, {x}) => Touches(s, {"save"}, {x})
  /\ \A x \in Things \ {StickyUnreach} : Touches(s, {"save"}, {x}) => Touches(s, MemDo, {x})
Tells(s, do) ==
  \A f \in Flags :
    /\ \A v \in {0, 1} : Leaves(s, MemDo, {f}, f, v) => Leaves(s, {do}, {f}, f, v)
    /\ ~Touches(s, MemDo, {f}) => ~Touches(s, {do}, {f}) \/ Leaves(s, {do}, {f}, f, flag[f])
Coherent(s) == s \in Seq(Changes) /\ Plain(s) /\ Saves(s) /\ Tells(s, "param") /\ Tells(s, "tell")

LEMMA AtRestWill ==
  ASSUME NEW x, NEW v
  PROVE  /\ MemWill(<<>>, x, v) <=> Kept(x) = v
         /\ RowWill(<<>>, x, v) <=> RowId(x) \notin unsaved /\ HasRow(x, v)
         /\ Lost(<<>>, x) <=> RowId(x) \in unsaved
         /\ ParamWill(<<>>, x, v) <=> params[x] = v \/ x \in unset
         /\ ToldWill(<<>>, x, v) <=> (x \in DOMAIN told => told[x] = v)
BY EmptyTouches DEF MemWill, RowWill, Lost, ParamWill, ToldWill

(* Between calls UNREACH was retried as often as was counted.              *)
LEMMA AtRestEnqueued ==
  ASSUME ServiceInv, todo = <<>>
  PROVE  resends <= tries
<1>1. DOMAIN todo = {}
  OBVIOUS
<1>2. ASSUME NEW n, todo = Enqueue \o Resends(n) PROVE FALSE
  <2>1. Len(todo) = 2 /\ Len(todo) = 0
    BY <1>2 DEF Enqueue, Resends
  <2>2. QED
    BY <2>1
<1>3. QED
  BY <1>1, <1>2 DEF ServiceInv, EnqueuedInv

LEMMA CallKeeps ==
  ASSUME ServiceInv, todo = <<>>, NEW s \in Seq(Changes), todo' = s,
         Saves(s), Tells(s, "param"), Tells(s, "tell"),
         UNCHANGED <<flag, errors, known, resends, named, rows, params, told, unsaved, unset>>,
         tries' \in Nat, EnqueuedInv'
  PROVE  ServiceInv'
<1>1. ServiceType /\ RowsInv /\ KnownRows /\ NothingInv(<<>>) /\ DurableInv(<<>>) /\ FlagsInv(<<>>)
  BY DEF ServiceInv
<1>2. /\ \A x \in Things : \A v :
           MemWill(todo, x, v)' <=> Leaves(s, MemDo, {x}, x, v) \/ (~Touches(s, MemDo, {x}) /\ Kept(x) = v)
      /\ \A x \in Things : \A v : RowWill(todo, x, v)' <=>
           \/ Leaves(s, {"save"}, Sharing(x), x, v)
           \/ ~Touches(s, {"save"}, Sharing(x)) /\ RowId(x) \notin unsaved /\ HasRow(x, v)
      /\ \A x \in Things : Lost(todo, x)' <=> ~Touches(s, {"save"}, Sharing(x)) /\ RowId(x) \in unsaved
      /\ \A f \in Flags : \A v : ParamWill(todo, f, v)' <=>
           \/ Leaves(s, {"param"}, {f}, f, v)
           \/ ~Touches(s, {"param"}, {f}) /\ (params[f] = v \/ f \in unset)
      /\ \A f \in Flags : \A v : ToldWill(todo, f, v)' <=>
           \/ Leaves(s, {"tell"}, {f}, f, v)
           \/ ~Touches(s, {"tell"}, {f}) /\ (f \in DOMAIN told => told[f] = v)
  BY DEF MemWill, RowWill, Lost, ParamWill, ToldWill, Kept, Sharing, HasRow
<1>3. NothingInv(todo)'
  <2>1. ASSUME NEW x \in Things, NEW v \in Values \ {0}, RowWill(todo, x, v)'
        PROVE  MemWill(todo, x, v)'
    <3>1. CASE Leaves(s, {"save"}, Sharing(x), x, v)
      BY <1>2, <3>1 DEF Saves
    <3>2. CASE ~Touches(s, {"save"}, Sharing(x)) /\ RowId(x) \notin unsaved /\ HasRow(x, v)
      <4>1. Kept(x) = v
        BY <1>1, <3>2, AtRestWill DEF NothingInv
      <4>2. ~Touches(s, {"save"}, {x})
        BY <3>2, SharedRows DEF Touches, Hit
      <4>3. ~Touches(s, MemDo, {x})
        BY <4>2 DEF Saves
      <4>4. QED
        BY <1>2, <4>1, <4>3
    <3>3. QED
      BY <1>2, <2>1, <3>1, <3>2
  <2>2. QED
    BY <2>1 DEF NothingInv, Things, Values
<1>4. DurableInv(todo)'
  <2>1. ASSUME NEW x \in Things \ {StickyUnreach}, NEW v \in Values \ {0}, MemWill(todo, x, v)', ~SharesRow(x)
        PROVE  RowWill(todo, x, v)' \/ Lost(todo, x)'
    <3>1. Sharing(x) = {x}
      BY <2>1, SharedRows
    <3>2. CASE Leaves(s, MemDo, {x}, x, v)
      <4>1. Leaves(s, {"save"}, {x}, x, v)
        BY <2>1, <3>2 DEF Saves
      <4>2. Leaves(s, {"save"}, Sharing(x), x, v)
        BY <3>1, <4>1
      <4>3. QED
        BY <1>2, <4>2
    <3>3. CASE ~Touches(s, MemDo, {x}) /\ Kept(x) = v
      <4>1. RowId(x) \in unsaved \/ HasRow(x, v)
        BY <1>1, <2>1, <3>3, AtRestWill DEF DurableInv
      <4>2. ~Touches(s, {"save"}, Sharing(x))
        BY <3>1, <3>3 DEF Saves
      <4>3. QED
        BY <1>2, <4>1, <4>2
    <3>4. QED
      BY <1>2, <2>1, <3>2, <3>3
  <2>2. QED
    BY <2>1 DEF DurableInv, Things, Values, SharesRow
<1>5. FlagsInv(todo)'
  <2>1. ASSUME NEW f \in Flags, NEW v \in {0, 1}, MemWill(todo, f, v)'
        PROVE  ParamWill(todo, f, v)' /\ ToldWill(todo, f, v)'
    <3>1. f \in Things /\ Kept(f) = flag[f]
      BY DEF Things, Kept
    <3>2. CASE Leaves(s, MemDo, {f}, f, v)
      BY <1>2, <3>2 DEF Tells
    <3>3. CASE ~Touches(s, MemDo, {f}) /\ Kept(f) = v
      <4>1. (params[f] = v \/ f \in unset) /\ (f \in DOMAIN told => told[f] = v)
        BY <1>1, <3>3, AtRestWill DEF FlagsInv
      <4>2. ~Touches(s, {"param"}, {f}) \/ Leaves(s, {"param"}, {f}, f, v)
        BY <3>1, <3>3 DEF Tells
      <4>3. ~Touches(s, {"tell"}, {f}) \/ Leaves(s, {"tell"}, {f}, f, v)
        BY <3>1, <3>3 DEF Tells
      <4>4. QED
        BY <1>2, <4>1, <4>2, <4>3
    <3>4. QED
      BY <1>2, <2>1, <3>1, <3>2, <3>3
  <2>2. QED
    BY <2>1 DEF FlagsInv
<1>6. ServiceType'
  BY <1>1 DEF ServiceType
<1>7. RowsInv' /\ KnownRows'
  BY <1>1 DEF RowsInv, HasRow, KnownRows
<1>8. QED
  BY <1>3, <1>4, <1>5, <1>6, <1>7 DEF ServiceInv

-----------------------------------------------------------------------------
(* The sequences that calls are put together from.                         *)

LEMMA Joined ==
  ASSUME NEW a \in Seq(Changes), NEW b \in Seq(Changes)
  PROVE  /\ a \o b \in Seq(Changes)
         /\ Plain(a \o b) <=> Plain(a) /\ Plain(b)
         /\ \A dos, xs : Touches(a \o b, dos, xs) <=> Touches(a, dos, xs) \/ Touches(b, dos, xs)
         /\ \A dos, xs, x, v : Leaves(a \o b, dos, xs, x, v)
              <=> Leaves(b, dos, xs, x, v) \/ (~Touches(b, dos, xs) /\ Leaves(a, dos, xs, x, v))
<1>1. a \o b \in Seq(Changes)
  OBVIOUS
<1>2. Plain(a \o b) <=> Plain(a) /\ Plain(b)
  <2> DEFINE s == a \o b
  <2>1. /\ \A i \in DOMAIN a : i \in DOMAIN s /\ s[i] = a[i]
        /\ \A i \in DOMAIN b : i + Len(a) \in DOMAIN s /\ s[i + Len(a)] = b[i]
        /\ \A i \in DOMAIN s : i \in DOMAIN a \/ (i - Len(a) \in DOMAIN b /\ s[i] = b[i - Len(a)])
    BY Places
  <2> HIDE DEF s
  <2>2. ASSUME Plain(s) PROVE Plain(a)
    BY <2>1, <2>2 DEF Plain
  <2>3. ASSUME Plain(s), NEW i \in DOMAIN b PROVE b[i].do # "enqueue" /\ (b[i].do = "resends" => b[i].value = 0)
    <3>1. i + Len(a) \in DOMAIN s /\ s[i + Len(a)] = b[i]
      BY <2>1
    <3>2. QED
      BY <2>3, <3>1 DEF Plain
  <2>4. ASSUME Plain(a), Plain(b), NEW i \in DOMAIN s
        PROVE  s[i].do # "enqueue" /\ (s[i].do = "resends" => s[i].value = 0)
    <3>1. CASE i \in DOMAIN a
      BY <2>1, <2>4, <3>1 DEF Plain
    <3>2. CASE i - Len(a) \in DOMAIN b /\ s[i] = b[i - Len(a)]
      BY <2>4, <3>2 DEF Plain
    <3>3. QED
      BY <2>1, <3>1, <3>2
  <2>5. Plain(s) => Plain(b)
    BY <2>3 DEF Plain
  <2>6. Plain(a) /\ Plain(b) => Plain(s)
    BY <2>4 DEF Plain
  <2>7. QED
    BY <2>2, <2>5, <2>6 DEF s
<1>3. \A dos, xs : Touches(a \o b, dos, xs) <=> Touches(a, dos, xs) \/ Touches(b, dos, xs)
  BY JoinedTouches
<1>4. \A dos, xs, x, v : Leaves(a \o b, dos, xs, x, v)
        <=> Leaves(b, dos, xs, x, v) \/ (~Touches(b, dos, xs) /\ Leaves(a, dos, xs, x, v))
  BY JoinedLeaves
<1>5. QED
  BY <1>1, <1>2, <1>3, <1>4

(* A sequence that is one change of a thing.                               *)
Does(s, do, x, v) ==
  /\ s \in Seq(Changes) /\ Plain(s)
  /\ \A dos, xs : Touches(s, dos, xs) <=> do \in dos /\ x \in xs
  /\ \A dos, xs, y, w : Leaves(s, dos, xs, y, w) <=> do \in dos /\ x \in xs /\ y = x /\ w = v

LEMMA SingleDoes ==
  ASSUME NEW do \in {"flag", "error", "erase", "save", "param", "tell"}, NEW x, NEW v, Single(do, x, v) \in Changes
  PROVE  Does(<<Single(do, x, v)>>, do, x, v)
<1> DEFINE c == Single(do, x, v)
<1>1. c.do = do /\ c.of = x /\ c.value = v
  BY DEF Single
<1>2. c \in Changes
  OBVIOUS
<1> HIDE DEF c
<1>3. \A dos, xs : Hit(c, dos, xs) <=> do \in dos /\ x \in xs
  BY <1>1 DEF Hit
<1>4. \A dos, xs : Touches(<<c>>, dos, xs) <=> do \in dos /\ x \in xs
  BY <1>3, SingleTouches
<1>5. \A dos, xs, y, w : Leaves(<<c>>, dos, xs, y, w) <=> do \in dos /\ x \in xs /\ y = x /\ w = v
  BY <1>1, <1>3, SingleLeaves
<1>6. <<c>> \in Seq(Changes)
  BY <1>2
<1>7. Plain(<<c>>)
  <2>1. DOMAIN <<c>> = {1} /\ <<c>>[1] = c
    OBVIOUS
  <2>2. QED
    BY <1>1, <2>1 DEF Plain
<1>8. QED
  BY <1>4, <1>5, <1>6, <1>7 DEF Does, c

LEMMA FlagChanges ==
  ASSUME NEW f \in Flags, NEW v \in {0, 1}
  PROVE  /\ Does(Flag(f, v), "flag", f, v) /\ Does(Save(f, v), "save", f, v)
         /\ Does(Param(f, v), "param", f, v) /\ Does(Tell(f, v), "tell", f, v)
<1>1. \A do \in {"flag", "save", "param", "tell"} : Single(do, f, v) \in Changes
  BY DEF Single, Changes
<1>2. /\ Flag(f, v) = <<Single("flag", f, v)>> /\ Save(f, v) = <<Single("save", f, v)>>
      /\ Param(f, v) = <<Single("param", f, v)>> /\ Tell(f, v) = <<Single("tell", f, v)>>
  BY DEF Single, Flag, Save, Param, Tell
<1>3. \A do \in {"flag", "save", "param", "tell"} : Does(<<Single(do, f, v)>>, do, f, v)
  BY <1>1, SingleDoes
<1>4. QED
  BY <1>2, <1>3

LEMMA ErrorChanges ==
  ASSUME NEW k \in Keys, NEW v \in Values
  PROVE  /\ Does(Error(k, v), "error", k, v) /\ Does(Save(k, v), "save", k, v)
         /\ Does(Tell(k, v), "tell", k, v) /\ Does(Erase(k), "erase", k, 0)
<1>1. /\ \A do \in {"error", "save", "tell"} : Single(do, k, v) \in Changes
      /\ Single("erase", k, 0) \in Changes
  BY DEF Single, Changes
<1>2. /\ Error(k, v) = <<Single("error", k, v)>> /\ Save(k, v) = <<Single("save", k, v)>>
      /\ Tell(k, v) = <<Single("tell", k, v)>> /\ Erase(k) = <<Single("erase", k, 0)>>
  BY DEF Single, Error, Save, Tell, Erase
<1>3. /\ \A do \in {"error", "save", "tell"} : Does(<<Single(do, k, v)>>, do, k, v)
      /\ Does(<<Single("erase", k, 0)>>, "erase", k, 0)
  BY <1>1, SingleDoes
<1>4. QED
  BY <1>2, <1>3

LEMMA ResendsChange ==
  /\ Resends(0) \in Seq(Changes) /\ Plain(Resends(0))
  /\ \A dos, xs : dos \subseteq MemDo \cup {"save", "param", "tell"} =>
       /\ ~Touches(Resends(0), dos, xs)
       /\ \A y, w : ~Leaves(Resends(0), dos, xs, y, w)
<1> DEFINE c == [do |-> "resends", value |-> 0]
<1>1. Resends(0) = <<c>> /\ c \in Changes /\ c.do = "resends" /\ c.value = 0
  BY DEF Resends, Changes
<1> HIDE DEF c
<1>2. <<c>> \in Seq(Changes) /\ DOMAIN <<c>> = {1} /\ <<c>>[1] = c
  BY <1>1
<1>3. \A dos, xs : dos \subseteq MemDo \cup {"save", "param", "tell"} => ~Hit(c, dos, xs)
  BY <1>1 DEF Hit, MemDo
<1>4. \A dos, xs : dos \subseteq MemDo \cup {"save", "param", "tell"} => ~Touches(<<c>>, dos, xs)
  BY <1>3, SingleTouches
<1>5. \A dos, xs : dos \subseteq MemDo \cup {"save", "param", "tell"} => \A y, w : ~Leaves(<<c>>, dos, xs, y, w)
  BY <1>3, SingleLeaves
<1>6. Plain(<<c>>)
  BY <1>1, <1>2 DEF Plain
<1>7. QED
  BY <1>1, <1>2, <1>4, <1>5, <1>6

(***************************************************************************)
(* The changes "pairs" (what is done to which thing) all with the value v; *)
(* the events about errors and the counter of requeues do not matter.      *)
(***************************************************************************)
Matters(dos, x) == dos \subseteq MemDo \cup {"save", "param", "tell"} /\ (x \in Flags \/ "tell" \notin dos)
Says(s, pairs, v) ==
  /\ s \in Seq(Changes) /\ Plain(s)
  /\ \A dos, x : Matters(dos, x) => (Touches(s, dos, {x}) <=> \E do \in dos : <<do, x>> \in pairs)
  /\ \A dos, x, w : Matters(dos, x) => (Leaves(s, dos, {x}, x, w) <=> w = v /\ \E do \in dos : <<do, x>> \in pairs)
  /\ \A xs, x, w : Leaves(s, {"save"}, xs, x, w) => w = v /\ <<"save", x>> \in pairs

LEMMA SaysOf ==
  /\ \A s, pairs, v : Says(s, pairs, v) => \A dos, x : Matters(dos, x) =>
       (Touches(s, dos, {x}) <=> \E do \in dos : <<do, x>> \in pairs)
  /\ \A s, pairs, v : Says(s, pairs, v) => \A dos, x, w : Matters(dos, x) =>
       (Leaves(s, dos, {x}, x, w) <=> w = v /\ \E do \in dos : <<do, x>> \in pairs)
BY DEF Says

LEMMA SaysJoined ==
  ASSUME NEW a, NEW b, NEW E, NEW G, NEW v, Says(a, E, v), Says(b, G, v)
  PROVE  Says(a \o b, E \cup G, v)
<1>1. a \in Seq(Changes) /\ b \in Seq(Changes)
  BY DEF Says
<1> DEFINE s == a \o b
<1>2. /\ s \in Seq(Changes)
      /\ Plain(s) <=> Plain(a) /\ Plain(b)
      /\ \A dos, xs : Touches(s, dos, xs) <=> Touches(a, dos, xs) \/ Touches(b, dos, xs)
      /\ \A dos, xs, x, w : Leaves(s, dos, xs, x, w)
           <=> Leaves(b, dos, xs, x, w) \/ (~Touches(b, dos, xs) /\ Leaves(a, dos, xs, x, w))
  BY <1>1, Joined
<1> HIDE DEF s
<1>3. ASSUME NEW dos, NEW x, Matters(dos, x)
      PROVE  Touches(s, dos, {x}) <=> \E do \in dos : <<do, x>> \in E \cup G
  BY <1>2, <1>3 DEF Says
<1>4. ASSUME NEW dos, NEW x, NEW w, Matters(dos, x)
      PROVE  Leaves(s, dos, {x}, x, w) <=> w = v /\ \E do \in dos : <<do, x>> \in E \cup G
  <2>1. Leaves(s, dos, {x}, x, w)
          <=> Leaves(b, dos, {x}, x, w) \/ (~Touches(b, dos, {x}) /\ Leaves(a, dos, {x}, x, w))
    BY <1>2
  <2>2. /\ Leaves(a, dos, {x}, x, w) <=> w = v /\ \E do \in dos : <<do, x>> \in E
        /\ Leaves(b, dos, {x}, x, w) <=> w = v /\ \E do \in dos : <<do, x>> \in G
        /\ Touches(b, dos, {x}) <=> \E do \in dos : <<do, x>> \in G
    BY <1>4 DEF Says
  <2>3. QED
    BY <2>1, <2>2
<1>5. ASSUME NEW xs, NEW x, NEW w, Leaves(s, {"save"}, xs, x, w)
      PROVE  w = v /\ <<"save", x>> \in E \cup G
  BY <1>2, <1>5 DEF Says
<1>6. QED
  BY <1>2, <1>3, <1>4, <1>5 DEF Says, s

LEMMA SaysOne ==
  ASSUME NEW s, NEW do, NEW x, NEW v, Does(s, do, x, v)
  PROVE  Says(s, {<<do, x>>}, v)
<1>1. \A dos, y : Touches(s, dos, {y}) <=> \E d \in dos : <<d, y>> \in {<<do, x>>}
  BY DEF Does
<1>2. \A dos, y, w : Leaves(s, dos, {y}, y, w) <=> w = v /\ \E d \in dos : <<d, y>> \in {<<do, x>>}
  BY DEF Does
<1>3. \A xs, y, w : Leaves(s, {"save"}, xs, y, w) => w = v /\ <<"save", y>> \in {<<do, x>>}
  BY DEF Does
<1>4. QED
  BY <1>1, <1>2, <1>3 DEF Says, Does

LEMMA SaysNothing ==
  ASSUME NEW v
  PROVE  /\ Says(Resends(0), {}, v)
         /\ \A k \in Keys, w \in Values : Says(Tell(k, w), {}, v)
<1>1. Says(Resends(0), {}, v)
  BY ResendsChange DEF Says, Matters
<1>2. ASSUME NEW k \in Keys, NEW w \in Values PROVE Says(Tell(k, w), {}, v)
  <2>1. Does(Tell(k, w), "tell", k, w) /\ k \notin Flags
    BY ErrorChanges, ThingRows
  <2>2. \A dos, x : Matters(dos, x) => ~Touches(Tell(k, w), dos, {x})
    BY <2>1 DEF Does, Matters
  <2>3. \A dos, x, u : Matters(dos, x) => ~Leaves(Tell(k, w), dos, {x}, x, u)
    BY <2>1 DEF Does, Matters
  <2>4. \A xs, x, u : ~Leaves(Tell(k, w), {"save"}, xs, x, u)
    BY <2>1 DEF Does
  <2>5. Tell(k, w) \in Seq(Changes) /\ Plain(Tell(k, w))
    BY <2>1 DEF Does
  <2>6. QED
    BY <2>2, <2>3, <2>4, <2>5 DEF Says
<1>3. QED
  BY <1>1, <1>2

(* Memory and rows change together, and parameters and events with them.   *)
InMem(pairs, x) == \E do \in MemDo : <<do, x>> \in pairs
Together(pairs, v) ==
  /\ \A x \in Things : InMem(pairs, x) => <<"save", x>> \in pairs
  /\ \A x \in Things : <<"save", x>> \in pairs => InMem(pairs, x) \/ (x = StickyUnreach /\ v = 0)
  /\ \A f \in Flags, do \in {"param", "tell"} :
       IF InMem(pairs, f) THEN <<do, f>> \in pairs ELSE <<do, f>> \in pairs => flag[f] = v

LEMMA TogetherCoherent ==
  ASSUME NEW s, NEW pairs, NEW v, Says(s, pairs, v), Together(pairs, v)
  PROVE  Coherent(s)
<1>1. \A x : Matters(MemDo, x) /\ Matters({"save"}, x)
  BY DEF Matters, MemDo
<1>2. \A f \in Flags : Matters({"param"}, f) /\ Matters({"tell"}, f)
  BY DEF Matters
<1>3. /\ \A x : Touches(s, MemDo, {x}) <=> InMem(pairs, x)
      /\ \A x, w : Leaves(s, MemDo, {x}, x, w) <=> w = v /\ InMem(pairs, x)
  BY <1>1 DEF Says, InMem
<1>4. /\ \A x : Touches(s, {"save"}, {x}) <=> <<"save", x>> \in pairs
      /\ \A x, w : Leaves(s, {"save"}, {x}, x, w) <=> w = v /\ <<"save", x>> \in pairs
  BY <1>1 DEF Says
<1>5. ASSUME NEW f \in Flags, NEW do \in {"param", "tell"}
      PROVE  /\ Touches(s, {do}, {f}) <=> <<do, f>> \in pairs
             /\ \A w : Leaves(s, {do}, {f}, f, w) <=> w = v /\ <<do, f>> \in pairs
  <2>1. Matters({do}, f)
    BY <1>2
  <2>2. PICK dos : dos = {do}
    OBVIOUS
  <2>3. Matters(dos, f)
    BY <2>1, <2>2
  <2>4. Touches(s, dos, {f}) <=> \E d \in dos : <<d, f>> \in pairs
    BY <2>3, SaysOf
  <2>5. ASSUME NEW w PROVE Leaves(s, dos, {f}, f, w) <=> w = v /\ \E d \in dos : <<d, f>> \in pairs
    BY <2>3, SaysOf
  <2>6. QED
    BY <2>2, <2>4, <2>5
<1>6. Saves(s)
  <2>1. \A x \in Things, w \in Values \ {0} : Leaves(s, {"save"}, Sharing(x), x, w) => Leaves(s, MemDo, {x}, x, w)
    <3>1. ASSUME NEW x \in Things, NEW w \in Values \ {0}, Leaves(s, {"save"}, Sharing(x), x, w)
          PROVE  Leaves(s, MemDo, {x}, x, w)
      <4>1. w = v /\ <<"save", x>> \in pairs
        BY <3>1 DEF Says
      <4>2. InMem(pairs, x)
        BY <4>1 DEF Together
      <4>3. QED
        BY <1>3, <4>1, <4>2
    <3>2. QED
      BY <3>1
  <2>2. \A x \in Things, w \in Values \ {0} : Leaves(s, MemDo, {x}, x, w) => Leaves(s, {"save"}, {x}, x, w)
    <3>1. \A x \in Things : InMem(pairs, x) => <<"save", x>> \in pairs
      BY DEF Together
    <3>2. ASSUME NEW x \in Things, NEW w, Leaves(s, MemDo, {x}, x, w) PROVE Leaves(s, {"save"}, {x}, x, w)
      <4>1. w = v /\ <<"save", x>> \in pairs
        BY <1>3, <3>1, <3>2
      <4>2. QED
        BY <1>4, <4>1
    <3>3. QED
      BY <3>2
  <2>3. \A x \in Things : Touches(s, MemDo, {x}) => Touches(s, {"save"}, {x})
    BY <1>3, <1>4 DEF Together
  <2>4. \A x \in Things \ {StickyUnreach} : Touches(s, {"save"}, {x}) => Touches(s, MemDo, {x})
    BY <1>3, <1>4 DEF Together
  <2>5. QED
    BY <2>1, <2>2, <2>3, <2>4 DEF Saves
<1>7. ASSUME NEW do \in {"param", "tell"} PROVE Tells(s, do)
  <2>1. ASSUME NEW f \in Flags
        PROVE  /\ \A w \in {0, 1} : Leaves(s, MemDo, {f}, f, w) => Leaves(s, {do}, {f}, f, w)
               /\ ~Touches(s, MemDo, {f}) => ~Touches(s, {do}, {f}) \/ Leaves(s, {do}, {f}, f, flag[f])
    <3>1. CASE InMem(pairs, f)
      BY <1>3, <1>5, <3>1 DEF Together
    <3>2. CASE ~InMem(pairs, f)
      BY <1>3, <1>5, <3>2 DEF Together
    <3>3. QED
      BY <3>1, <3>2
  <2>2. QED
    BY <2>1 DEF Tells
<1>8. QED
  BY <1>6, <1>7 DEF Coherent, Says

(* One flag, its row, parameter and event.                                 *)
LEMMA OneFlag ==
  ASSUME NEW f \in Flags, NEW v \in {0, 1}
  PROVE  LET does == {<<"flag", f>>} \cup {<<"save", f>>}
         IN /\ Says(Flag(f, v) \o Save(f, v), does, v)
            /\ Coherent(Flag(f, v) \o Save(f, v) \o Param(f, v) \o Tell(f, v))
            /\ Coherent(Flag(f, v) \o Resends(0) \o Save(f, v) \o Param(f, v) \o Tell(f, v))
            /\ flag[f] = v => Coherent(<<>> \o Param(f, v) \o Tell(f, v))
<1> DEFINE E == {<<"flag", f>>}
           G == E \cup {<<"save", f>>}
           H == G \cup {<<"param", f>>}
           J == H \cup {<<"tell", f>>}
<1>1. /\ Says(Flag(f, v), {<<"flag", f>>}, v) /\ Says(Save(f, v), {<<"save", f>>}, v)
      /\ Says(Param(f, v), {<<"param", f>>}, v) /\ Says(Tell(f, v), {<<"tell", f>>}, v)
  BY FlagChanges, SaysOne
<1>2. Says(Flag(f, v) \o Save(f, v), G, v)
  BY <1>1, SaysJoined
<1>3. Says(Flag(f, v) \o Save(f, v) \o Param(f, v), H, v)
  BY <1>1, <1>2, SaysJoined
<1>4. Says(Flag(f, v) \o Save(f, v) \o Param(f, v) \o Tell(f, v), J, v)
  BY <1>1, <1>3, SaysJoined
<1>5. Says(Flag(f, v) \o Resends(0), E \cup {}, v)
  BY <1>1, SaysNothing, SaysJoined
<1>6. E \cup {} = E
  OBVIOUS
<1>7. Says(Flag(f, v) \o Resends(0) \o Save(f, v), G, v)
  BY <1>1, <1>5, <1>6, SaysJoined
<1>8. Says(Flag(f, v) \o Resends(0) \o Save(f, v) \o Param(f, v), H, v)
  BY <1>1, <1>7, SaysJoined
<1>9. Says(Flag(f, v) \o Resends(0) \o Save(f, v) \o Param(f, v) \o Tell(f, v), J, v)
  BY <1>1, <1>8, SaysJoined
<1>10. Together(J, v)
  <2>1. J = {<<"flag", f>>, <<"save", f>>, <<"param", f>>, <<"tell", f>>}
    OBVIOUS
  <2> HIDE DEF E, G, H, J
  <2>2. \A x : InMem(J, x) <=> x = f
    BY <2>1 DEF InMem, MemDo
  <2>3. \A x : <<"save", x>> \in J <=> x = f
    BY <2>1
  <2>4. \A do, x : do \in {"param", "tell"} => (<<do, x>> \in J <=> x = f)
    BY <2>1
  <2>5. QED
    BY <2>2, <2>3, <2>4 DEF Together
<1>11. flag[f] = v => Coherent(<<>> \o Param(f, v) \o Tell(f, v))
  <2>1. ASSUME flag[f] = v PROVE Coherent(<<>> \o Param(f, v) \o Tell(f, v))
    <3> DEFINE K == {<<"param", f>>} \cup {<<"tell", f>>}
    <3>1. <<>> \o Param(f, v) = Param(f, v)
      BY DEF Param
    <3>2. Says(<<>> \o Param(f, v) \o Tell(f, v), K, v)
      BY <1>1, <3>1, SaysJoined
    <3>3. K = {<<"param", f>>, <<"tell", f>>}
      OBVIOUS
    <3> HIDE DEF K
    <3>4. \A x : ~InMem(K, x)
      BY <3>3 DEF InMem, MemDo
    <3>5. \A x : <<"save", x>> \notin K
      BY <3>3
    <3>6. \A do, x : <<do, x>> \in K => x = f
      BY <3>3
    <3>7. Together(K, v)
      BY <2>1, <3>4, <3>5, <3>6 DEF Together
    <3>8. QED
      BY <3>2, <3>7, TogetherCoherent
  <2>2. QED
    BY <2>1
<1>12. QED
  BY <1>2, <1>4, <1>9, <1>10, <1>11, TogetherCoherent

(* UNREACH and STICKY_UNREACH, in the orders of checkUnreach() and         *)
(* setUnreach().                                                           *)
LEMMA Declared ==
  ASSUME NEW u \in Flags, NEW s \in Flags
  PROVE  Coherent(Declare(u, s))
<1>1. /\ Says(Flag(u, 1), {<<"flag", u>>}, 1) /\ Says(Save(u, 1), {<<"save", u>>}, 1)
      /\ Says(Param(u, 1), {<<"param", u>>}, 1) /\ Says(Tell(u, 1), {<<"tell", u>>}, 1)
  BY FlagChanges, SaysOne
<1>2. /\ Says(Flag(s, 1), {<<"flag", s>>}, 1) /\ Says(Save(s, 1), {<<"save", s>>}, 1)
      /\ Says(Param(s, 1), {<<"param", s>>}, 1) /\ Says(Tell(s, 1), {<<"tell", s>>}, 1)
  BY FlagChanges, SaysOne
<1> DEFINE A == {<<"flag", u>>} \cup {<<"flag", s>>}
           B == A \cup {<<"save", u>>}
           C == B \cup {<<"save", s>>}
           D == C \cup {<<"param", u>>}
           E == D \cup {<<"param", s>>}
           F == E \cup {<<"tell", u>>}
           G == F \cup {<<"tell", s>>}
<1>3. Says(Flag(u, 1) \o Flag(s, 1), A, 1)
  BY <1>1, <1>2, SaysJoined
<1>4. Says(Flag(u, 1) \o Flag(s, 1) \o Save(u, 1), B, 1)
  BY <1>1, <1>3, SaysJoined
<1>5. Says(Flag(u, 1) \o Flag(s, 1) \o Save(u, 1) \o Save(s, 1), C, 1)
  BY <1>2, <1>4, SaysJoined
<1>6. Says(Flag(u, 1) \o Flag(s, 1) \o Save(u, 1) \o Save(s, 1) \o Param(u, 1), D, 1)
  BY <1>1, <1>5, SaysJoined
<1>7. Says(Flag(u, 1) \o Flag(s, 1) \o Save(u, 1) \o Save(s, 1) \o Param(u, 1) \o Param(s, 1), E, 1)
  BY <1>2, <1>6, SaysJoined
<1>8. Says(Flag(u, 1) \o Flag(s, 1) \o Save(u, 1) \o Save(s, 1) \o Param(u, 1) \o Param(s, 1) \o Tell(u, 1), F, 1)
  BY <1>1, <1>7, SaysJoined
<1>9. Says(Declare(u, s), G, 1)
  BY <1>2, <1>8, SaysJoined DEF Declare
<1>10. G = {<<"flag", u>>, <<"flag", s>>, <<"save", u>>, <<"save", s>>,
            <<"param", u>>, <<"param", s>>, <<"tell", u>>, <<"tell", s>>}
  OBVIOUS
<1> HIDE DEF A, B, C, D, E, F, G
<1>11. Together(G, 1)
  <2>1. \A x : InMem(G, x) <=> x \in {u, s}
    BY <1>10 DEF InMem, MemDo
  <2>2. \A x : <<"save", x>> \in G <=> x \in {u, s}
    BY <1>10
  <2>3. \A x : (<<"param", x>> \in G <=> x \in {u, s}) /\ (<<"tell", x>> \in G <=> x \in {u, s})
    BY <1>10
  <2>4. QED
    BY <2>1, <2>2, <2>3 DEF Together
<1>12. QED
  BY <1>9, <1>11, TogetherCoherent

LEMMA UnreachSet ==
  ASSUME NEW u \in Flags, NEW s \in Flags
  PROVE  Coherent(Resends(0) \o Flag(u, 1) \o Save(u, 1) \o Save(s, 1) \o Param(u, 1)
                    \o ((Flag(s, 1) \o Save(s, 1) \o Param(s, 1)) \o Tell(u, 1) \o Tell(s, 1)))
<1>1. /\ Says(Flag(u, 1), {<<"flag", u>>}, 1) /\ Says(Save(u, 1), {<<"save", u>>}, 1)
      /\ Says(Param(u, 1), {<<"param", u>>}, 1) /\ Says(Tell(u, 1), {<<"tell", u>>}, 1)
      /\ Says(Resends(0), {}, 1)
  BY FlagChanges, SaysOne, SaysNothing
<1>2. /\ Says(Flag(s, 1), {<<"flag", s>>}, 1) /\ Says(Save(s, 1), {<<"save", s>>}, 1)
      /\ Says(Param(s, 1), {<<"param", s>>}, 1) /\ Says(Tell(s, 1), {<<"tell", s>>}, 1)
  BY FlagChanges, SaysOne
<1> DEFINE A == {} \cup {<<"flag", u>>}
           B == A \cup {<<"save", u>>}
           C == B \cup {<<"save", s>>}
           D == C \cup {<<"param", u>>}
           E == {<<"flag", s>>} \cup {<<"save", s>>}
           F == E \cup {<<"param", s>>}
           G == F \cup {<<"tell", u>>}
           H == G \cup {<<"tell", s>>}
           J == D \cup H
<1>3. Says(Resends(0) \o Flag(u, 1), A, 1)
  BY <1>1, SaysJoined
<1>4. Says(Resends(0) \o Flag(u, 1) \o Save(u, 1), B, 1)
  BY <1>1, <1>3, SaysJoined
<1>5. Says(Resends(0) \o Flag(u, 1) \o Save(u, 1) \o Save(s, 1), C, 1)
  BY <1>2, <1>4, SaysJoined
<1>6. Says(Resends(0) \o Flag(u, 1) \o Save(u, 1) \o Save(s, 1) \o Param(u, 1), D, 1)
  BY <1>1, <1>5, SaysJoined
<1>7. Says(Flag(s, 1) \o Save(s, 1), E, 1)
  BY <1>2, SaysJoined
<1>8. Says(Flag(s, 1) \o Save(s, 1) \o Param(s, 1), F, 1)
  BY <1>2, <1>7, SaysJoined
<1>9. Says((Flag(s, 1) \o Save(s, 1) \o Param(s, 1)) \o Tell(u, 1), G, 1)
  BY <1>1, <1>8, SaysJoined
<1>10. Says((Flag(s, 1) \o Save(s, 1) \o Param(s, 1)) \o Tell(u, 1) \o Tell(s, 1), H, 1)
  BY <1>2, <1>9, SaysJoined
<1>11. Says(Resends(0) \o Flag(u, 1) \o Save(u, 1) \o Save(s, 1) \o Param(u, 1)
              \o ((Flag(s, 1) \o Save(s, 1) \o Param(s, 1)) \o Tell(u, 1) \o Tell(s, 1)), J, 1)
  BY <1>6, <1>10, SaysJoined
<1>12. J = {<<"flag", u>>, <<"flag", s>>, <<"save", u>>, <<"save", s>>,
            <<"param", u>>, <<"param", s>>, <<"tell", u>>, <<"tell", s>>}
  OBVIOUS
<1> HIDE DEF A, B, C, D, E, F, G, H, J
<1>13. Together(J, 1)
  <2>1. \A x : InMem(J, x) <=> x \in {u, s}
    BY <1>12 DEF InMem, MemDo
  <2>2. \A x : <<"save", x>> \in J <=> x \in {u, s}
    BY <1>12
  <2>3. \A x : (<<"param", x>> \in J <=> x \in {u, s}) /\ (<<"tell", x>> \in J <=> x \in {u, s})
    BY <1>12
  <2>4. QED
    BY <2>1, <2>2, <2>3 DEF Together
<1>14. QED
  BY <1>11, <1>13, TogetherCoherent

(* The row of STICKY_UNREACH is reset alone.                               *)
LEMMA UnreachReset ==
  ASSUME NEW u \in Flags
  PROVE  Coherent(Resends(0) \o Flag(u, 0) \o Save(u, 0) \o Save(StickyUnreach, 0) \o Param(u, 0) \o Tell(u, 0))
<1> DEFINE s == StickyUnreach
<1>1. /\ Says(Flag(u, 0), {<<"flag", u>>}, 0) /\ Says(Save(u, 0), {<<"save", u>>}, 0)
      /\ Says(Param(u, 0), {<<"param", u>>}, 0) /\ Says(Tell(u, 0), {<<"tell", u>>}, 0)
      /\ Says(Resends(0), {}, 0)
  BY FlagChanges, SaysOne, SaysNothing
<1>2. Says(Save(s, 0), {<<"save", s>>}, 0)
  BY FlagChanges, SaysOne DEF Flags
<1> DEFINE A == {} \cup {<<"flag", u>>}
           B == A \cup {<<"save", u>>}
           C == B \cup {<<"save", s>>}
           D == C \cup {<<"param", u>>}
           E == D \cup {<<"tell", u>>}
<1>3. Says(Resends(0) \o Flag(u, 0), A, 0)
  BY <1>1, SaysJoined
<1>4. Says(Resends(0) \o Flag(u, 0) \o Save(u, 0), B, 0)
  BY <1>1, <1>3, SaysJoined
<1>5. Says(Resends(0) \o Flag(u, 0) \o Save(u, 0) \o Save(s, 0), C, 0)
  BY <1>2, <1>4, SaysJoined
<1>6. Says(Resends(0) \o Flag(u, 0) \o Save(u, 0) \o Save(s, 0) \o Param(u, 0), D, 0)
  BY <1>1, <1>5, SaysJoined
<1>7. Says(Resends(0) \o Flag(u, 0) \o Save(u, 0) \o Save(s, 0) \o Param(u, 0) \o Tell(u, 0), E, 0)
  BY <1>1, <1>6, SaysJoined
<1>8. E = {<<"flag", u>>, <<"save", u>>, <<"save", s>>, <<"param", u>>, <<"tell", u>>}
  OBVIOUS
<1> HIDE DEF A, B, C, D, E
<1>9. Together(E, 0)
  <2>1. \A x : InMem(E, x) <=> x = u
    BY <1>8 DEF InMem, MemDo
  <2>2. \A x : <<"save", x>> \in E <=> x \in {u, s}
    BY <1>8
  <2>3. \A x : (<<"param", x>> \in E <=> x = u) /\ (<<"tell", x>> \in E <=> x = u)
    BY <1>8
  <2>4. QED
    BY <2>1, <2>2, <2>3 DEF Together
<1>10. QED
  BY <1>7, <1>9, TogetherCoherent

(* An error of one channel.                                                *)
LEMMA OneError ==
  ASSUME NEW k \in Keys, NEW v \in Values
  PROVE  /\ Coherent(Error(k, v) \o Save(k, v))
         /\ Coherent(Error(k, v) \o Save(k, v) \o Tell(k, 0))
         /\ Coherent(Erase(k) \o Save(k, 0))
         /\ Says(Erase(k) \o Save(k, 0) \o Tell(k, 0), {<<"erase", k>>, <<"save", k>>}, 0)
<1> DEFINE A == {<<"error", k>>} \cup {<<"save", k>>}
           B == {<<"erase", k>>} \cup {<<"save", k>>}
<1>1. 0 \in Values
  BY ServiceMessagesAssumption DEF Values
<1>2. /\ Says(Error(k, v), {<<"error", k>>}, v) /\ Says(Save(k, v), {<<"save", k>>}, v)
      /\ Says(Erase(k), {<<"erase", k>>}, 0) /\ Says(Save(k, 0), {<<"save", k>>}, 0)
      /\ Says(Tell(k, 0), {}, v) /\ Says(Tell(k, 0), {}, 0)
  BY <1>1, ErrorChanges, SaysOne, SaysNothing
<1>3. Says(Error(k, v) \o Save(k, v), A, v) /\ Says(Erase(k) \o Save(k, 0), B, 0)
  BY <1>2, SaysJoined
<1>4. Says(Error(k, v) \o Save(k, v) \o Tell(k, 0), A \cup {}, v) /\ Says(Erase(k) \o Save(k, 0) \o Tell(k, 0), B \cup {}, 0)
  BY <1>2, <1>3, SaysJoined
<1>5. A \cup {} = A /\ B \cup {} = B /\ A = {<<"error", k>>, <<"save", k>>} /\ B = {<<"erase", k>>, <<"save", k>>}
  OBVIOUS
<1> HIDE DEF A, B
<1>6. Together(A, v) /\ Together(B, 0)
  <2>1. \A x : (InMem(A, x) <=> x = k) /\ (InMem(B, x) <=> x = k)
    BY <1>5 DEF InMem, MemDo
  <2>2. \A x : (<<"save", x>> \in A <=> x = k) /\ (<<"save", x>> \in B <=> x = k)
    BY <1>5
  <2>3. \A do, x : do \in {"param", "tell"} => <<do, x>> \notin A /\ <<do, x>> \notin B
    BY <1>5
  <2>4. k \notin Flags
    BY ThingRows
  <2>5. QED
    BY <2>1, <2>2, <2>3, <2>4 DEF Together
<1>7. QED
  BY <1>3, <1>4, <1>5, <1>6, TogetherCoherent

-----------------------------------------------------------------------------
(* An error that is reset on every channel.                                *)

LEMMA ByChannelSeq ==
  ASSUME NEW keys \in SUBSET Keys, NEW r \in ByChannel(keys)
  PROVE  /\ r \in Seq(Keys) /\ Len(r) \in Nat /\ DOMAIN r = 1 .. Len(r)
         /\ \A k : k \in keys <=> \E j \in 1 .. Len(r) : r[j] = k
         /\ \A j, m \in 1 .. Len(r) : r[j] = r[m] => j = m
<1>1. Cardinality(keys) \in Nat
  BY FS_Subset, FS_CardinalityType, ServiceMessagesAssumption
<1>2. /\ r \in [1 .. Cardinality(keys) -> keys] /\ Range(r) = keys
      /\ \A i, j \in DOMAIN r : i < j => r[i][1] < r[j][1]
  BY DEF ByChannel
<1>3. r \in Seq(Keys) /\ Len(r) = Cardinality(keys) /\ DOMAIN r = 1 .. Len(r)
  BY <1>1, <1>2
<1>4. \A k : k \in keys <=> \E j \in 1 .. Len(r) : r[j] = k
  BY <1>2, <1>3 DEF Range
<1>5. ASSUME NEW j \in 1 .. Len(r), NEW m \in 1 .. Len(r), r[j] = r[m], j # m PROVE FALSE
  <2>1. r[j] \in Keys /\ r[j][1] \in Nat
    BY <1>3, ServiceMessagesAssumption
  <2>2. j < m \/ m < j
    BY <1>1, <1>3, <1>5
  <2>3. QED
    BY <1>2, <1>3, <1>5, <2>1, <2>2
<1>6. QED
  BY <1>1, <1>3, <1>4, <1>5

(* The places of the changes of one key.                                   *)
LEMMA ResetPlaces ==
  ASSUME NEW r \in Seq(Keys), Len(r) \in Nat
  PROVE  /\ DOMAIN ResetAll(r) = 1 .. 3 * Len(r) /\ ResetAll(r) \in Seq(Changes)
         /\ \A i \in 1 .. 3 * Len(r) :
              LET c == ResetAll(r)[i]
              IN \E j \in 1 .. Len(r) :
                   /\ c.of = r[j] /\ c.value = 0
                   /\ \/ i = 3 * j - 2 /\ c.do = "error"
                      \/ i = 3 * j - 1 /\ c.do = "save"
                      \/ i = 3 * j /\ c.do = "tell"
         /\ \A j \in 1 .. Len(r) :
              /\ 3 * j - 2 \in 1 .. 3 * Len(r) /\ ResetAll(r)[3 * j - 2] = [do |-> "error", of |-> r[j], value |-> 0]
              /\ 3 * j - 1 \in 1 .. 3 * Len(r) /\ ResetAll(r)[3 * j - 1] = [do |-> "save", of |-> r[j], value |-> 0]
<1> DEFINE q == ResetAll(r)
           At(i) == [do |-> <<"error", "save", "tell">>[((i - 1) % 3) + 1], of |-> r[(i + 2) \div 3], value |-> 0]
<1>1. DOMAIN q = 1 .. 3 * Len(r) /\ \A i \in 1 .. 3 * Len(r) : q[i] = At(i)
  BY DEF ResetAll
<1> HIDE DEF q
<1>2. ASSUME NEW i \in 1 .. 3 * Len(r)
      PROVE  \E j \in 1 .. Len(r) :
               \/ i = 3 * j - 2 /\ (i - 1) % 3 = 0 /\ (i + 2) \div 3 = j
               \/ i = 3 * j - 1 /\ (i - 1) % 3 = 1 /\ (i + 2) \div 3 = j
               \/ i = 3 * j /\ (i - 1) % 3 = 2 /\ (i + 2) \div 3 = j
  <2>1. PICK j \in Int : j = (i + 2) \div 3
    OBVIOUS
  <2>2. j \in 1 .. Len(r) /\ (i = 3 * j - 2 \/ i = 3 * j - 1 \/ i = 3 * j)
    BY <2>1
  <2>3. /\ i = 3 * j - 2 => (i - 1) % 3 = 0
        /\ i = 3 * j - 1 => (i - 1) % 3 = 1
        /\ i = 3 * j => (i - 1) % 3 = 2
    BY <2>2
  <2>4. QED
    BY <2>1, <2>2, <2>3
<1>3. /\ <<"error", "save", "tell">>[1] = "error" /\ <<"error", "save", "tell">>[2] = "save"
      /\ <<"error", "save", "tell">>[3] = "tell"
  OBVIOUS
<1>4. ASSUME NEW i \in 1 .. 3 * Len(r)
      PROVE  \E j \in 1 .. Len(r) :
               \/ i = 3 * j - 2 /\ q[i] = [do |-> "error", of |-> r[j], value |-> 0]
               \/ i = 3 * j - 1 /\ q[i] = [do |-> "save", of |-> r[j], value |-> 0]
               \/ i = 3 * j /\ q[i] = [do |-> "tell", of |-> r[j], value |-> 0]
  <2>1. PICK j \in 1 .. Len(r) :
               \/ i = 3 * j - 2 /\ (i - 1) % 3 = 0 /\ (i + 2) \div 3 = j
               \/ i = 3 * j - 1 /\ (i - 1) % 3 = 1 /\ (i + 2) \div 3 = j
               \/ i = 3 * j /\ (i - 1) % 3 = 2 /\ (i + 2) \div 3 = j
    BY <1>2
  <2>2. PICK p, h : p = (i - 1) % 3 /\ h = (i + 2) \div 3
    OBVIOUS
  <2>3. q[i] = [do |-> <<"error", "save", "tell">>[p + 1], of |-> r[h], value |-> 0]
    BY <1>1, <2>2
  <2>4. h = j /\ ((i = 3 * j - 2 /\ p = 0) \/ (i = 3 * j - 1 /\ p = 1) \/ (i = 3 * j /\ p = 2))
    BY <2>1, <2>2
  <2>5. CASE i = 3 * j - 2 /\ p = 0
    <3>1. p + 1 = 1
      BY <2>5
    <3>2. QED
      BY <1>3, <2>3, <2>4, <2>5, <3>1
  <2>6. CASE i = 3 * j - 1 /\ p = 1
    <3>1. p + 1 = 2
      BY <2>6
    <3>2. QED
      BY <1>3, <2>3, <2>4, <2>6, <3>1
  <2>7. CASE i = 3 * j /\ p = 2
    <3>1. p + 1 = 3
      BY <2>7
    <3>2. QED
      BY <1>3, <2>3, <2>4, <2>7, <3>1
  <2>8. QED
    BY <2>4, <2>5, <2>6, <2>7
<1>5. ASSUME NEW i \in 1 .. 3 * Len(r)
      PROVE  /\ q[i] \in Changes
             /\ \E j \in 1 .. Len(r) :
                  /\ q[i].of = r[j] /\ q[i].value = 0
                  /\ \/ i = 3 * j - 2 /\ q[i].do = "error"
                     \/ i = 3 * j - 1 /\ q[i].do = "save"
                     \/ i = 3 * j /\ q[i].do = "tell"
  <2>1. PICK j \in 1 .. Len(r), do \in {"error", "save", "tell"} :
          /\ q[i] = [do |-> do, of |-> r[j], value |-> 0]
          /\ (i = 3 * j - 2 /\ do = "error") \/ (i = 3 * j - 1 /\ do = "save") \/ (i = 3 * j /\ do = "tell")
    BY <1>4
  <2>2. q[i].of = r[j] /\ q[i].value = 0 /\ q[i].do = do
    BY <2>1
  <2>3. [do |-> do, of |-> r[j], value |-> 0] \in Changes
    BY ServiceMessagesAssumption DEF Changes, Values
  <2>4. QED
    BY <2>1, <2>2, <2>3
<1>6. ASSUME NEW j \in 1 .. Len(r)
      PROVE  /\ 3 * j - 2 \in 1 .. 3 * Len(r) /\ q[3 * j - 2] = [do |-> "error", of |-> r[j], value |-> 0]
             /\ 3 * j - 1 \in 1 .. 3 * Len(r) /\ q[3 * j - 1] = [do |-> "save", of |-> r[j], value |-> 0]
  <2>1. 3 * j - 2 \in 1 .. 3 * Len(r) /\ 3 * j - 1 \in 1 .. 3 * Len(r)
    OBVIOUS
  <2>2. \A m \in 1 .. Len(r) : /\ 3 * j - 2 = 3 * m - 2 => m = j
                               /\ 3 * j - 1 = 3 * m - 1 => m = j
                               /\ 3 * j - 2 # 3 * m - 1 /\ 3 * j - 2 # 3 * m
                               /\ 3 * j - 1 # 3 * m - 2 /\ 3 * j - 1 # 3 * m
    OBVIOUS
  <2>3. q[3 * j - 2] = [do |-> "error", of |-> r[j], value |-> 0]
    BY <1>4, <2>1, <2>2
  <2>4. q[3 * j - 1] = [do |-> "save", of |-> r[j], value |-> 0]
    BY <1>4, <2>1, <2>2
  <2>5. QED
    BY <2>1, <2>3, <2>4
<1>7. q \in Seq(Changes)
  <2>1. q \in [1 .. 3 * Len(r) -> Changes]
    BY <1>1, <1>5 DEF q, ResetAll
  <2>2. 3 * Len(r) \in Nat
    OBVIOUS
  <2>3. QED
    BY <2>1, <2>2
<1>8. QED
  BY <1>1, <1>5, <1>6, <1>7 DEF q

LEMMA ResetSays ==
  ASSUME NEW keys \in SUBSET Keys, NEW r \in ByChannel(keys)
  PROVE  Says(ResetAll(r), {<<do, k>> : do \in {"error", "save"}, k \in keys}, 0)
<1> DEFINE E == {<<do, k>> : do \in {"error", "save"}, k \in keys}
           n == Len(r)
           q == ResetAll(r)
<1>1. /\ r \in Seq(Keys) /\ n \in Nat /\ DOMAIN r = 1 .. n
      /\ \A k : k \in keys <=> \E j \in 1 .. n : r[j] = k
      /\ \A j, m \in 1 .. n : r[j] = r[m] => j = m
  BY ByChannelSeq
<1>2. /\ DOMAIN q = 1 .. 3 * n /\ q \in Seq(Changes)
      /\ \A i \in 1 .. 3 * n : \E j \in 1 .. n :
           /\ q[i].of = r[j] /\ q[i].value = 0
           /\ \/ i = 3 * j - 2 /\ q[i].do = "error"
              \/ i = 3 * j - 1 /\ q[i].do = "save"
              \/ i = 3 * j /\ q[i].do = "tell"
      /\ \A j \in 1 .. n :
           /\ 3 * j - 2 \in 1 .. 3 * n /\ q[3 * j - 2] = [do |-> "error", of |-> r[j], value |-> 0]
           /\ 3 * j - 1 \in 1 .. 3 * n /\ q[3 * j - 1] = [do |-> "save", of |-> r[j], value |-> 0]
  BY <1>1, ResetPlaces
<1>3. \A do, k : <<do, k>> \in E <=> do \in {"error", "save"} /\ k \in keys
  OBVIOUS
<1> HIDE DEF E, n, q
<1>4. Plain(q)
  BY <1>2 DEF Plain
<1>5. \A x \in keys : x \notin Flags
  BY ThingRows
<1>6. ASSUME NEW dos, NEW x, Matters(dos, x), Touches(q, dos, {x})
      PROVE  \E do \in dos : <<do, x>> \in E
  <2>1. PICK i \in 1 .. 3 * n : q[i].do \in dos /\ q[i].of = x
    BY <1>2, <1>6 DEF Touches, Hit
  <2>2. x \in keys
    BY <1>1, <1>2, <2>1
  <2>3. q[i].do \in {"error", "save"}
    BY <1>2, <1>5, <1>6, <2>1, <2>2 DEF Matters
  <2>4. QED
    BY <1>3, <2>1, <2>2, <2>3
(* The last change of a key that matters is at its own place.              *)
<1>7. ASSUME NEW dos, NEW x, Matters(dos, x), \E do \in dos : <<do, x>> \in E
      PROVE  Leaves(q, dos, {x}, x, 0)
  <2>1. x \in keys /\ x \notin Flags /\ "tell" \notin dos /\ ("error" \in dos \/ "save" \in dos)
    BY <1>3, <1>5, <1>7 DEF Matters
  <2>2. PICK j \in 1 .. n : r[j] = x
    BY <1>1, <2>1
  <2>3. ASSUME NEW i \in 1 .. 3 * n, Hit(q[i], dos, {x})
        PROVE  \/ i = 3 * j - 2 /\ q[i].do = "error"
               \/ i = 3 * j - 1 /\ q[i].do = "save"
    <3>1. q[i].do \in dos /\ q[i].of = x
      BY <2>3 DEF Hit
    <3>2. PICK m \in 1 .. n :
           /\ q[i].of = r[m]
           /\ \/ i = 3 * m - 2 /\ q[i].do = "error"
              \/ i = 3 * m - 1 /\ q[i].do = "save"
              \/ i = 3 * m /\ q[i].do = "tell"
      BY <1>2
    <3>3. m = j
      BY <1>1, <2>2, <3>1, <3>2
    <3>4. QED
      BY <2>1, <3>1, <3>2, <3>3
  <2>4. CASE "save" \in dos
    <3>1. PICK p \in 1 .. 3 * n : p = 3 * j - 1 /\ q[p] = [do |-> "save", of |-> x, value |-> 0]
      BY <1>2, <2>2
    <3>2. Hit(q[p], dos, {x}) /\ q[p].of = x /\ q[p].value = 0
      BY <2>4, <3>1 DEF Hit
    <3>3. ASSUME NEW i \in 1 .. 3 * n, i > p PROVE ~Hit(q[i], dos, {x})
      <4>1. ~(i = 3 * j - 2) /\ ~(i = 3 * j - 1)
        BY <1>1, <3>1, <3>3
      <4>2. QED
        BY <2>3, <4>1
    <3>4. QED
      BY <1>2, <3>2, <3>3 DEF Leaves
  <2>5. CASE "save" \notin dos
    <3>1. PICK p \in 1 .. 3 * n : p = 3 * j - 2 /\ q[p] = [do |-> "error", of |-> x, value |-> 0]
      BY <1>2, <2>2
    <3>2. Hit(q[p], dos, {x}) /\ q[p].of = x /\ q[p].value = 0
      BY <2>1, <2>5, <3>1 DEF Hit
    <3>3. ASSUME NEW i \in 1 .. 3 * n, i > p PROVE ~Hit(q[i], dos, {x})
      <4>1. ~(i = 3 * j - 2)
        BY <1>1, <3>1, <3>3
      <4>2. QED
        BY <2>3, <2>5, <4>1 DEF Hit
    <3>4. QED
      BY <1>2, <3>2, <3>3 DEF Leaves
  <2>6. QED
    BY <2>4, <2>5
<1>8. ASSUME NEW dos, NEW xs, NEW x, NEW w, Leaves(q, dos, xs, x, w)
      PROVE  w = 0 /\ \E i \in 1 .. 3 * n : Hit(q[i], dos, xs) /\ q[i].of = x
  <2>1. PICK i \in 1 .. 3 * n : Hit(q[i], dos, xs) /\ q[i].of = x /\ q[i].value = w
    BY <1>2, <1>8 DEF Leaves
  <2>2. QED
    BY <1>2, <2>1
<1>9. \A dos, x : Matters(dos, x) => (Touches(q, dos, {x}) <=> \E do \in dos : <<do, x>> \in E)
  <2>1. \A dos, x : Leaves(q, dos, {x}, x, 0) => Touches(q, dos, {x})
    BY DEF Leaves, Touches
  <2>2. QED
    BY <1>6, <1>7, <2>1
<1>10. ASSUME NEW dos, NEW x, NEW w, Matters(dos, x)
       PROVE  Leaves(q, dos, {x}, x, w) <=> w = 0 /\ \E do \in dos : <<do, x>> \in E
  <2>1. ASSUME Leaves(q, dos, {x}, x, w) PROVE w = 0 /\ \E do \in dos : <<do, x>> \in E
    <3>1. w = 0 /\ Touches(q, dos, {x})
      BY <1>2, <1>8, <2>1 DEF Touches
    <3>2. QED
      BY <1>6, <1>10, <3>1
  <2>2. QED
    BY <1>7, <1>10, <2>1
<1>11. ASSUME NEW xs, NEW x, NEW w, Leaves(q, {"save"}, xs, x, w)
       PROVE  w = 0 /\ <<"save", x>> \in E
  <2>1. w = 0
    BY <1>8, <1>11
  <2>2. PICK i \in 1 .. 3 * n : q[i].of = x
    BY <1>8, <1>11
  <2>3. x \in keys
    BY <1>1, <1>2, <2>2
  <2>4. QED
    BY <1>3, <2>1, <2>3
<1>12. Says(q, E, 0)
  BY <1>2, <1>4, <1>9, <1>10, <1>11 DEF Says
<1>13. QED
  BY <1>12 DEF E, q

LEMMA ResetOnChannels ==
  ASSUME NEW k \in Keys, NEW keys \in SUBSET Keys, NEW r \in ByChannel(keys)
  PROVE  Coherent(Erase(k) \o Save(k, 0) \o Tell(k, 0) \o ResetAll(r))
<1> DEFINE A == {<<"erase", k>>, <<"save", k>>}
           E == {<<do, l>> : do \in {"error", "save"}, l \in keys}
           G == A \cup E
<1>1. Says(Erase(k) \o Save(k, 0) \o Tell(k, 0), A, 0) /\ Says(ResetAll(r), E, 0)
  <2>1. 0 \in Values
    BY ServiceMessagesAssumption DEF Values
  <2>2. QED
    BY <2>1, OneError, ResetSays
<1>2. \A do, x : <<do, x>> \in G <=> (do \in {"erase", "save"} /\ x = k) \/ (do \in {"error", "save"} /\ x \in keys)
  OBVIOUS
<1>3. Says(Erase(k) \o Save(k, 0) \o Tell(k, 0) \o ResetAll(r), G, 0)
  BY <1>1, SaysJoined
<1> HIDE DEF A, E, G
<1>4. \A x : InMem(G, x) <=> x = k \/ x \in keys
  BY <1>2 DEF InMem, MemDo
<1>5. \A x : <<"save", x>> \in G <=> x = k \/ x \in keys
  BY <1>2
<1>6. \A f \in Flags : f # k /\ f \notin keys
  BY ThingRows
<1>7. \A do, x : do \in {"param", "tell"} => <<do, x>> \notin G
  BY <1>2
<1>8. Together(G, 0)
  BY <1>4, <1>5, <1>6, <1>7 DEF Together
<1>9. QED
  BY <1>3, <1>8, TogetherCoherent

-----------------------------------------------------------------------------
(* The calls.                                                              *)

LEMMA Started ==
  ASSUME ServiceInv, NEW s, Start(s), Coherent(s), tries' \in Nat,
         tries' # tries => \E i \in DOMAIN s : s[i].do = "resends"
  PROVE  ServiceInv'
<1>1. /\ todo = <<>> /\ todo' = s
      /\ UNCHANGED <<flag, errors, known, resends, named, rows, params, told, unsaved, unset>>
  BY DEF Start, memory, outside
<1>2. EnqueuedInv'
  <2>1. resends <= tries /\ resends' = resends
    BY <1>1, AtRestEnqueued
  <2>2. \A i \in DOMAIN s : s[i].do # "enqueue" /\ (s[i].do = "resends" => s[i].value <= tries')
    BY DEF Coherent, Plain
  <2>3. QED
    BY <1>1, <2>1, <2>2 DEF EnqueuedInv
<1>3. QED
  BY <1>1, <1>2, CallKeeps DEF Coherent

LEMMA Called ==
  ASSUME ServiceInv, NEW s, Call(s), Coherent(s)
  PROVE  ServiceInv'
<1>1. Start(s) /\ tries' = tries /\ tries \in Nat
  BY DEF Call, ServiceInv, ServiceType
<1>2. QED
  BY <1>1, Started

LEMMA SetKeeps ==
  ASSUME ServiceInv, NEW f \in Flags, NEW v \in {0, 1}, Set(f, v)
  PROVE  ServiceInv'
<1>1. CASE v # flag[f]
  <2>1. Call((Flag(f, v) \o Save(f, v)) \o Param(f, v) \o Tell(f, v))
    BY <1>1 DEF Set
  <2>2. QED
    BY <2>1, OneFlag, Called
<1>2. CASE v = flag[f]
  <2>1. Call(<<>> \o Param(f, v) \o Tell(f, v))
    BY <1>2 DEF Set
  <2>2. QED
    BY <1>2, <2>1, OneFlag, Called
<1>3. QED
  BY <1>1, <1>2

LEMMA SetOnChannel0Keeps ==
  ASSUME ServiceInv, NEW id, NEW v \in {0, 1}, SetOnChannel0(id, v)
  PROVE  ServiceInv'
<1> DEFINE k == <<0, id>>
           others == {l \in DOMAIN errors : l[1] # 0 /\ l[2] = id}
<1>1. k \in Keys /\ others \in SUBSET Keys
  BY DEF SetOnChannel0, ServiceInv, ServiceType
<1>2. \/ v = 0 /\ \E s \in ByChannel(others) : Call(Erase(k) \o Save(k, 0) \o Tell(k, 0) \o ResetAll(s))
      \/ v # 0 /\ Call(Error(k, v) \o Save(k, v) \o Tell(k, 0))
  BY DEF SetOnChannel0
<1> HIDE DEF k, others
<1>3. CASE v = 0 /\ \E s \in ByChannel(others) : Call(Erase(k) \o Save(k, 0) \o Tell(k, 0) \o ResetAll(s))
  <2>1. PICK s \in ByChannel(others) : Call(Erase(k) \o Save(k, 0) \o Tell(k, 0) \o ResetAll(s))
    BY <1>3
  <2>2. Coherent(Erase(k) \o Save(k, 0) \o Tell(k, 0) \o ResetAll(s))
    BY <1>1, ResetOnChannels
  <2>3. QED
    BY <2>1, <2>2, Called
<1>4. CASE v # 0 /\ Call(Error(k, v) \o Save(k, v) \o Tell(k, 0))
  <2>1. v \in Values
    BY ServiceMessagesAssumption DEF Values
  <2>2. QED
    BY <1>1, <1>4, <2>1, OneError, Called
<1>5. QED
  BY <1>2, <1>3, <1>4

LEMMA SetErrorKeeps ==
  ASSUME ServiceInv, NEW k \in Keys, NEW v \in Values, SetError(k, v)
  PROVE  ServiceInv'
<1>1. CASE v = 0
  <2>1. Call(Erase(k) \o Save(k, 0))
    BY <1>1 DEF SetError
  <2>2. QED
    BY <2>1, OneError, Called
<1>2. CASE v # 0
  <2>1. Call(Error(k, v) \o Save(k, v))
    BY <1>2 DEF SetError
  <2>2. QED
    BY <2>1, OneError, Called
<1>3. QED
  BY <1>1, <1>2

LEMMA OneFlagCallsKeep ==
  ASSUME ServiceInv,
         \/ \E v \in {0, 1} : SetConfigPending(v)
         \/ \E aDay \in BOOLEAN : EndUnreach(aDay)
         \/ \E aDay \in BOOLEAN : CheckHeard(aDay)
  PROVE  ServiceInv'
<1>1. Unreach \in Flags /\ ConfigPending \in Flags
  BY DEF Flags
<1>2. ASSUME NEW v \in {0, 1}, SetConfigPending(v) PROVE ServiceInv'
  <2>1. Call(Flag(ConfigPending, v) \o Save(ConfigPending, v) \o Param(ConfigPending, v) \o Tell(ConfigPending, v))
    BY <1>2 DEF SetConfigPending
  <2>2. QED
    BY <1>1, <2>1, OneFlag, Called
<1>3. ASSUME NEW aDay \in BOOLEAN, EndUnreach(aDay) PROVE ServiceInv'
  <2>1. Call(Flag(Unreach, 0) \o Resends(0) \o Save(Unreach, 0) \o Param(Unreach, 0) \o Tell(Unreach, 0))
    BY <1>3 DEF EndUnreach
  <2>2. QED
    BY <1>1, <2>1, OneFlag, Called
<1>4. QED
  BY <1>2, <1>3 DEF CheckHeard

LEMMA CheckSilentKeeps ==
  ASSUME ServiceInv, NEW aDay \in BOOLEAN, CheckSilent(aDay)
  PROVE  ServiceInv'
<1>1. Call(Declare(Unreach, StickyUnreach)) /\ Unreach \in Flags /\ StickyUnreach \in Flags
  BY DEF CheckSilent, Flags
<1>2. QED
  BY <1>1, Declared, Called

LEMMA SetUnreachKeeps ==
  ASSUME ServiceInv, NEW v \in {0, 1}, NEW requeue \in BOOLEAN, SetUnreach(v, requeue)
  PROVE  ServiceInv'
<1> DEFINE u == Unreach
           s == StickyUnreach
           sticky == Flag(s, 1) \o Save(s, 1) \o Param(s, 1)
           first == Resends(0) \o Flag(u, v) \o Save(u, v) \o Save(s, v) \o Param(u, v)
           t == first \o (IF v = 1 THEN sticky \o Tell(u, 1) \o Tell(s, 1) ELSE Tell(u, 0))
<1>1. u \in Flags /\ s \in Flags
  BY DEF Flags
<1>2. tries' = (IF v = 1 THEN 0 ELSE tries) /\ Start(t)
  BY DEF SetUnreach
<1>3. Coherent(t)
  <2>1. CASE v = 1
    <3>1. t = Resends(0) \o Flag(u, 1) \o Save(u, 1) \o Save(s, 1) \o Param(u, 1)
                \o ((Flag(s, 1) \o Save(s, 1) \o Param(s, 1)) \o Tell(u, 1) \o Tell(s, 1))
      BY <2>1
    <3>2. QED
      BY <1>1, <3>1, UnreachSet
  <2>2. CASE v = 0
    <3>1. t = Resends(0) \o Flag(u, 0) \o Save(u, 0) \o Save(s, 0) \o Param(u, 0) \o Tell(u, 0)
      BY <2>2
    <3>2. QED
      BY <1>1, <3>1, UnreachReset
  <2>3. QED
    BY <2>1, <2>2
<1>4. \E i \in DOMAIN t : t[i].do = "resends"
  <2>1. 1 \in DOMAIN t /\ t[1] = [do |-> "resends", value |-> 0]
    BY DEF Resends, Flag, Save, Param, Tell
  <2> HIDE DEF t
  <2>2. QED
    BY <2>1
<1> HIDE DEF t
<1>5. tries' \in Nat
  BY <1>2 DEF ServiceInv, ServiceType
<1>6. QED
  BY <1>2, <1>3, <1>4, <1>5, Started

LEMMA RequeueKeeps ==
  ASSUME ServiceInv, Requeue
  PROVE  ServiceInv'
<1>1. PICK n : n = resends + 1
  OBVIOUS
<1>2. todo = <<>> /\ todo' = Enqueue \o Resends(n) /\ resends < 3 /\ tries' = tries
      /\ UNCHANGED <<flag, errors, known, resends, named, rows, params, told, unsaved, unset>>
  BY <1>1 DEF Requeue, MayRequeue, Call, Start, memory, outside
<1>3. resends \in Nat /\ tries \in Nat /\ resends <= tries
  BY <1>2, AtRestEnqueued DEF ServiceInv, ServiceType
<1>4. n \in 0 .. 3 /\ n <= tries' + 1
  BY <1>1, <1>2, <1>3
<1>5. EnqueuedInv'
  BY <1>2, <1>4 DEF EnqueuedInv
<1> DEFINE a == [do |-> "enqueue"]
           b == [do |-> "resends", value |-> n]
<1>6. Enqueue = <<a>> /\ Resends(n) = <<b>> /\ a \in Changes /\ b \in Changes /\ a.do = "enqueue" /\ b.do = "resends"
  BY <1>4 DEF Enqueue, Resends, Changes
<1> HIDE DEF a, b
<1>7. <<a>> \in Seq(Changes) /\ <<b>> \in Seq(Changes)
  BY <1>6
<1>8. PICK s \in Seq(Changes) : s = <<a>> \o <<b>>
  BY <1>7, Joined
<1>9. ASSUME NEW dos, "enqueue" \notin dos, "resends" \notin dos
      PROVE  \A xs : ~Touches(s, dos, xs) /\ \A x, v : ~Leaves(s, dos, xs, x, v)
  <2>1. \A xs : ~Hit(a, dos, xs) /\ ~Hit(b, dos, xs)
    BY <1>6, <1>9 DEF Hit
  <2>2. \A xs : ~Touches(s, dos, xs)
    BY <1>7, <1>8, <2>1, Joined, SingleTouches
  <2>3. \A xs, x, v : ~Leaves(s, dos, xs, x, v)
    BY <2>2 DEF Leaves, Touches
  <2>4. QED
    BY <2>2, <2>3
<1>10. Saves(s)
  BY <1>9 DEF Saves, MemDo
<1>11. Tells(s, "param") /\ Tells(s, "tell")
  BY <1>9 DEF Tells, MemDo
<1>12. QED
  BY <1>2, <1>3, <1>5, <1>6, <1>8, <1>10, <1>11, CallKeeps

-----------------------------------------------------------------------------
(* The end of the process.                                                 *)

(* What load() makes of the rows.                                          *)
LEMMA LoadedRows ==
  ASSUME ServiceInv
  PROVE  /\ LoadedFlags \in [Flags -> {0, 1}]
         /\ \A f \in Flags, v \in Values \ {0} : LoadedFlags[f] = v <=> HasRow(f, v)
         /\ DOMAIN LoadedErrors \subseteq Keys
         /\ \A k \in DOMAIN LoadedErrors : LoadedErrors[k] \in Values /\ HasRow(k, LoadedErrors[k])
         /\ \A k \in Keys : \A v : HasRow(k, v) => k \in DOMAIN LoadedErrors
<1>1. RowsInv
  BY DEF ServiceInv
<1>2. ASSUME NEW f \in Flags
      PROVE  /\ LoadedFlags[f] \in {0, 1}
             /\ \A v \in Values \ {0} : LoadedFlags[f] = v <=> HasRow(f, v)
  <2>1. RowId(f) = Index(f)
    BY ThingRows
  <2>2. CASE Index(f) \in DOMAIN rows
    <3>1. PICK x \in Things, w \in Values : RowId(f) = RowId(x) /\ HasRow(x, w) /\ (x \in Flags => w \in {0, 1})
      BY <1>1, <2>1, <2>2 DEF RowsInv
    <3>2. x = f
      BY <3>1, ThingRows
    <3>3. LoadedFlags[f] = rows[Index(f)].value
      BY <2>2 DEF LoadedFlags
    <3>4. rows[RowId(f)] = [of |-> f, value |-> w] /\ w \in {0, 1}
      BY <3>1, <3>2 DEF HasRow
    <3>5. LoadedFlags[f] = w
      BY <2>1, <3>3, <3>4
    <3>6. \A v : [of |-> f, value |-> w] = [of |-> f, value |-> v] <=> v = w
      OBVIOUS
    <3>7. \A v : HasRow(f, v) <=> v = w
      BY <2>1, <2>2, <3>4, <3>6 DEF HasRow
    <3>8. QED
      BY <3>4, <3>5, <3>7
  <2>3. CASE Index(f) \notin DOMAIN rows
    <3>1. LoadedFlags[f] = 0
      BY <2>3 DEF LoadedFlags
    <3>2. QED
      BY <2>1, <2>3, <3>1 DEF HasRow
  <2>4. QED
    BY <2>2, <2>3
<1>3. ASSUME NEW r \in ErrorRows
      PROVE  /\ r.of \in Keys /\ r.value \in Values /\ HasRow(r.of, r.value)
             /\ RowId(r.of) \in DOMAIN rows /\ r = rows[RowId(r.of)]
  <2>1. PICK i \in DOMAIN rows : i >= 1000 /\ r = rows[i]
    BY DEF ErrorRows
  <2>2. PICK x \in Things, w \in Values : i = RowId(x) /\ HasRow(x, w)
    BY <1>1 DEF RowsInv
  <2>3. r = [of |-> x, value |-> w]
    BY <2>1, <2>2 DEF HasRow
  <2>4. r.of = x /\ r.value = w
    BY <2>3
  <2>5. x \notin Flags
    BY <2>1, <2>2, ThingRows
  <2>6. QED
    BY <2>1, <2>2, <2>4, <2>5 DEF Things
<1>4. DOMAIN LoadedErrors = {r.of : r \in ErrorRows}
  BY DEF LoadedErrors
<1>5. ASSUME NEW k \in DOMAIN LoadedErrors
      PROVE  k \in Keys /\ LoadedErrors[k] \in Values /\ HasRow(k, LoadedErrors[k])
  <2>1. PICK r \in ErrorRows : r.of = k
    BY <1>4
  <2>2. \A q \in ErrorRows : q.of = k => q = r
    BY <1>3, <2>1
  <2>3. LoadedErrors[k] = (CHOOSE q \in ErrorRows : q.of = k).value
    BY <1>4 DEF LoadedErrors
  <2>4. (CHOOSE q \in ErrorRows : q.of = k) = r
    BY <2>1, <2>2
  <2>5. QED
    BY <1>3, <2>1, <2>3, <2>4
<1>6. ASSUME NEW k \in Keys, NEW v, HasRow(k, v)
      PROVE  k \in DOMAIN LoadedErrors
  <2>1. RowId(k) \in DOMAIN rows /\ RowId(k) >= 1000 /\ rows[RowId(k)] = [of |-> k, value |-> v]
    BY <1>6, ThingRows DEF HasRow
  <2>2. PICK r : r = rows[RowId(k)]
    OBVIOUS
  <2>3. r \in ErrorRows /\ r.of = k
    BY <2>1, <2>2 DEF ErrorRows
  <2>4. QED
    BY <1>4, <2>3
<1>7. LoadedFlags \in [Flags -> {0, 1}]
  <2>1. LoadedFlags = [f \in Flags |-> LoadedFlags[f]]
    BY DEF LoadedFlags
  <2>2. QED
    BY <1>2, <2>1
<1>8. QED
  BY <1>2, <1>5, <1>6, <1>7

(* Only parameters are saved, and q does it for all of them.               *)
OnlyParams(q) == q \in Seq(Changes) /\ Plain(q) /\ \A dos, xs : "param" \notin dos => ~Touches(q, dos, xs)

LEMMA OneMoreParam ==
  ASSUME NEW p, OnlyParams(p), NEW a, NEW f, NEW v, Does(a, "param", f, v)
  PROVE  /\ OnlyParams(p \o a) /\ Leaves(p \o a, {"param"}, {f}, f, v)
         /\ \A g, w : g # f /\ Leaves(p, {"param"}, {g}, g, w) => Leaves(p \o a, {"param"}, {g}, g, w)
<1>1. p \in Seq(Changes) /\ a \in Seq(Changes)
  BY DEF OnlyParams, Does
<1> DEFINE q == p \o a
<1>2. /\ q \in Seq(Changes)
      /\ Plain(q) <=> Plain(p) /\ Plain(a)
      /\ \A dos, xs : Touches(q, dos, xs) <=> Touches(p, dos, xs) \/ Touches(a, dos, xs)
      /\ \A dos, xs, x, w : Leaves(q, dos, xs, x, w)
           <=> Leaves(a, dos, xs, x, w) \/ (~Touches(a, dos, xs) /\ Leaves(p, dos, xs, x, w))
  BY <1>1, Joined
<1> HIDE DEF q
<1>3. OnlyParams(q)
  BY <1>2 DEF OnlyParams, Does
<1>4. Leaves(q, {"param"}, {f}, f, v)
  BY <1>2 DEF Does
<1>5. ASSUME NEW g, NEW w, g # f, Leaves(p, {"param"}, {g}, g, w) PROVE Leaves(q, {"param"}, {g}, g, w)
  <2>1. ~Touches(a, {"param"}, {g})
    BY <1>5 DEF Does
  <2>2. QED
    BY <1>2, <1>5, <2>1
<1>6. QED
  BY <1>3, <1>4, <1>5 DEF q

LEMMA Synchronized ==
  ASSUME NEW l \in [Flags -> {0, 1}], NEW s,
         s = Param(Unreach, l[Unreach]) \o Param(StickyUnreach, l[StickyUnreach])
               \o Param(ConfigPending, l[ConfigPending]) \o Param(Lowbat, l[Lowbat])
  PROVE  /\ s \in Seq(Changes) /\ Plain(s)
         /\ \A f \in Flags : Leaves(s, {"param"}, {f}, f, l[f])
         /\ \A dos, xs : "param" \notin dos => ~Touches(s, dos, xs)
         /\ \A dos, xs, x, v : "param" \notin dos => ~Leaves(s, dos, xs, x, v)
<1> DEFINE a == Param(Unreach, l[Unreach])
           b == Param(StickyUnreach, l[StickyUnreach])
           c == Param(ConfigPending, l[ConfigPending])
           d == Param(Lowbat, l[Lowbat])
<1>1. /\ Does(a, "param", Unreach, l[Unreach]) /\ Does(b, "param", StickyUnreach, l[StickyUnreach])
      /\ Does(c, "param", ConfigPending, l[ConfigPending]) /\ Does(d, "param", Lowbat, l[Lowbat])
  BY FlagChanges DEF Flags
<1> HIDE DEF a, b, c, d
<1>2. /\ Unreach # StickyUnreach /\ Unreach # ConfigPending /\ Unreach # Lowbat
      /\ StickyUnreach # ConfigPending /\ StickyUnreach # Lowbat /\ ConfigPending # Lowbat
  BY DEF Unreach, StickyUnreach, ConfigPending, Lowbat
<1>3. OnlyParams(a) /\ Leaves(a, {"param"}, {Unreach}, Unreach, l[Unreach])
  BY <1>1 DEF OnlyParams, Does
<1>4. PICK p : p = a \o b
  OBVIOUS
<1>5. /\ OnlyParams(p) /\ Leaves(p, {"param"}, {StickyUnreach}, StickyUnreach, l[StickyUnreach])
      /\ Leaves(p, {"param"}, {Unreach}, Unreach, l[Unreach])
  BY <1>1, <1>2, <1>3, <1>4, OneMoreParam
<1>6. PICK q : q = p \o c
  OBVIOUS
<1>7. /\ OnlyParams(q) /\ Leaves(q, {"param"}, {ConfigPending}, ConfigPending, l[ConfigPending])
      /\ Leaves(q, {"param"}, {StickyUnreach}, StickyUnreach, l[StickyUnreach])
      /\ Leaves(q, {"param"}, {Unreach}, Unreach, l[Unreach])
  BY <1>1, <1>2, <1>5, <1>6, OneMoreParam
<1>8. s = q \o d
  BY <1>4, <1>6 DEF a, b, c, d
<1>9. /\ OnlyParams(s) /\ Leaves(s, {"param"}, {Lowbat}, Lowbat, l[Lowbat])
      /\ Leaves(s, {"param"}, {ConfigPending}, ConfigPending, l[ConfigPending])
      /\ Leaves(s, {"param"}, {StickyUnreach}, StickyUnreach, l[StickyUnreach])
      /\ Leaves(s, {"param"}, {Unreach}, Unreach, l[Unreach])
  BY <1>1, <1>2, <1>7, <1>8, OneMoreParam
<1>10. \A dos, xs, x, v : "param" \notin dos => ~Leaves(s, dos, xs, x, v)
  BY <1>9 DEF OnlyParams, Leaves, Touches
<1>11. QED
  BY <1>9, <1>10 DEF OnlyParams, Flags

LEMMA RestartKeeps ==
  ASSUME ServiceInv, Restart
  PROVE  ServiceInv'
<1>1. /\ flag' = LoadedFlags /\ errors' = LoadedErrors /\ known' = DOMAIN rows
      /\ resends' = 0 /\ tries' = 0 /\ told' = NoErrors /\ todo' = SyncParameters
      /\ unsaved' = {} /\ unset' = {} /\ UNCHANGED <<named, rows, params>>
  BY DEF Restart
<1>2. /\ LoadedFlags \in [Flags -> {0, 1}]
      /\ \A f \in Flags, v \in Values \ {0} : LoadedFlags[f] = v <=> HasRow(f, v)
      /\ DOMAIN LoadedErrors \subseteq Keys
      /\ \A k \in DOMAIN LoadedErrors : LoadedErrors[k] \in Values /\ HasRow(k, LoadedErrors[k])
      /\ \A k \in Keys : \A v : HasRow(k, v) => k \in DOMAIN LoadedErrors
  BY LoadedRows
<1>3. PICK s : s = SyncParameters
  OBVIOUS
<1>4. PICK l \in [Flags -> {0, 1}] : l = LoadedFlags
  BY <1>2
<1>5. /\ s \in Seq(Changes) /\ Plain(s)
      /\ \A f \in Flags : Leaves(s, {"param"}, {f}, f, l[f])
      /\ \A dos, xs : "param" \notin dos => ~Touches(s, dos, xs)
      /\ \A dos, xs, x, v : "param" \notin dos => ~Leaves(s, dos, xs, x, v)
  BY <1>3, <1>4, Synchronized DEF SyncParameters
<1>6. /\ "param" \notin MemDo /\ "param" \notin {"save"} /\ "param" \notin {"tell"}
  BY DEF MemDo
<1>7. ASSUME NEW x \in Things, NEW v \in Values \ {0} PROVE Kept(x)' = v <=> HasRow(x, v)
  <2>1. CASE x \in Flags
    BY <1>1, <1>2, <2>1 DEF Kept
  <2>2. CASE x \notin Flags
    <3>1. x \in Keys
      BY <2>2 DEF Things
    <3>2. Kept(x)' = IF x \in DOMAIN LoadedErrors THEN LoadedErrors[x] ELSE 0
      BY <1>1, <2>2 DEF Kept
    <3>3. \A w : HasRow(x, v) /\ HasRow(x, w) => v = w
      <4>1. \A w : [of |-> x, value |-> v] = [of |-> x, value |-> w] => v = w
        OBVIOUS
      <4>2. QED
        BY <4>1 DEF HasRow
    <3>4. QED
      BY <1>2, <3>1, <3>2, <3>3
  <2>3. QED
    BY <2>1, <2>2
<1>8. /\ \A x \in Things : \A v : MemWill(todo, x, v)' <=> Kept(x)' = v
      /\ \A x \in Things : \A v : RowWill(todo, x, v)' <=> HasRow(x, v)
  <2>1. ASSUME NEW x \in Things, NEW v
        PROVE (MemWill(todo, x, v)' <=> Kept(x)' = v) /\ (RowWill(todo, x, v)' <=> HasRow(x, v))
    <3>1. MemWill(todo, x, v)' <=> Leaves(s, MemDo, {x}, x, v) \/ (~Touches(s, MemDo, {x}) /\ Kept(x)' = v)
      BY <1>1, <1>3 DEF MemWill
    <3>2. RowWill(todo, x, v)' <=>
             \/ Leaves(s, {"save"}, Sharing(x), x, v)
             \/ ~Touches(s, {"save"}, Sharing(x)) /\ HasRow(x, v)
      BY <1>1, <1>3 DEF RowWill, HasRow, Sharing
    <3>3. QED
      BY <1>5, <1>6, <3>1, <3>2
  <2>2. QED
    BY <2>1
<1>9. NothingInv(todo)'
  <2>1. \A x \in Things, v \in Values \ {0} : RowWill(todo, x, v)' => MemWill(todo, x, v)'
    BY <1>7, <1>8
  <2>2. QED
    BY <2>1 DEF NothingInv, Things, Values
<1>10. DurableInv(todo)'
  <2>1. \A x \in Things \ {StickyUnreach}, v \in Values \ {0} : MemWill(todo, x, v)' => RowWill(todo, x, v)'
    BY <1>7, <1>8
  <2>2. QED
    BY <2>1 DEF DurableInv, Things, Values
<1>11. FlagsInv(todo)'
  <2>1. ASSUME NEW f \in Flags, NEW v \in {0, 1}, MemWill(todo, f, v)'
        PROVE  ParamWill(todo, f, v)' /\ ToldWill(todo, f, v)'
    <3>1. v = l[f]
      BY <1>1, <1>4, <1>8, <2>1 DEF Kept, Things
    <3>2. ParamWill(todo, f, v)'
      BY <1>1, <1>3, <1>5, <3>1 DEF ParamWill
    <3>3. f \notin DOMAIN told'
      BY <1>1 DEF NoErrors
    <3>4. ToldWill(todo, f, v)'
      BY <1>1, <1>3, <1>5, <1>6, <3>3 DEF ToldWill
    <3>5. QED
      BY <3>2, <3>4
  <2>2. QED
    BY <2>1 DEF FlagsInv
<1>12. EnqueuedInv'
  BY <1>1, <1>3, <1>5 DEF EnqueuedInv, Plain
<1>13. ServiceType'
  BY <1>1, <1>2, <1>3, <1>5 DEF ServiceType, ServiceInv
<1>14. RowsInv' /\ KnownRows'
  BY <1>1 DEF ServiceInv, RowsInv, HasRow, KnownRows
<1>15. QED
  BY <1>9, <1>10, <1>11, <1>12, <1>13, <1>14 DEF ServiceInv

-----------------------------------------------------------------------------
(* The theorems.                                                           *)

LEMMA InitService == Init => ServiceInv
<1> SUFFICES ASSUME Init PROVE ServiceInv
  OBVIOUS
<1>1. /\ flag = [f \in Flags |-> 0] /\ errors = NoErrors /\ known = {} /\ resends = 0 /\ named \in BOOLEAN
      /\ rows = NoErrors /\ params = flag /\ told = NoErrors
      /\ todo = <<>> /\ unsaved = {} /\ unset = {} /\ tries = 0
  BY DEF Init
<1>2. DOMAIN NoErrors = {}
  BY DEF NoErrors
<1>3. \A x : Kept(x) = 0 /\ \A v : ~HasRow(x, v)
  BY <1>1, <1>2 DEF Kept, HasRow
<1>4. /\ \A x, v : MemWill(todo, x, v) <=> v = 0
      /\ \A x, v : ~RowWill(todo, x, v)
      /\ \A f \in Flags : ParamWill(todo, f, 0) /\ ToldWill(todo, f, 0)
  BY <1>1, <1>2, <1>3, AtRestWill
<1>5. NothingInv(todo) /\ DurableInv(todo) /\ FlagsInv(todo)
  BY <1>4 DEF NothingInv, DurableInv, FlagsInv
<1>6. EnqueuedInv
  <2>1. DOMAIN todo = {}
    BY <1>1
  <2>2. QED
    BY <1>1, <2>1 DEF EnqueuedInv
<1>7. ServiceType
  BY <1>1, <1>2 DEF ServiceType
<1>8. RowsInv /\ KnownRows
  BY <1>1, <1>2 DEF RowsInv, KnownRows
<1>9. QED
  BY <1>5, <1>6, <1>7, <1>8 DEF ServiceInv

(* Nothing that ServiceInv is about has changed.                           *)
LEMMA ServiceUnchanged ==
  ASSUME ServiceInv,
         UNCHANGED <<flag, errors, known, resends, rows, params, told, todo, unsaved, unset, tries>>,
         named' \in BOOLEAN
  PROVE  ServiceInv'
<1>1. ServiceType' /\ EnqueuedInv'
  BY DEF ServiceInv, ServiceType, EnqueuedInv
<1>2. RowsInv' /\ KnownRows'
  BY DEF ServiceInv, RowsInv, KnownRows, HasRow
<1>3. /\ \A x, v : MemWill(todo, x, v)' <=> MemWill(todo, x, v)
      /\ \A x, v : RowWill(todo, x, v)' <=> RowWill(todo, x, v)
      /\ \A x : Lost(todo, x)' <=> Lost(todo, x)
      /\ \A f, v : ParamWill(todo, f, v)' <=> ParamWill(todo, f, v)
      /\ \A f, v : ToldWill(todo, f, v)' <=> ToldWill(todo, f, v)
  BY DEF MemWill, RowWill, Lost, ParamWill, ToldWill, Kept, HasRow, Sharing
<1>4. NothingInv(todo) /\ DurableInv(todo) /\ FlagsInv(todo)
  BY DEF ServiceInv
<1>5. NothingInv(todo)' /\ DurableInv(todo)' /\ FlagsInv(todo)'
  BY <1>3, <1>4, DoneAsSaid
<1>6. QED
  BY <1>1, <1>2, <1>5 DEF ServiceInv

LEMMA NextService == ServiceInv /\ [Next]_vars => ServiceInv'
<1> SUFFICES ASSUME ServiceInv, [Next]_vars PROVE ServiceInv'
  OBVIOUS
<1>1. named \in BOOLEAN
  BY DEF ServiceInv, ServiceType
<1>2. ASSUME NEW f \in Flags, NEW v \in {0, 1}, Set(f, v) PROVE ServiceInv'
  BY <1>2, SetKeeps
<1>3. ASSUME NEW id \in Ids, NEW v \in {0, 1}, SetOnChannel0(id, v) PROVE ServiceInv'
  BY <1>3, SetOnChannel0Keeps
<1>4. ASSUME NEW k \in Keys, NEW v \in Values, SetError(k, v) PROVE ServiceInv'
  BY <1>4, SetErrorKeeps
<1>5. CASE \/ \E v \in {0, 1} : SetConfigPending(v)
           \/ \E aDay \in BOOLEAN : EndUnreach(aDay)
           \/ \E aDay \in BOOLEAN : CheckHeard(aDay)
  BY <1>5, OneFlagCallsKeep
<1>6. ASSUME NEW aDay \in BOOLEAN, CheckSilent(aDay) PROVE ServiceInv'
  BY <1>6, CheckSilentKeeps
<1>7. CASE Requeue
  BY <1>7, RequeueKeeps
<1>8. ASSUME NEW v \in {0, 1}, NEW requeue \in BOOLEAN, SetUnreach(v, requeue) PROVE ServiceInv'
  BY <1>8, SetUnreachKeeps
<1>9. CASE AssignFlag
  BY <1>9, AssignFlagKeeps
<1>10. CASE AssignError
  BY <1>10, AssignErrorKeeps
<1>11. CASE EraseError
  BY <1>11, EraseErrorKeeps
<1>12. CASE UpdateRow
  BY <1>12, UpdateRowKeeps
<1>13. CASE DeleteRow
  BY <1>13, DeleteRowKeeps
<1>14. CASE InsertRow
  BY <1>14, InsertRowKeeps
<1>15. CASE NotSaved
  BY <1>15, NotSavedKeeps
<1>16. CASE SaveParameter
  BY <1>16, SaveParameterKeeps
<1>17. CASE RaiseEvent
  BY <1>17, RaiseEventKeeps
<1>18. CASE AssignResends
  BY <1>18, AssignResendsKeeps
<1>19. CASE EnqueuePending
  BY <1>19, EnqueuePendingKeeps
<1>20. CASE SetPeerId \/ Booted \/ ShutDown \/ UNCHANGED vars
  BY <1>1, <1>20, ServiceUnchanged DEF SetPeerId, Booted, ShutDown, vars, memory, outside, bounds
<1>21. CASE Restart
  BY <1>21, RestartKeeps
<1>22. QED
  BY <1>2, <1>3, <1>4, <1>5, <1>6, <1>7, <1>8, <1>9, <1>10, <1>11, <1>12, <1>13,
     <1>14, <1>15, <1>16, <1>17, <1>18, <1>19, <1>20, <1>21 DEF Next

(* The invariant, from which the properties of the calls follow.           *)
THEOREM ServiceCorrect == Spec => []ServiceInv
  BY InitService, NextService, PTL DEF Spec

(* Between calls the database holds what is reported, and save() updates   *)
(* only rows that exist: ServiceMessages::save(), load() and get().        *)
THEOREM SurvivesRestartCorrect == Spec => []SurvivesRestart
<1>1. ASSUME ServiceInv PROVE SurvivesRestart
  <2>1. KnownRows /\ DurableInv(todo) /\ ServiceType
    BY <1>1 DEF ServiceInv
  <2>2. ASSUME AtRest, NEW m \in Reported
        PROVE  m \in Stored \/ SharesRow(m[1]) \/ RowId(m[1]) \in unsaved \cup {Index(StickyUnreach)}
    <3>1. PICK x, v : m = <<x, v>> /\ x \in Things /\ v \in Values \ {0} /\ Kept(x) = v
      <4>1. CASE \E f \in Flags : flag[f] = 1 /\ m = <<f, 1>>
        BY <4>1, ServiceMessagesAssumption DEF Things, Values, Kept
      <4>2. CASE \E k \in DOMAIN errors : errors[k] # 0 /\ m = <<k, errors[k]>>
        <5>1. PICK k \in DOMAIN errors : errors[k] # 0 /\ m = <<k, errors[k]>>
          BY <4>2
        <5>2. k \in Keys /\ k \notin Flags /\ errors[k] \in Values
          BY <2>1, ThingRows DEF ServiceType
        <5>3. k \in Things /\ Kept(k) = errors[k]
          BY <5>2 DEF Things, Kept
        <5>4. QED
          BY <5>1, <5>2, <5>3
      <4>3. QED
        BY <2>2, <4>1, <4>2 DEF Reported
    <3>2. CASE x = StickyUnreach
      BY <3>1, <3>2, ThingRows DEF Flags
    <3>3. CASE x # StickyUnreach
      <4>1. SharesRow(x) \/ (RowId(x) \notin unsaved /\ HasRow(x, v)) \/ RowId(x) \in unsaved
        BY <2>1, <2>2, <3>1, <3>3, AtRestWill DEF DurableInv, AtRest
      <4>2. ASSUME HasRow(x, v) PROVE m \in Stored
        <5>1. PICK i \in DOMAIN rows : rows[i] = [of |-> x, value |-> v]
          BY <4>2 DEF HasRow
        <5>2. rows[i].of = x /\ rows[i].value = v
          BY <5>1
        <5>3. QED
          BY <3>1, <5>2 DEF Stored
      <4>3. QED
        BY <3>1, <4>1, <4>2
    <3>4. QED
      BY <3>2, <3>3
  <2>3. QED
    BY <2>1, <2>2 DEF SurvivesRestart, Durable
<1>2. QED
  BY <1>1, ServiceCorrect, PTL

(* No message that was reset is stored when no call is in progress: load() *)
(* brings none back.                                                       *)
THEOREM NothingReturnsCorrect == Spec => []NothingReturns
<1>1. ASSUME ServiceInv PROVE NothingReturns
  <2>1. RowsInv /\ NothingInv(todo) /\ ServiceType
    BY <1>1 DEF ServiceInv
  <2>2. ASSUME AtRest, NEW m \in Stored, RowId(m[1]) \notin unsaved
        PROVE  m \in Reported
    <3>1. PICK i \in DOMAIN rows : rows[i].value # 0 /\ m = <<rows[i].of, rows[i].value>>
      BY <2>2 DEF Stored
    <3>2. PICK x \in Things, v \in Values : i = RowId(x) /\ HasRow(x, v) /\ (x \in Flags => v \in {0, 1})
      BY <2>1, <3>1 DEF RowsInv
    <3>3. rows[i] = [of |-> x, value |-> v]
      BY <3>2 DEF HasRow
    <3>4. m = <<x, v>> /\ v # 0
      BY <3>1, <3>3
    <3>5. Kept(x) = v
      BY <2>1, <2>2, <3>2, <3>4, AtRestWill DEF NothingInv, AtRest
    <3>6. CASE x \in Flags
      <4>1. flag[x] = 1 /\ m = <<x, 1>>
        BY <3>2, <3>4, <3>5, <3>6 DEF Kept
      <4>2. QED
        BY <3>6, <4>1 DEF Reported
    <3>7. CASE x \notin Flags
      <4>1. x \in DOMAIN errors /\ errors[x] = v
        BY <3>4, <3>5, <3>7 DEF Kept
      <4>2. QED
        BY <3>4, <4>1 DEF Reported
    <3>8. QED
      BY <3>6, <3>7
  <2>3. QED
    BY <2>2 DEF NothingReturns
<1>2. QED
  BY <1>1, ServiceCorrect, PTL

(* Between calls the object, the parameters of the peer and the clients    *)
(* know the same of a flag, also after load().                             *)
THEOREM FlagsAgreeCorrect == Spec => []FlagsAgree
<1>1. ASSUME ServiceInv PROVE FlagsAgree
  <2>1. FlagsInv(todo) /\ ServiceType
    BY <1>1 DEF ServiceInv
  <2>2. ASSUME AtRest, NEW f \in Flags
        PROVE  (params[f] = flag[f] \/ f \in unset) /\ (f \in DOMAIN told => told[f] = flag[f])
    <3>1. flag[f] \in {0, 1} /\ Kept(f) = flag[f]
      BY <2>1 DEF ServiceType, Kept
    <3>2. QED
      BY <2>1, <2>2, <3>1, AtRestWill DEF FlagsInv, AtRest
  <2>3. QED
    BY <2>2 DEF FlagsAgree, ParamsAgree, FlagsTold
<1>2. QED
  BY <1>1, ServiceCorrect, PTL

(* setUnreach() declares a peer unreachable that may be tried again only   *)
(* after it has enqueued its pending queues three times.                   *)
THEOREM RetriesFirstCorrect == Spec => RetriesFirst
<1>1. ASSUME ServiceInv, [Next]_vars PROVE [SetUnreach(1, TRUE) => tries >= 3]_vars
  <2>1. ASSUME SetUnreach(1, TRUE) PROVE tries >= 3
    <3>1. todo = <<>> /\ ~(resends < 3)
      BY <2>1 DEF SetUnreach, Start, MayRequeue
    <3>2. resends <= tries /\ resends \in Nat /\ tries \in Nat
      BY <1>1, <3>1, AtRestEnqueued DEF ServiceInv, ServiceType
    <3>3. QED
      BY <3>1, <3>2
  <2>2. QED
    BY <2>1
<1>2. QED
  BY <1>1, ServiceCorrect, PTL DEF Spec, RetriesFirst
=============================================================================
