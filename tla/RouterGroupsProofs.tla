-------------------------- MODULE RouterGroupsProofs --------------------------
(***************************************************************************)
(* The invariants of RouterGroups for any number of requests, guids and    *)
(* seeds.  The argument is about the versions of groups that are stored or *)
(* on their way into the table: each is valid, and versions that share a   *)
(* guid share the name and, on PostgreSQL, the type.  No step invents a    *)
(* version that breaks this: a create draws a fresh guid, an update copies *)
(* a stored group, the merge of SaveRouterGroup returns the version it was *)
(* given, and MySQL's upsert leaves guid and name alone.  The port ranges  *)
(* of Ports come first, for port numbers of any width and any texts.       *)
(***************************************************************************)
EXTENDS RouterGroups, TLAPS

-----------------------------------------------------------------------------
(* Overlaps and Validate of Ports, for port numbers of any width.           *)

\* No subtraction of uint16 wraps on ranges in ascending order.
LEMMA NoWrap ==
  ASSUME NEW a \in Port, NEW b \in Port, b <= a
  PROVE  Minus(a, b) = a - b
<1>1. PortMax \in Nat /\ 2^Width = PortMax + 1
  <2>1. 2^Width \in Int
    BY PortsAssumption DEF PortsAssumption
  <2> QED
    BY <2>1, PortsAssumption DEF PortsAssumption, PortMax
<1>2. a - b \in 0..PortMax
  BY <1>1 DEF Port
<1> DEFINE w == PortMax + 1
<1>3. (a - b) % w = a - b
  BY <1>1, <1>2
<1> QED
  BY <1>1, <1>3 DEF Minus

\* Overlaps compares the span of two ranges with the sum of their lengths; this
\* is the same as asking for a port in both.
THEOREM OverlapsCorrect ==
  ASSUME NEW r \in Ranges, NEW o \in Ranges
  PROVE  Overlaps(r, o) <=> \E q \in Port : q \in PortsOf(r) /\ q \in PortsOf(o)
<1>1. /\ r.start \in Port /\ r.end \in Port /\ r.start <= r.end
      /\ o.start \in Port /\ o.end \in Port /\ o.start <= o.end
  BY DEF Ranges
<1>2. r.start \in Int /\ r.end \in Int /\ o.start \in Int /\ o.end \in Int
  BY <1>1 DEF Port
<1> DEFINE u == UpperEnd(r, o)
           l == LowerStart(r, o)
<1>3. u \in Port /\ l \in Port /\ l <= u
  <2>1. u \in {r.end, o.end} /\ l \in {r.start, o.start}
    BY DEF UpperEnd, LowerStart
  <2>2. l <= u
    BY <1>1, <1>2 DEF UpperEnd, LowerStart
  <2> QED
    BY <1>1, <2>1, <2>2
<1>4. Overlaps(r, o) <=> u - l <= (r.end - r.start) + (o.end - o.start)
  <2>1. Minus(u, l) = u - l
    BY <1>3, NoWrap
  <2>2. Minus(r.end, r.start) = r.end - r.start
    BY <1>1, NoWrap
  <2>3. Minus(o.end, o.start) = o.end - o.start
    BY <1>1, NoWrap
  <2> QED
    BY <2>1, <2>2, <2>3 DEF Overlaps
<1>5. Overlaps(r, o) <=> r.start <= o.end /\ o.start <= r.end
  BY <1>1, <1>2, <1>4 DEF UpperEnd, LowerStart
<1>6. ASSUME Overlaps(r, o)
      PROVE  \E q \in Port : q \in PortsOf(r) /\ q \in PortsOf(o)
  <2>1. CASE r.start <= o.start
    <3>1. o.start \in PortsOf(r) /\ o.start \in PortsOf(o)
      BY <1>1, <1>2, <1>5, <1>6, <2>1 DEF PortsOf
    <3> QED
      BY <1>1, <3>1
  <2>2. CASE o.start <= r.start
    <3>1. r.start \in PortsOf(r) /\ r.start \in PortsOf(o)
      BY <1>1, <1>2, <1>5, <1>6, <2>2 DEF PortsOf
    <3> QED
      BY <1>1, <3>1
  <2> QED
    BY <1>1, <1>2, <2>1, <2>2
<1>7. ASSUME NEW q \in Port, q \in PortsOf(r), q \in PortsOf(o)
      PROVE  Overlaps(r, o)
  BY <1>1, <1>2, <1>5, <1>7 DEF PortsOf
<1> QED
  BY <1>6, <1>7

\* What parseRange accepts is a range, and Parse returns one for each text.
LEMMA ParsedRange ==
  ASSUME NEW p \in Seq(Seq(Int)), ParseOK(p), NEW i \in 1..Len(p)
  PROVE  Parse(p)[i] \in Ranges
<1>1. p[i] \in Seq(Int) /\ RangeOK(p[i])
  BY DEF ParseOK
<1>2. Len(p[i]) \in {1, 2}
  BY <1>1 DEF RangeOK
<1>3. 1 \in 1..Len(p[i]) /\ Len(p[i]) \in 1..Len(p[i])
  <2> DEFINE n == Len(p[i])
  <2>1. n \in {1, 2}
    BY <1>2
  <2> HIDE DEF n
  <2>2. 1 \in 1..n /\ n \in 1..n
    BY <2>1
  <2> QED
    BY <2>2 DEF n
<1>4. RangeOf(p[i]) \in Ranges
  BY <1>1, <1>3, SMTT(60) DEF RangeOK, RangeOf, Ranges
<1> QED
  BY <1>4 DEF Parse

\* What Validate accepts are reservable ports, each of them once, and none that
\* is reserved for a system component when conflicts are to fail.
THEOREM ValidatedPorts ==
  ASSUME NEW p \in Seq(Seq(Int)), Validate(p)
  PROVE  /\ \A i \in 1..Len(p) : PortsOf(Parse(p)[i]) \subseteq MinPort..PortMax
         /\ \A i, j \in 1..Len(p) : \A q \in Port :
              q \in PortsOf(Parse(p)[i]) /\ q \in PortsOf(Parse(p)[j]) => i = j
         /\ FailOnConflict =>
              \A i \in 1..Len(p) : PortsOf(Parse(p)[i]) \cap ReservedPorts = {}
<1>1. ParseOK(p)
  BY DEF Validate, RangesDisjoint
<1>2. \A i \in 1..Len(p) : Parse(p)[i] \in Ranges
  BY <1>1, ParsedRange
<1>3. PortMax \in Nat /\ MinPort \in Nat /\ ReservedPorts \subseteq Port
  BY PortsAssumption DEF PortsAssumption, Port
<1>4. ASSUME NEW i \in 1..Len(p)
      PROVE  PortsOf(Parse(p)[i]) \subseteq MinPort..PortMax
  BY <1>2, <1>3, SMTT(60) DEF Ranges, PortsOf, Port
<1>5. ASSUME NEW i \in 1..Len(p), NEW j \in 1..Len(p), NEW q \in Port,
             q \in PortsOf(Parse(p)[i]), q \in PortsOf(Parse(p)[j])
      PROVE  i = j
  <2>1. Overlaps(Parse(p)[i], Parse(p)[j])
    BY <1>2, <1>5, OverlapsCorrect
  <2> QED
    BY <2>1, Zenon DEF Validate, RangesDisjoint
<1>6. ASSUME FailOnConflict, NEW i \in 1..Len(p)
      PROVE  PortsOf(Parse(p)[i]) \cap ReservedPorts = {}
  <2> SUFFICES ASSUME NEW q \in ReservedPorts, q \in PortsOf(Parse(p)[i]) PROVE FALSE
    OBVIOUS
  <2>1. ~(Parse(p)[i].start <= q /\ q <= Parse(p)[i].end)
    BY <1>6 DEF Validate
  <2> QED
    BY <2>1, <1>2, <1>3 DEF PortsOf, Ranges, Port
<1> QED
  BY <1>4, <1>5, <1>6

-----------------------------------------------------------------------------
(* Versions of router groups.                                               *)

\* The call of a is about to write rg[a].
Holds(a) ==
  pc[a] \in {"save", "guarded", "find", "insert", "update"} /\ op[a] # "delete"

Held == {rg[a] : a \in {b \in Actors : Holds(b)}}

Versions == table \cup Held

GoodVersion(x) == x \in Group /\ GroupValid(x)

SameIdentity(x, y) ==
  x.guid = y.guid => x.name = y.name /\ (~MySQL => x.type = y.type)

\* The unique index idx_rg_name.
NamesUnique == \A g, h \in table : g.name = h.name => g = h

VersionsOK ==
  /\ \A x \in Versions : GoodVersion(x) /\ x.guid \in used
  /\ \A x, y \in Versions : SameIdentity(x, y)

ValidSeed ==
  {s \in [name: STRING, type: STRING, ports: Seq(Seq(Int))] : GroupValid(s)}

\* Requests that write a guid write one that has been drawn; only a create or
\* an update inserts or saves.
CallsOK ==
  \A a \in Actors :
    /\ pc[a] \in {"save", "guarded", "find", "insert", "update", "delete"}
         => rg[a].guid \in used
    /\ pc[a] \in {"insert", "update"} => op[a] # "delete"
    /\ pc[a] = "delete" => op[a] = "delete"

\* The conjuncts of TypeOK, the locks apart.
LocksOK == readLock \in BOOLEAN /\ writeLock \in BOOLEAN

StoreTyped ==
  /\ \A g \in table : g \in Group /\ g.guid \in used
  /\ \A g, h \in table : g.guid = h.guid => g = h
  /\ starts \in 0..MaxStarts
  /\ fails \in 0..MaxFails
  /\ used \subseteq Guids

CallsTyped ==
  /\ pc \in [Actors -> {"idle", "fetch", "save", "guarded", "find",
                        "insert", "update", "delete"}]
  /\ op \in [Actors -> {"none", "create", "update", "delete"}]
  /\ rg \in [Actors -> Group \cup {NoGroup}]
  /\ \A a \in Actors : pc[a] = "idle" <=> rg[a] = NoGroup

IInv ==
  /\ StoreTyped
  /\ CallsTyped
  /\ VersionsOK
  /\ CallsOK
  /\ todo \in Seq(ValidSeed)
  /\ NamesUnique

\* Validity is about name, type and ports.
LEMMA ValidAlike ==
  ASSUME NEW x, NEW y, GroupValid(x),
         x.name = y.name, x.type = y.type, x.ports = y.ports
  PROVE  GroupValid(y)
BY Zenon DEF GroupValid

\* updateRouterGroup returns the group to be saved when that is a valid one.
LEMMA MergeIsNew ==
  ASSUME NEW old \in Group, NEW new \in Group, old.guid = new.guid, GroupValid(new)
  PROVE  Merge(old, new) = new
<1>1. new.name # "" /\ new.type # ""
  BY Zenon DEF GroupValid
<1>2. Merge(old, new) =
        [guid |-> old.guid, name |-> new.name, type |-> new.type, ports |-> new.ports]
  BY <1>1, Zenon DEF Merge, Group
<1>3. new = [guid |-> new.guid, name |-> new.name, type |-> new.type,
             ports |-> new.ports]
  BY DEF Group
<1> QED
  BY <1>2, <1>3

\* A step that adds no version keeps them good.
LEMMA NoNewVersion ==
  ASSUME VersionsOK, Versions' \subseteq Versions, used \subseteq used'
  PROVE  VersionsOK'
<1>1. \A x \in Versions' : GoodVersion(x)' /\ x.guid \in used'
  BY Zenon DEF VersionsOK, GoodVersion, Group, GroupValid
<1>2. \A x, y \in Versions' : SameIdentity(x, y)'
  BY DEF VersionsOK, SameIdentity
<1> QED
  BY <1>1, <1>2 DEF VersionsOK

\* A step may add one version: of a guid not drawn before, or of the identity of
\* a stored group.
LEMMA OneNewVersion ==
  ASSUME VersionsOK, NEW v, GoodVersion(v), v.guid \in used', used \subseteq used',
         Versions' \subseteq Versions \cup {v},
         \/ v.guid \notin used
         \/ \E r \in table : v.guid = r.guid /\ SameIdentity(v, r)
  PROVE  VersionsOK'
<1>1. \A x \in Versions' : GoodVersion(x) /\ x.guid \in used'
  BY DEF VersionsOK
<1>2. \A x \in Versions : SameIdentity(x, v) /\ SameIdentity(v, x)
  BY DEF VersionsOK, SameIdentity, Versions
<1>3. \A x, y \in Versions' : SameIdentity(x, y)
  BY <1>2 DEF VersionsOK, SameIdentity
<1> QED
  BY <1>1, <1>3, Zenon DEF VersionsOK, GoodVersion, SameIdentity, Group, GroupValid

\* A sequence whose elements are all in T is a sequence over T.
LEMMA SeqOver ==
  ASSUME NEW S, NEW T, NEW s \in Seq(S), \A i \in 1..Len(s) : s[i] \in T
  PROVE  s \in Seq(T)
OBVIOUS

LEMMA SeedsValid == Seeds \in Seq(ValidSeed)
<1> DEFINE S == [name: STRING, type: STRING, ports: Seq(Seq(Int))]
<1>1. Seeds \in Seq(S) /\ \A i \in 1..Len(Seeds) : GroupValid(Seeds[i])
  BY SeedsAssumption DEF SeedsAssumption
<1>2. \A i \in 1..Len(Seeds) : Seeds[i] \in S
  <2> HIDE DEF S
  <2> QED
    BY <1>1
<1>3. \A i \in 1..Len(Seeds) : Seeds[i] \in ValidSeed
  BY <1>1, <1>2, Zenon DEF ValidSeed
<1> QED
  <2> HIDE DEF S
  <2> QED
    BY <1>1, <1>3, SeqOver

LEMMA InitInvariant == Init => IInv
<1> SUFFICES ASSUME Init PROVE IInv
  OBVIOUS
<1>1. <<>> \in Seq(ValidSeed)
  OBVIOUS
<1>2. StoreTyped /\ CallsTyped
  BY RouterGroupsAssumption DEF RouterGroupsAssumption, Init, StoreTyped, CallsTyped
<1>3. Versions = {}
  BY DEF Init, Versions, Held, Holds
<1> QED
  BY <1>1, <1>2, <1>3 DEF Init, IInv, VersionsOK, CallsOK, NamesUnique

-----------------------------------------------------------------------------
(* How calls move on.                                                       *)

\* A call that returns leaves the other calls as they are.
LEMMA CallReturns ==
  ASSUME IInv, NEW a \in Actors, NEW err, Return(a, err), used' = used
  PROVE  CallsTyped' /\ CallsOK' /\ todo' \in Seq(ValidSeed) /\ Held' \subseteq Held
<1>1. CallsTyped'
  BY DEF IInv, CallsTyped, Return
<1>2. CallsOK'
  BY DEF IInv, CallsTyped, CallsOK, Return
<1>3. todo' \in Seq(ValidSeed)
  BY DEF IInv, Return
<1>4. Held' \subseteq Held
  <2>1. \A b \in Actors : Holds(b)' => Holds(b) /\ rg'[b] = rg[b]
    BY DEF IInv, CallsTyped, Return, Holds
  <2> QED
    BY <2>1 DEF Held
<1> QED
  BY <1>1, <1>2, <1>3, <1>4

\* A call past its request goes on to its next statement or test.
LEMMA CallGoesOn ==
  ASSUME IInv, NEW a \in Actors, NEW l \in {"guarded", "find", "insert", "delete"},
         Goto(a, l), pc[a] \in {"save", "guarded", "find"},
         l = "insert" => op[a] # "delete", l = "delete" => op[a] = "delete",
         op' = op, rg' = rg, todo' = todo, used' = used
  PROVE  CallsTyped' /\ CallsOK' /\ todo' \in Seq(ValidSeed) /\ Held' \subseteq Held
<1>1. CallsTyped'
  BY DEF IInv, CallsTyped, Goto
<1>2. CallsOK'
  BY DEF IInv, CallsTyped, CallsOK, Goto
<1>3. Held' \subseteq Held
  <2>1. \A b \in Actors : Holds(b)' => Holds(b) /\ rg'[b] = rg[b]
    BY DEF IInv, CallsTyped, Goto, Holds
  <2> QED
    BY <2>1 DEF Held
<1> QED
  BY <1>1, <1>2, <1>3 DEF IInv

\* A request arrives; it holds no version yet.
LEMMA CallStarts ==
  ASSUME IInv, NEW a \in Actors, NEW g \in Group, NEW o \in {"create", "update", "delete"},
         NEW l \in {"fetch", "save"}, pc[a] = "idle", Goto(a, l),
         op' = [op EXCEPT ![a] = o], rg' = [rg EXCEPT ![a] = g], todo' = todo, used' = used,
         l = "save" => o = "delete" /\ g.guid \in used
  PROVE  CallsTyped' /\ CallsOK' /\ todo' \in Seq(ValidSeed) /\ Held' \subseteq Held
<1>1. CallsTyped'
  BY RouterGroupsAssumption DEF RouterGroupsAssumption, IInv, CallsTyped, Goto
<1>2. CallsOK'
  BY DEF IInv, CallsTyped, CallsOK, Goto
<1>3. Held' \subseteq Held
  <2>1. \A b \in Actors : Holds(b)' => Holds(b) /\ rg'[b] = rg[b]
    BY DEF IInv, CallsTyped, Goto, Holds
  <2> QED
    BY <2>1 DEF Held
<1> QED
  BY <1>1, <1>2, <1>3 DEF IInv

\* A call takes up a version to be saved.
LEMMA CallHolds ==
  ASSUME IInv, NEW a \in Actors, NEW v \in Group, v.guid \in used', used \subseteq used',
         NEW o \in {"create", "update"}, Goto(a, "save"),
         op' = [op EXCEPT ![a] = o], rg' = [rg EXCEPT ![a] = v]
  PROVE  CallsTyped' /\ CallsOK' /\ Held' \subseteq Held \cup {v}
<1>1. CallsTyped'
  BY RouterGroupsAssumption DEF RouterGroupsAssumption, IInv, CallsTyped, Goto
<1>2. CallsOK'
  BY DEF IInv, CallsTyped, CallsOK, Goto
<1>3. Held' \subseteq Held \cup {v}
  <2>1. \A b \in Actors \ {a} : Holds(b)' => Holds(b) /\ rg'[b] = rg[b]
    BY DEF IInv, CallsTyped, Goto, Holds
  <2>2. rg'[a] = v
    BY DEF IInv, CallsTyped
  <2> QED
    BY <2>1, <2>2 DEF Held
<1> QED
  BY <1>1, <1>2, <1>3

\* A step that leaves the table alone and adds no version keeps the invariant.
LEMMA TableUntouched ==
  ASSUME IInv, table' = table, used' = used,
         starts' \in 0..MaxStarts, fails' \in 0..MaxFails,
         CallsTyped', CallsOK', todo' \in Seq(ValidSeed), Held' \subseteq Held
  PROVE  IInv'
<1>1. VersionsOK'
  <2>1. Versions' \subseteq Versions
    BY DEF Versions
  <2> QED
    BY <2>1, NoNewVersion DEF IInv
<1>2. StoreTyped'
  BY DEF IInv, StoreTyped
<1>3. NamesUnique'
  BY DEF IInv, NamesUnique
<1> QED
  BY <1>1, <1>2, <1>3 DEF IInv

-----------------------------------------------------------------------------
(* The actions.                                                             *)

\* The request's group is held under a guid not drawn before.
LEMMA CreateFetchStep ==
  ASSUME IInv, NEW h \in Handlers, CreateFetch(h) PROVE IInv'
<1>1. h \in Actors /\ rg[h] \in Group
  BY DEF Actors, IInv, CallsTyped, CreateFetch
<1>2. starts' \in 0..MaxStarts /\ fails' \in 0..MaxFails
  BY DEF IInv, StoreTyped, CreateFetch
<1>3. CASE Return(h, FALSE) /\ UNCHANGED used
  BY <1>1, <1>2, <1>3, CallReturns, TableUntouched, Zenon DEF CreateFetch
<1>4. CASE ~(Return(h, FALSE) /\ UNCHANGED used)
  <2>1. /\ GroupValid(rg[h])
        /\ \E guid \in Guids \ used :
              /\ used' = used \cup {guid}
              /\ rg' = [rg EXCEPT ![h].guid = guid]
              /\ Goto(h, "save")
              /\ UNCHANGED <<op, todo>>
    BY <1>4, Zenon DEF CreateFetch
  <2>2. PICK guid \in Guids \ used :
              /\ used' = used \cup {guid}
              /\ rg' = [rg EXCEPT ![h].guid = guid]
              /\ Goto(h, "save")
              /\ UNCHANGED <<op, todo>>
    BY <2>1, Zenon
  <2> DEFINE v == [rg[h] EXCEPT !.guid = guid]
  <2>3. v \in Group /\ v.guid = guid /\ GroupValid(v)
    <3>1. v \in Group /\ v.guid = guid /\ v.name = rg[h].name
            /\ v.type = rg[h].type /\ v.ports = rg[h].ports
      BY <1>1 DEF Group
    <3> HIDE DEF v
    <3> QED
      BY <2>1, <3>1, ValidAlike
  <2>4. rg' = [rg EXCEPT ![h] = v] /\ op' = [op EXCEPT ![h] = "create"]
    BY <1>1, <2>2 DEF IInv, CallsTyped, CreateFetch
  <2> HIDE DEF v
  <2>5. CallsTyped' /\ CallsOK' /\ Held' \subseteq Held \cup {v}
    BY <1>1, <2>2, <2>3, <2>4, CallHolds, Zenon
  <2>6. VersionsOK'
    <3>1. Versions' \subseteq Versions \cup {v}
      BY <2>5 DEF Versions, CreateFetch
    <3> QED
      BY <2>2, <2>3, <3>1, OneNewVersion DEF IInv, GoodVersion
  <2>7. StoreTyped' /\ NamesUnique' /\ todo' \in Seq(ValidSeed)
    BY <2>2 DEF CreateFetch, IInv, StoreTyped, NamesUnique
  <2> QED
    BY <2>5, <2>6, <2>7 DEF IInv
<1> QED
  BY <1>3, <1>4, Zenon

\* The stored group is held with the ports of the request.
LEMMA UpdateFetchStep ==
  ASSUME IInv, NEW h \in Handlers, UpdateFetch(h) PROVE IInv'
<1>1. h \in Actors /\ rg[h] \in Group
  BY DEF Actors, IInv, CallsTyped, UpdateFetch
<1>2. starts' \in 0..MaxStarts /\ fails' \in 0..MaxFails
  BY DEF IInv, StoreTyped, UpdateFetch
<1>3. CASE Return(h, FALSE)
  BY <1>1, <1>2, <1>3, CallReturns, TableUntouched, Zenon DEF UpdateFetch
<1>4. CASE ~Return(h, FALSE)
  <2>1. PICK r \in Stored(rg[h].guid) :
          /\ GroupValid([r EXCEPT !.ports = rg[h].ports])
          /\ Goto(h, "save")
          /\ rg' = [rg EXCEPT ![h] = [r EXCEPT !.ports = rg[h].ports]]
          /\ UNCHANGED <<op, todo>>
    BY <1>4, Zenon DEF UpdateFetch
  <2>2. r \in table /\ r \in Group /\ r.guid \in used
    BY DEF Stored, IInv, StoreTyped
  <2> DEFINE v == [r EXCEPT !.ports = rg[h].ports]
  <2>3. /\ v \in Group /\ GroupValid(v)
        /\ v.guid = r.guid /\ v.name = r.name /\ v.type = r.type
    BY <1>1, <2>1, <2>2, SMTT(60) DEF Group
  <2>4. rg' = [rg EXCEPT ![h] = v] /\ op' = [op EXCEPT ![h] = "update"]
    BY <1>1, <2>1 DEF IInv, CallsTyped, UpdateFetch
  <2> HIDE DEF v
  <2>5. CallsTyped' /\ CallsOK' /\ Held' \subseteq Held \cup {v}
    BY <1>1, <2>1, <2>2, <2>3, <2>4, CallHolds, Zenon DEF UpdateFetch
  <2>6. VersionsOK'
    <3>1. Versions' \subseteq Versions \cup {v}
      BY <2>5 DEF Versions, UpdateFetch
    <3> QED
      BY <2>2, <2>3, <3>1, OneNewVersion
      DEF IInv, GoodVersion, SameIdentity, UpdateFetch
  <2>7. StoreTyped' /\ NamesUnique' /\ todo' \in Seq(ValidSeed)
    BY <2>1 DEF UpdateFetch, IInv, StoreTyped, NamesUnique
  <2> QED
    BY <2>5, <2>6, <2>7 DEF IInv
<1> QED
  BY <1>3, <1>4, Zenon

\* When the row is there, the merged group is the one held before.
LEMMA FindStep ==
  ASSUME IInv, NEW a \in Actors, Find(a) PROVE IInv'
<1>1. /\ pc[a] = "find" /\ rg[a] \in Group /\ table' = table /\ used' = used
      /\ starts' \in 0..MaxStarts /\ fails' \in 0..MaxFails
  BY DEF Find, IInv, CallsTyped, StoreTyped
<1>2. CASE Return(a, TRUE)
  BY <1>1, <1>2, CallReturns, TableUntouched, Zenon
<1>3. CASE op[a] # "delete" /\ Goto(a, "insert") /\ UNCHANGED <<op, rg, todo>>
  BY <1>1, <1>3, CallGoesOn, TableUntouched
<1>4. CASE op[a] = "delete" /\ Goto(a, "delete") /\ UNCHANGED <<op, rg, todo>>
  BY <1>1, <1>4, CallGoesOn, TableUntouched
<1>5. ASSUME NEW r \in Stored(rg[a].guid), op[a] # "delete", Goto(a, "update"),
             rg' = [rg EXCEPT ![a] = Merge(r, rg[a])], UNCHANGED <<op, todo>>
      PROVE  IInv'
  <2>1. r \in Group /\ r.guid = rg[a].guid
    BY DEF Stored, IInv, StoreTyped
  <2>2. GroupValid(rg[a])
    BY <1>1, <1>5 DEF IInv, VersionsOK, GoodVersion, Versions, Held, Holds
  <2>3. rg' = rg
    BY <1>1, <1>5, <2>1, <2>2, MergeIsNew DEF IInv, CallsTyped
  <2>4. CallsTyped' /\ CallsOK'
    BY <1>1, <1>5, <2>3 DEF IInv, CallsTyped, CallsOK, Goto
  <2>5. Held' \subseteq Held
    <3>1. \A b \in Actors : Holds(b)' => Holds(b)
      BY <1>1, <1>5 DEF IInv, CallsTyped, Goto, Holds
    <3> QED
      BY <2>3, <3>1 DEF Held
  <2> QED
    BY <1>1, <1>5, <2>4, <2>5, TableUntouched DEF IInv
<1> QED
  BY <1>2, <1>3, <1>4, <1>5, Zenon DEF Find

\* Insert and Update: the version written was held, and no other row has its
\* name; the row of its guid, if there is one, is replaced.
LEMMA WriteStep ==
  ASSUME IInv, NEW a \in Actors, Insert(a) \/ Update(a) PROVE IInv'
<1>1. /\ Holds(a) /\ rg[a] \in Group /\ used' = used /\ rg[a].guid \in used
      /\ starts' \in 0..MaxStarts /\ fails' \in 0..MaxFails
  BY Zenon DEF Insert, Update, IInv, CallsTyped, CallsOK, StoreTyped, Holds
<1>2. \E err \in BOOLEAN : Return(a, err)
  BY Zenon DEF Insert, Update
<1>3. CallsTyped' /\ CallsOK' /\ todo' \in Seq(ValidSeed) /\ Held' \subseteq Held
  BY <1>1, <1>2, CallReturns
<1>4. CASE table' = table
  BY <1>1, <1>3, <1>4, TableUntouched
<1>5. CASE NameFree(rg[a]) /\ table' = (table \ Stored(rg[a].guid)) \cup {rg[a]}
  <2>1. Versions' \subseteq Versions
    BY <1>1, <1>3, <1>5, Zenon DEF Versions, Held
  <2>2. VersionsOK'
    BY <1>1, <2>1, NoNewVersion DEF IInv
  <2>3. StoreTyped'
    BY <1>1, <1>5 DEF IInv, StoreTyped, Stored
  <2>4. NamesUnique'
    BY <1>5 DEF IInv, NamesUnique, NameFree, Stored
  <2> QED
    BY <1>3, <2>2, <2>3, <2>4 DEF IInv
<1> QED
  BY <1>4, <1>5, Zenon DEF Insert, Update

\* UpdateOver: one row changes, the one of that name, and keeps guid and name.
LEMMA WriteOverStep ==
  ASSUME IInv, NEW a \in Actors, UpdateOver(a) PROVE IInv'
<1>1. /\ Holds(a) /\ rg[a] \in Group /\ used' = used /\ rg[a] \in Versions
      /\ starts' \in 0..MaxStarts /\ fails' \in 0..MaxFails
  BY Zenon DEF UpdateOver, IInv, CallsTyped, CallsOK, StoreTyped, Holds, Held, Versions
<1>2. CallsTyped' /\ CallsOK' /\ todo' \in Seq(ValidSeed) /\ Held' \subseteq Held
  BY CallReturns, Zenon DEF UpdateOver
<1>3. PICK s \in table : s.name = rg[a].name
  BY DEF UpdateOver, TakesOver, NameFree
<1> DEFINE v == [rg[a] EXCEPT !.guid = s.guid]
<1>4. s \in Group /\ s.guid \in used
  BY DEF IInv, StoreTyped
<1>5. /\ v \in Group
      /\ v.guid = s.guid /\ v.name = rg[a].name /\ v.type = rg[a].type
      /\ v.ports = rg[a].ports
  BY <1>1, <1>4 DEF Group
<1>6. table' = (table \ {s}) \cup {v}
  <2>1. \A r \in table : r.name = rg[a].name <=> r = s
    BY <1>3 DEF IInv, NamesUnique
  <2> QED
    BY <1>3, <2>1 DEF UpdateOver
<1> HIDE DEF v
<1>7. VersionsOK'
  <2>1. GoodVersion(v)
    BY <1>1, <1>5, ValidAlike DEF IInv, VersionsOK, GoodVersion
  <2>2. SameIdentity(v, s)
    BY <1>3, <1>5 DEF SameIdentity, UpdateOver, TakesOver
  <2>3. Versions' \subseteq Versions \cup {v}
    BY <1>2, <1>6 DEF Versions
  <2> QED
    BY <1>1, <1>4, <1>5, <2>1, <2>2, <2>3, OneNewVersion DEF IInv
<1>8. StoreTyped'
  BY <1>1, <1>4, <1>5, <1>6 DEF IInv, StoreTyped
<1>9. NamesUnique'
  BY <1>3, <1>5, <1>6 DEF IInv, NamesUnique
<1> QED
  BY <1>2, <1>7, <1>8, <1>9 DEF IInv

LEMMA DeleteStep ==
  ASSUME IInv, NEW a \in Actors, Delete(a) PROVE IInv'
<1>1. CallsTyped' /\ CallsOK' /\ todo' \in Seq(ValidSeed) /\ Held' \subseteq Held
  BY CallReturns, Zenon DEF Delete
<1>2. table' \subseteq table /\ used' = used
  BY DEF Delete
<1>3. VersionsOK'
  <2>1. Versions' \subseteq Versions
    BY <1>1, <1>2 DEF Versions
  <2> QED
    BY <1>2, <2>1, NoNewVersion DEF IInv
<1>4. StoreTyped' /\ NamesUnique'
  BY <1>2 DEF Delete, IInv, StoreTyped, NamesUnique
<1> QED
  BY <1>1, <1>3, <1>4 DEF IInv

\* A configured group is held under a guid not drawn before.
LEMMA SeedNextStep ==
  ASSUME IInv, SeedNext PROVE IInv'
<1>1. Seeder \in Actors
  BY DEF Actors
<1>2. PICK guid \in Guids \ used :
        /\ used' = used \cup {guid}
        /\ rg' = [rg EXCEPT ![Seeder] =
             [guid |-> guid, name |-> Head(todo).name, type |-> Head(todo).type,
              ports |-> Head(todo).ports]]
  BY Zenon DEF SeedNext
<1> DEFINE v == [guid |-> guid, name |-> Head(todo).name, type |-> Head(todo).type,
                 ports |-> Head(todo).ports]
<1>3. Head(todo) \in ValidSeed /\ Tail(todo) \in Seq(ValidSeed)
  BY DEF SeedNext, IInv
<1>4. v \in Group /\ v.guid = guid /\ GroupValid(v)
  <2>1. v \in Group /\ GroupValid(Head(todo))
    BY <1>3 DEF ValidSeed, Group
  <2> QED
    BY <2>1, ValidAlike
<1>5. rg' = [rg EXCEPT ![Seeder] = v] /\ Goto(Seeder, "save")
        /\ op' = [op EXCEPT ![Seeder] = "create"]
  BY <1>2, Zenon DEF SeedNext
<1> HIDE DEF v
<1>6. CallsTyped' /\ CallsOK' /\ Held' \subseteq Held \cup {v}
  BY <1>1, <1>2, <1>4, <1>5, CallHolds, ZenonT(60)
<1>7. VersionsOK'
  <2>1. Versions' \subseteq Versions \cup {v}
    BY <1>6, SMTT(60) DEF Versions, SeedNext
  <2> QED
    BY <1>2, <1>4, <2>1, OneNewVersion DEF IInv, GoodVersion
<1>8. StoreTyped' /\ NamesUnique' /\ todo' \in Seq(ValidSeed)
  BY <1>2, <1>3 DEF SeedNext, IInv, StoreTyped, NamesUnique
<1> QED
  BY <1>6, <1>7, <1>8 DEF IInv

LEMMA CrashStep ==
  ASSUME IInv, Crash PROVE IInv'
<1>1. CallsTyped' /\ CallsOK'
  BY DEF Crash, IInv, CallsTyped, CallsOK
<1>2. Held' \subseteq Held
  <2>1. \A b \in Actors : Holds(b)' => Holds(b) /\ rg'[b] = rg[b]
    BY DEF Crash, Holds
  <2> QED
    BY <2>1 DEF Held
<1>3. fails' \in 0..MaxFails /\ starts' \in 0..MaxStarts
  BY RouterGroupsAssumption DEF RouterGroupsAssumption, Crash, IInv, StoreTyped
<1> QED
  BY <1>1, <1>2, <1>3, TableUntouched DEF Crash, IInv

LEMMA RequestStep ==
  ASSUME IInv, NEW h \in Handlers,
         \/ \E g \in Bodies : CreateRouterGroup(h, g)
         \/ \E g \in Updates : UpdateRouterGroup(h, g)
         \/ \E g \in Deletes : DeleteRouterGroup(h, g)
  PROVE  IInv'
<1>1. h \in Actors /\ starts \in 0..MaxStarts /\ fails \in 0..MaxFails
  BY DEF Actors, IInv, StoreTyped
<1>2. "" \in STRING /\ <<>> \in Seq(Seq(Int)) /\ used \subseteq Guids
  <2>1. "" \in STRING
    <3>1. "" \in Names /\ Names \subseteq STRING
      BY RouterGroupsAssumption, EmptyNameAssumption, Zenon
         DEF RouterGroupsAssumption, EmptyNameAssumption
    <3> QED
      BY <3>1, Zenon
  <2>2. <<>> \in Seq(Seq(Int))
    OBVIOUS
  <2> QED
    BY <2>1, <2>2, Zenon DEF IInv, StoreTyped
<1>3. Bodies \subseteq Group /\ Updates \subseteq Group /\ Deletes \subseteq Group
  BY <1>2, RouterGroupsAssumption, ZenonT(60)
     DEF RouterGroupsAssumption, Bodies, Updates, Deletes, Group
<1>4. ASSUME NEW g \in Bodies, CreateRouterGroup(h, g) PROVE IInv'
  BY <1>1, <1>3, <1>4, CallStarts, TableUntouched, Zenon DEF CreateRouterGroup
<1>5. ASSUME NEW g \in Updates, UpdateRouterGroup(h, g) PROVE IInv'
  BY <1>1, <1>3, <1>5, CallStarts, TableUntouched, Zenon DEF UpdateRouterGroup
<1>6. ASSUME NEW g \in Deletes, DeleteRouterGroup(h, g) PROVE IInv'
  <2>1. g.guid \in used
    BY Zenon DEF Deletes
  <2> QED
    BY <1>1, <1>3, <1>6, <2>1, CallStarts, TableUntouched, Zenon
    DEF DeleteRouterGroup
<1> QED
  BY <1>4, <1>5, <1>6

LEMMA NextInvariant == IInv /\ [Next]_vars => IInv'
<1> SUFFICES ASSUME IInv, [Next]_vars PROVE IInv'
  OBVIOUS
<1>0. starts \in 0..MaxStarts /\ fails \in 0..MaxFails /\ MaxStarts \in Nat
        /\ MaxFails \in Nat
  BY RouterGroupsAssumption DEF RouterGroupsAssumption, IInv, StoreTyped
<1>1. ASSUME NEW h \in Handlers,
             \/ \E g \in Bodies : CreateRouterGroup(h, g)
             \/ \E g \in Updates : UpdateRouterGroup(h, g)
             \/ \E g \in Deletes : DeleteRouterGroup(h, g)
      PROVE  IInv'
  BY <1>1, RequestStep
<1>2. ASSUME NEW h \in Handlers, CreateFetch(h) \/ UpdateFetch(h) PROVE IInv'
  BY <1>2, CreateFetchStep, UpdateFetchStep
<1>3. ASSUME NEW a \in Actors, GuardWrite(a) PROVE IInv'
  BY <1>0, <1>3, CallReturns, CallGoesOn, TableUntouched, Zenon DEF GuardWrite
<1>4. ASSUME NEW a \in Actors, GuardRead(a) PROVE IInv'
  BY <1>0, <1>4, CallReturns, CallGoesOn, TableUntouched, Zenon DEF GuardRead
<1>5. ASSUME NEW a \in Actors,
             Find(a) \/ Insert(a) \/ Update(a) \/ UpdateOver(a) \/ Delete(a)
      PROVE  IInv'
  BY <1>5, FindStep, WriteStep, WriteOverStep, DeleteStep
<1>6. ASSUME NEW a \in Actors, StatementFails(a) PROVE IInv'
  <2>1. fails' \in 0..MaxFails
    BY <1>0, <1>6 DEF StatementFails
  <2> QED
    BY <1>0, <1>6, <2>1, CallReturns, TableUntouched, Zenon DEF StatementFails
<1>7. ASSUME table' = table, pc' = pc, op' = op, rg' = rg, used' = used,
             todo' \in Seq(ValidSeed),
             starts' \in 0..MaxStarts, fails' \in 0..MaxFails
      PROVE  IInv'
  <2>1. CallsTyped' /\ CallsOK'
    BY <1>7 DEF IInv, CallsTyped, CallsOK
  <2>2. Held' \subseteq Held
    BY <1>7 DEF Held, Holds
  <2> QED
    BY <1>7, <2>1, <2>2, TableUntouched
<1>8. CASE SetLocks \/ UNCHANGED vars
  BY <1>0, <1>7, <1>8 DEF SetLocks, vars, IInv
<1>9. CASE Seed
  <2>1. starts' \in 0..MaxStarts /\ fails' \in 0..MaxFails
    BY <1>0, <1>9 DEF Seed
  <2> QED
    BY <1>7, <1>9, <2>1, SeedsValid DEF Seed
<1>10. CASE SeedNext
  BY <1>10, SeedNextStep
<1>11. CASE Crash
  BY <1>11, CrashStep
<1> QED
  BY <1>1, <1>2, <1>3, <1>4, <1>5, <1>6, <1>8, <1>9, <1>10, <1>11 DEF Next, Step

THEOREM Invariant == Spec => []IInv
BY InitInvariant, NextInvariant, PTL DEF Spec

-----------------------------------------------------------------------------
(* What follows.                                                            *)

LEMMA LocksAlways == Spec => []LocksOK
<1>1. Init => LocksOK
  BY Zenon DEF Init, LocksOK
<1>2. LocksOK /\ [Next]_vars => LocksOK'
  <2> SUFFICES ASSUME LocksOK, [Next]_vars PROVE LocksOK'
    OBVIOUS
  <2>1. UNCHANGED lockVars => LocksOK'
    BY DEF lockVars, LocksOK
  <2>2. SetLocks => LocksOK'
    BY DEF SetLocks, LocksOK
  <2>3. Crash => LocksOK'
    BY ZenonT(60) DEF Crash, LocksOK
  <2> QED
    BY <2>1, <2>2, <2>3, ZenonT(60)
    DEF Next, Step, vars, lockVars, CreateRouterGroup,
       UpdateRouterGroup, DeleteRouterGroup, CreateFetch, UpdateFetch, GuardWrite,
       GuardRead, Find, Insert, Update, UpdateOver, Delete, StatementFails, Seed,
       SeedNext
<1> QED
  BY <1>1, <1>2, PTL DEF Spec

\* RouterGroups: the type invariant, for every number of requests.
THEOREM TypeCorrect == Spec => []TypeOK
<1>1. IInv /\ LocksOK => TypeOK
  BY Zenon DEF IInv, StoreTyped, CallsTyped, LocksOK, TypeOK
<1> QED
  BY Invariant, LocksAlways, <1>1, PTL

\* Handlers, seeding and SaveRouterGroup's merge: stored router groups are valid.
THEOREM GroupsValidAlways == Spec => []GroupsValid
<1>1. IInv => GroupsValid
  BY DEF IInv, VersionsOK, GoodVersion, Versions, GroupsValid
<1> QED
  BY Invariant, <1>1, PTL

\* ReservablePorts.Validate, for port numbers of every width: the ports of stored
\* groups are reservable and listed once.
THEOREM ValidPortsOnceAlways == Spec => []ValidPortsOnce
<1>1. IInv => ValidPortsOnce
  <2> SUFFICES ASSUME IInv, NEW g \in table PROVE
        LET ranges == Parse(g.ports) IN
        /\ \A i \in 1..Len(g.ports) : PortsOf(ranges[i]) \subseteq MinPort..PortMax
        /\ \A i, j \in 1..Len(g.ports) : \A q \in Port :
             q \in PortsOf(ranges[i]) /\ q \in PortsOf(ranges[j]) => i = j
        /\ FailOnConflict =>
             \A i \in 1..Len(g.ports) : PortsOf(ranges[i]) \cap ReservedPorts = {}
    BY DEF ValidPortsOnce
  <2>1. g.ports \in Seq(Seq(Int)) /\ GroupValid(g)
    BY DEF IInv, StoreTyped, VersionsOK, GoodVersion, Versions, Group
  <2>2. CASE g.ports = <<>>
    BY <2>2
  <2>3. CASE g.ports # <<>>
    <3>1. Validate(g.ports)
      BY <2>1, <2>3, Zenon DEF GroupValid
    <3> QED
      BY <2>1, <3>1, ValidatedPorts
  <2> QED
    BY <2>2, <2>3
<1> QED
  BY Invariant, <1>1, PTL

\* "Only the `reservable_ports` field may be updated" (docs/02-api-docs.md), for
\* any number of concurrent requests: the table only ever takes in versions that
\* share the identity of the versions stored or held under their guid.
THEOREM OnlyPortsUpdatedAlways == Spec => OnlyPortsUpdated
<1>1. IInv /\ [Next]_vars =>
        [\A g \in table, h \in table' : g.guid = h.guid =>
           g.name = h.name /\ (~MySQL => g.type = h.type)]_vars
  <2> SUFFICES ASSUME IInv, Next, NEW g \in table, NEW h \in table', g.guid = h.guid
               PROVE  SameIdentity(g, h)
    BY DEF SameIdentity
  <2>1. CASE table' \subseteq Versions
    BY <2>1 DEF IInv, VersionsOK, Versions
  <2>2. ASSUME NEW a \in Actors, UpdateOver(a) PROVE SameIdentity(g, h)
    <3>1. PICK r \in table :
            h = IF r.name = rg[a].name THEN [rg[a] EXCEPT !.guid = r.guid] ELSE r
      BY <2>2 DEF UpdateOver
    <3>2. rg[a] \in Group /\ MySQL
      BY <2>2, Zenon DEF UpdateOver, TakesOver, IInv, CallsTyped
    <3>3. h.guid = r.guid /\ h.name = r.name
      BY <3>1, <3>2 DEF Group
    <3>4. r = g
      BY <3>3 DEF IInv, StoreTyped
    <3> QED
      BY <3>2, <3>3, <3>4 DEF SameIdentity
  <2>3. table' \subseteq Versions \/ \E a \in Actors : UpdateOver(a)
    <3>1. \A a \in Actors : Insert(a) \/ Update(a) => table' \subseteq Versions
      BY Zenon DEF Insert, Update, IInv, CallsOK, Versions, Held, Holds
    <3>2. \A a \in Actors : Delete(a) => table' \subseteq Versions
      BY DEF Delete, Versions
    <3>3. table' = table => table' \subseteq Versions
      BY DEF Versions
    <3> QED
      BY <3>1, <3>2, <3>3, Zenon DEF Next, Step, CreateRouterGroup,
         UpdateRouterGroup, DeleteRouterGroup, CreateFetch, UpdateFetch, GuardWrite,
         GuardRead, Find, StatementFails, SetLocks, Seed, SeedNext, Crash
  <2> QED
    BY <2>1, <2>2, <2>3
<1> QED
  BY Invariant, <1>1, PTL DEF Spec, OnlyPortsUpdated

\* rwLocker: the test in SaveRouterGroup and DeleteRouterGroup is the only way for
\* a request to begin writing, and it sees the lock while the lock is set.
THEOREM NoNewWritesAlways == Spec => NoNewWrites
<1>1. IInv /\ [Next]_vars =>
        [writeLock /\ writeLock' => Writing' \subseteq Writing]_vars
  <2> SUFFICES ASSUME IInv, Next, writeLock, writeLock', NEW h \in Writing'
               PROVE  h \in Writing
    OBVIOUS
  <2>1. h \in Handlers /\ h # Seeder /\ h \in Actors
    BY RouterGroupsAssumption DEF Writing, Actors
  <2>2. pc'[h] \in {"guarded", "find", "insert", "update", "delete"}
    BY DEF Writing
  <2>3. DOMAIN pc = Actors
    BY DEF IInv, CallsTyped
  <2>4. pc'[h] = pc[h] \/ (\E a \in Actors : Step(a))
    <3>1. ASSUME NEW a \in Actors, NEW l \in {"idle", "fetch", "save"},
                 pc' = [pc EXCEPT ![a] = l]
          PROVE  pc'[h] = pc[h]
      BY <2>1, <2>2, <2>3, <3>1
    <3>2. ASSUME NEW g \in Handlers,
                 \/ \E x \in Bodies : CreateRouterGroup(g, x)
                 \/ \E x \in Updates : UpdateRouterGroup(g, x)
                 \/ \E x \in Deletes : DeleteRouterGroup(g, x)
                 \/ CreateFetch(g) \/ UpdateFetch(g)
          PROVE  pc'[h] = pc[h]
      <4>1. \E l \in {"idle", "fetch", "save"} : pc' = [pc EXCEPT ![g] = l]
        BY <3>2, Zenon DEF CreateRouterGroup, UpdateRouterGroup, DeleteRouterGroup,
           CreateFetch, UpdateFetch, Goto, Return
      <4> QED
        BY <3>1, <4>1, Zenon DEF Actors
    <3>3. ASSUME NEW a \in Actors, StatementFails(a) PROVE pc'[h] = pc[h]
      BY <3>1, <3>3, Zenon DEF StatementFails, Return
    <3>4. CASE SetLocks \/ Seed
      BY <3>4 DEF SetLocks, Seed
    <3>5. CASE SeedNext
      BY <3>1, <3>5, Zenon DEF SeedNext, Goto, Actors
    <3>6. CASE Crash
      BY <2>1, <2>2, <3>6 DEF Crash
    <3> QED
      BY <3>2, <3>3, <3>4, <3>5, <3>6, Zenon DEF Next
  <2>5. ASSUME NEW a \in Actors, Step(a), pc'[h] # pc[h]
        PROVE  pc[h] \in {"guarded", "find", "insert", "update", "delete"}
    <3>1. a = h
      BY <2>1, <2>3, <2>5 DEF Step, GuardWrite, GuardRead, Find, Insert, Update,
         UpdateOver, Delete, Goto, Return
    <3>2. ~GuardWrite(a)
      BY <2>1, <2>2, <2>3, <3>1 DEF GuardWrite, Return
    <3> QED
      BY <2>5, <3>1, <3>2, ZenonT(60) 
      DEF Step, GuardRead, Find, Insert, Update, UpdateOver, Delete
  <2> QED
    BY <2>1, <2>2, <2>4, <2>5 DEF Writing
<1> QED
  BY Invariant, <1>1, PTL DEF Spec, NoNewWrites

=============================================================================
