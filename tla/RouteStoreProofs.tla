--------------------------- MODULE RouteStoreProofs ---------------------------
(***************************************************************************)
(* Proofs about RouteStore, for every set of clients, keys and pruning     *)
(* goroutines and every value of the bounds.                               *)
(***************************************************************************)
EXTENDS RouteStore, TLAPS

-----------------------------------------------------------------------------
(* Operators.                                                               *)

\* The copy updateRoute makes, and the row NewRoute makes, are rows.
LEMMA UpdatedRow ==
  ASSUME NEW r \in Row, NEW ttl \in TTLs, now \in Nat
  PROVE  /\ updateRoute(r, ttl) \in Row
         /\ updateRoute(r, ttl).guid = r.guid
         /\ updateRoute(r, ttl).key = r.key
         /\ updateRoute(r, ttl).index = r.index + 1
BY ConstantsAssumption DEF ConstantsAssumption, updateRoute, Row

LEMMA FreshRow ==
  ASSUME NEW g \in Guids, NEW k \in Keys, NEW ttl \in TTLs, now \in Nat
  PROVE  /\ NewRoute(g, k, ttl) \in Row
         /\ NewRoute(g, k, ttl).guid = g
         /\ NewRoute(g, k, ttl).key = k
         /\ NewRoute(g, k, ttl).index = 0
BY ConstantsAssumption DEF ConstantsAssumption, NewRoute, Row

\* A row whose expires_at is replaced is a row, otherwise the same.
LEMMA StoredRow ==
  ASSUME NEW r \in Row, NEW s \in Int
  PROVE  /\ [r EXCEPT !.exp = s] \in Row
         /\ [r EXCEPT !.exp = s].guid = r.guid
         /\ [r EXCEPT !.exp = s].key = r.key
         /\ [r EXCEPT !.exp = s].index = r.index
         /\ [r EXCEPT !.exp = s].due = r.due
         /\ [r EXCEPT !.exp = s].exp = s
BY Zenon DEF Row

\* The expires_at column is less than a second off.
LEMMA StoredPrecision ==
  ASSUME NEW t \in Int, NEW s \in Stored(t)
  PROVE  s \in Int /\ t - Second < s
BY ConstantsAssumption DEF ConstantsAssumption, Stored

LEMMA GuidsOfRows ==
  ASSUME NEW R, R \subseteq Row
  PROVE  GuidsOf(R) \subseteq Guids
BY Zenon DEF GuidsOf, Row

-----------------------------------------------------------------------------
(* Type correctness.                                                        *)

LEMMA TypeInit == Init => TypeOK
BY SMTT(60) DEF Init, TypeOK, ClientPc, JobPc

LEMMA TypeNext == TypeOK /\ [Next]_vars => TypeOK'
<1> SUFFICES ASSUME TypeOK, [Next]_vars
             PROVE  TypeOK'
  OBVIOUS
<1> USE DEF TypeOK, ClientPc, JobPc, clientVars, pruneVars
<1>1. ASSUME NEW c \in Clients, NEW k \in Keys, NEW ttl \in TTLs,
             SaveRouteExisting(c, k, ttl)
      PROVE  TypeOK'
  BY <1>1, UpdatedRow DEF SaveRouteExisting
<1>2. ASSUME NEW c \in Clients, NEW k \in Keys, NEW ttl \in TTLs,
             SaveRouteNew(c, k, ttl)
      PROVE  TypeOK'
  BY <1>2, FreshRow DEF SaveRouteNew
<1>3. ASSUME NEW c \in Clients, NEW k \in Keys, DeleteRoute(c, k)
      PROVE  TypeOK'
  BY <1>3, Zenon DEF DeleteRoute
<1>4. ASSUME NEW c \in Clients, NEW from \in {"save", "create"},
             NEW to \in {"emitUpdate", "emitCreate"}, WriteRoute(c, from, to)
      PROVE  TypeOK'
  <2>1. cur[c] \in Row
    BY <1>4, Zenon DEF WriteRoute
  <2>2. cur[c].due \in Int
    BY <2>1 DEF Row
  <2>3. PICK s \in Stored(cur[c].due) :
           /\ rows' = Upsert([cur[c] EXCEPT !.exp = s])
           /\ lapsed' = lapsed \cup PastDue({[cur[c] EXCEPT !.exp = s]}, now)
    BY <1>4, Zenon DEF WriteRoute
  <2>4. [cur[c] EXCEPT !.exp = s] \in Row
    BY <2>1, <2>2, StoredRow, StoredPrecision, Zenon
  <2>5. rows' \subseteq Row
    BY <2>3, <2>4, Zenon DEF Upsert
  <2>6. lapsed' \subseteq Guids
    BY <2>3, <2>4, Zenon DEF PastDue, GuidsOf, Row
  <2>7. QED
    BY <1>4, <2>5, <2>6, Zenon DEF WriteRoute
<1>5. ASSUME NEW c \in Clients, EmitSaved(c)
      PROVE  TypeOK'
  <2>1. cur[c] \in Row
    BY <1>5, Zenon DEF EmitSaved
  <2>2. cur[c].guid \in Guids /\ cur[c].index \in Int
    BY <2>1 DEF Row
  <2>3. QED
    BY <1>5, <2>2, Zenon DEF EmitSaved, Return
<1>6. ASSUME NEW c \in Clients, DeleteRow(c)
      PROVE  TypeOK'
  BY <1>6, Zenon DEF DeleteRow
<1>7. ASSUME NEW c \in Clients, EmitDeleted(c)
      PROVE  TypeOK'
  <2>1. cur[c].guid \in Guids
    BY <1>7, Zenon DEF EmitDeleted, Row
  <2>2. QED
    BY <1>7, <2>1, Zenon DEF EmitDeleted, Return
<1>8. ASSUME NEW c \in Clients, StatementFails(c)
      PROVE  TypeOK'
  BY <1>8 DEF StatementFails, Return
<1>9. ASSUME NEW j \in Jobs,
             PruneTick(j) \/ PruneDelete(j) \/ PruneDone(j) \/ PruneFails(j)
      PROVE  TypeOK'
  BY <1>9 DEF PruneTick, PruneDelete, PruneDone, PruneFails, PruneReturn
<1>10. ASSUME NEW j \in Jobs, PruneFind(j)
       PROVE  TypeOK'
  BY <1>10, Zenon DEF PruneFind, FindExpiredRoutes
<1>11. ASSUME NEW j \in Jobs, PruneEmit(j)
       PROVE  TypeOK'
  BY <1>11 DEF PruneEmit, Row
<1>12. CASE Tick
  BY <1>12 DEF Tick, PastDue, GuidsOf, Row
<1>13. CASE Crash
  BY <1>13 DEF Crash
<1>14. CASE UNCHANGED vars
  BY <1>14, Zenon DEF vars
<1>15. QED
  BY Zenon, <1>1, <1>2, <1>3, <1>4, <1>5, <1>6, <1>7, <1>8, <1>9, <1>10, <1>11,
     <1>12, <1>13, <1>14
  DEF Next, ClientStep, PruneStep, SaveUpdate, SaveCreate

\* Every variable keeps its type, in particular a client between two
\* statements always holds a row.
THEOREM TypeCorrect == Spec => []TypeOK
BY TypeInit, TypeNext, PTL DEF Spec

-----------------------------------------------------------------------------
(* The pruner and the clock.                                                *)

\* FoundHadExpired is not inductive by itself: it needs the column's precision
\* (a stored expiry is less than a second before the promised one), and
\* RenewedInTimeStays needs every row found to be recorded as lapsed.
PruneInv ==
  /\ \A r \in rows : r.due - Second < r.exp
  /\ \A r \in rows : r.due < now => r.guid \in lapsed
  /\ \A j \in Jobs : \A r \in found[j] : r.due < now /\ r.guid \in lapsed

LEMMA PruneInvInit == Init => PruneInv
BY Zenon DEF Init, PruneInv

LEMMA PruneInvNext == TypeOK /\ PruneInv /\ [Next]_vars => PruneInv'
<1> SUFFICES ASSUME TypeOK, PruneInv, [Next]_vars
             PROVE  PruneInv'
  OBVIOUS
<1> USE DEF PruneInv, clientVars, pruneVars
<1>1. ASSUME NEW c \in Clients, NEW from, NEW to, pc[c] # "idle",
             WriteRoute(c, from, to)
      PROVE  PruneInv'
  <2>1. cur[c] \in Row /\ cur[c].due \in Int
    BY <1>1, Zenon DEF TypeOK, Row
  <2>2. PICK s \in Stored(cur[c].due) :
           /\ rows' = Upsert([cur[c] EXCEPT !.exp = s])
           /\ lapsed' = lapsed \cup PastDue({[cur[c] EXCEPT !.exp = s]}, now)
    BY <1>1, Zenon DEF WriteRoute
  <2> DEFINE w == [cur[c] EXCEPT !.exp = s]
  <2>3. w \in Row /\ w.due = cur[c].due /\ w.exp = s /\ w.due - Second < w.exp
    BY <2>1, StoredRow, StoredPrecision
  <2>4. lapsed' = lapsed \cup PastDue({w}, now)
    BY <2>2, Zenon
  <2> HIDE DEF w
  <2>5. \A r \in rows' : r = w \/ r \in rows
    BY <2>2, Zenon DEF Upsert, w
  <2>6. lapsed \subseteq lapsed' /\ now' = now /\ found' = found
    BY <1>1, <2>2, Zenon DEF WriteRoute
  <2>7. w.due < now => w.guid \in lapsed'
    BY <2>4, Zenon DEF PastDue, GuidsOf
  <2>8. QED
    BY <2>3, <2>5, <2>6, <2>7, Zenon
<1>2. ASSUME NEW j \in Jobs, PruneFind(j)
      PROVE  PruneInv'
  <2>1. \A r \in FindExpiredRoutes : r \in rows /\ r.due < now
    <3> SUFFICES ASSUME NEW r \in rows, r.exp < now - Second
                 PROVE  r.due < now
      BY Zenon DEF FindExpiredRoutes
    <3>1. r.due \in Int /\ r.exp \in Int /\ r.due - Second < r.exp
      BY Zenon DEF TypeOK, Row
    <3>2. QED
      BY <3>1, ConstantsAssumption DEF ConstantsAssumption, TypeOK
  <2>2. QED
    BY <1>2, <2>1, Zenon DEF PruneFind, TypeOK
<1>3. ASSUME NEW j \in Jobs, PruneEmit(j) \/ PruneDone(j) \/ PruneFails(j)
      PROVE  PruneInv'
  BY <1>3 DEF PruneEmit, PruneDone, PruneFails, PruneReturn, TypeOK
<1>4. ASSUME NEW j \in Jobs, PruneTick(j) \/ PruneDelete(j)
      PROVE  PruneInv'
  BY <1>4, Zenon DEF PruneTick, PruneDelete
<1>5. CASE Tick
  <2>1. \A r \in rows : r.due < now' => r.guid \in lapsed'
    BY <1>5, Zenon DEF Tick, PastDue, GuidsOf
  <2>2. \A j \in Jobs : \A r \in found[j] : r.due < now'
    <3> SUFFICES ASSUME NEW j \in Jobs, NEW r \in found[j]
                 PROVE  r.due < now'
      OBVIOUS
    <3>1. r.due \in Int /\ r.due < now
      BY DEF TypeOK, Row
    <3>2. QED
      BY <1>5, <3>1 DEF Tick, TypeOK
  <2>3. QED
    BY <1>5, <2>1, <2>2, Zenon DEF Tick
<1>6. CASE Crash
  BY <1>6, Zenon DEF Crash
<1>7. ASSUME UNCHANGED <<now, rows, found, lapsed>>
      PROVE  PruneInv'
  BY <1>7, Zenon
<1>8. ASSUME NEW c \in Clients, DeleteRow(c)
      PROVE  PruneInv'
  BY <1>8, Zenon DEF DeleteRow
<1>9. ASSUME NEW c \in Clients,
             EmitSaved(c) \/ EmitDeleted(c) \/ StatementFails(c)
      PROVE  PruneInv'
  BY <1>7, <1>9, Zenon DEF EmitSaved, EmitDeleted, StatementFails
<1>10. ASSUME NEW c \in Clients, NEW k \in Keys, NEW ttl \in TTLs,
              SaveRouteExisting(c, k, ttl) \/ SaveRouteNew(c, k, ttl)
       PROVE  PruneInv'
  BY <1>7, <1>10, Zenon DEF SaveRouteExisting, SaveRouteNew
<1>11. ASSUME NEW c \in Clients, NEW k \in Keys, DeleteRoute(c, k)
       PROVE  PruneInv'
  BY <1>7, <1>11, Zenon DEF DeleteRoute
<1>12. ASSUME NEW c \in Clients, SaveUpdate(c) \/ SaveCreate(c)
       PROVE  PruneInv'
  BY <1>1, <1>12, Zenon DEF SaveUpdate, SaveCreate, WriteRoute
<1>13. CASE UNCHANGED vars
  BY <1>7, <1>13, Zenon DEF vars
<1>14. QED
  BY <1>2, <1>3, <1>4, <1>5, <1>6, <1>8, <1>9, <1>10, <1>11, <1>12, <1>13, Zenon
  DEF Next, ClientStep, PruneStep

LEMMA PruneInvariant == Spec => []PruneInv
BY PruneInvInit, PruneInvNext, TypeCorrect, PTL DEF Spec

\* The one-second slack of FindExpiredRoutes is enough for every precision of
\* the expires_at column: what the pruner found had expired.
THEOREM FoundHadExpiredAlways == Spec => []FoundHadExpired
<1>1. PruneInv => FoundHadExpired
  BY Zenon DEF PruneInv, FoundHadExpired
<1>2. QED
  BY <1>1, PruneInvariant, PTL

\* A row renewed in time every time leaves the table only by DeleteRoute: no
\* interleaving of saves, deletes, prunes, failures and crashes loses it.
THEOREM RenewedInTimeStaysAlways == Spec => RenewedInTimeStays
<1> DEFINE Kept ==
      \A r \in rows :
        (r.guid \notin GuidsOf(rows') /\ r.guid \notin lapsed) =>
          \E c \in Clients : pc[c] = "delete" /\ cur[c].guid = r.guid
<1>1. PruneInv /\ [Next]_vars => [Kept]_vars
  <2> SUFFICES ASSUME PruneInv, Next,
                      NEW r \in rows, r.guid \notin GuidsOf(rows'),
                      r.guid \notin lapsed
               PROVE  \E c \in Clients :
                        pc[c] = "delete" /\ cur[c].guid = r.guid
    OBVIOUS
  <2>1. r \notin rows'
    BY Zenon DEF GuidsOf
  <2>2. ASSUME NEW c \in Clients, SaveUpdate(c) \/ SaveCreate(c)
        PROVE  FALSE
    <3>1. PICK w : rows' = Upsert(w)
      BY <2>2, ZenonT(60) DEF SaveUpdate, SaveCreate, WriteRoute
    <3>2. w \in rows' /\ (r \in rows' \/ r.guid = w.guid)
      BY <3>1, Zenon DEF Upsert
    <3>3. QED
      BY <2>1, <3>2, Zenon DEF GuidsOf
  <2>3. ASSUME NEW j \in Jobs, PruneDelete(j)
        PROVE  FALSE
    <3>1. r.guid \in GuidsOf(found[j])
      BY <2>1, <2>3, Zenon DEF PruneDelete
    <3>2. QED
      BY <3>1, Zenon DEF GuidsOf, PruneInv
  <2>4. ASSUME NEW c \in Clients, DeleteRow(c)
        PROVE  pc[c] = "delete" /\ cur[c].guid = r.guid
    BY <2>1, <2>4, Zenon DEF DeleteRow
  <2>5. \/ rows' = rows
        \/ \E c \in Clients : SaveUpdate(c) \/ SaveCreate(c) \/ DeleteRow(c)
        \/ \E j \in Jobs : PruneDelete(j)
    BY Zenon DEF Next, ClientStep, PruneStep, SaveRouteExisting, SaveRouteNew,
           DeleteRoute, EmitSaved, EmitDeleted, StatementFails, PruneTick,
           PruneFind, PruneEmit, PruneDone, PruneFails, Tick, Crash
  <2>6. QED
    BY <2>1, <2>2, <2>3, <2>4, <2>5, Zenon
<1>2. QED
  BY <1>1, PruneInvariant, PTL DEF Spec, RenewedInTimeStays

LEMMA OnePruneNext == TypeOK /\ OnePruneInFlight /\ [Next]_vars => OnePruneInFlight'
<1> SUFFICES ASSUME TypeOK, OnePruneInFlight, [Next]_vars
             PROVE  OnePruneInFlight'
  OBVIOUS
<1> USE DEF OnePruneInFlight, TypeOK
<1>1. ASSUME NEW j \in Jobs,
             PruneTick(j) \/ PruneStep(j) \/ PruneFails(j)
      PROVE  OnePruneInFlight'
  BY <1>1 DEF PruneTick, PruneStep, PruneFind, PruneDelete, PruneEmit,
              PruneDone, PruneFails, PruneReturn
<1>2. CASE Crash
  BY <1>2, Zenon DEF Crash
<1>3. CASE UNCHANGED <<jobPc, inFlight>>
  BY <1>3, Zenon
<1>4. QED
  BY <1>1, <1>2, <1>3, ZenonT(60)
  DEF Next, ClientStep, SaveRouteExisting, SaveRouteNew, DeleteRoute,
      SaveUpdate, SaveCreate, WriteRoute, EmitSaved, DeleteRow, EmitDeleted,
      StatementFails, Tick, vars, pruneVars

\* The compare-and-swap of CleanupRoutes keeps prunes apart, and a goroutine
\* that ends, by whatever path, lets the next one in.
THEOREM OnePruneInFlightAlways == Spec => []OnePruneInFlight
<1>1. Init => OnePruneInFlight
  BY Zenon DEF Init, OnePruneInFlight
<1>2. QED
  BY <1>1, OnePruneNext, TypeCorrect, PTL DEF Spec

-----------------------------------------------------------------------------
(* Clients with keys of their own.                                          *)

\* A client in the middle of a SaveRoute, before and after its write.
Saving(c)  == pc[c] \in {"save", "create"}
Written(c) == pc[c] \in {"emitUpdate", "emitCreate"}

\* Guids are fresh, identify one row, and belong to one key and, while a call
\* is in progress, to one client.
GuidInv ==
  /\ \A g \in Guids \ used : announced[g] = -1
  /\ \A r \in rows : r.guid \in used
  /\ \A r, s \in rows : r.guid = s.guid \/ r.key = s.key => r = s
  /\ \A c \in Clients : pc[c] # "idle" =>
       /\ cur[c].guid \in used
       /\ cur[c].key \in Registers[c]
       /\ \A r \in rows : r.guid = cur[c].guid => r.key = cur[c].key
  /\ \A c, d \in Clients :
       c # d /\ pc[c] # "idle" /\ pc[d] # "idle" => cur[c].guid # cur[d].guid

\* The tag a save carries is ahead of what is stored until it is written, and
\* ahead of what was announced until it is emitted.
TagInv ==
  /\ \A r \in rows : announced[r.guid] <= r.index
  /\ \A c \in Clients : Saving(c) \/ Written(c) =>
       announced[cur[c].guid] < cur[c].index
  /\ \A c \in Clients : Saving(c) => \A r \in rows :
       r.key = cur[c].key => r.guid = cur[c].guid /\ r.index < cur[c].index
  /\ \A c \in Clients : Written(c) => \A r \in rows :
       r.key = cur[c].key => r.guid = cur[c].guid /\ r.index = cur[c].index

OwnedInv == GuidInv /\ TagInv

LEMMA OwnedInit == Init => OwnedInv
BY ZenonT(60) DEF Init, OwnedInv, GuidInv, TagInv, Saving, Written

\* Removing rows and ending calls breaks no part of the invariant.
LEMMA OwnedShrinks ==
  ASSUME TypeOK, OwnedInv,
         rows' \subseteq rows, used' = used, announced' = announced,
         \A c \in Clients : pc'[c] = "idle" \/
           /\ cur'[c] = cur[c]
           /\ pc[c] # "idle"
           /\ pc'[c] = pc[c] \/ (pc'[c] \in {"emitDelete"})
  PROVE  OwnedInv'
BY DEF TypeOK, OwnedInv, GuidInv, TagInv, Saving, Written

LEMMA OwnedNext ==
  ASSUME Exclusive
  PROVE  TypeOK /\ OwnedInv /\ [Next]_vars => OwnedInv'
<1> SUFFICES ASSUME TypeOK, OwnedInv, [Next]_vars
             PROVE  OwnedInv'
  OBVIOUS
<1> USE DEF clientVars, pruneVars
<1>1. ASSUME NEW c \in Clients, NEW k \in Keys, NEW ttl \in TTLs,
             SaveRouteExisting(c, k, ttl)
      PROVE  OwnedInv'
  <2>1. PICK r \in rows : /\ Matching(k) = {r}
                          /\ cur' = [cur EXCEPT ![c] = updateRoute(r, ttl)]
    BY <1>1, ZenonT(60) DEF SaveRouteExisting
  <2> DEFINE u == updateRoute(r, ttl)
  <2>2. /\ r \in Row /\ r.key = k /\ r.index \in Nat /\ k \in Registers[c]
        /\ u \in Row /\ u.guid = r.guid /\ u.key = k /\ u.index = r.index + 1
    BY <1>1, <2>1, UpdatedRow DEF SaveRouteExisting, Matching, TypeOK, Row
  <2>3. /\ cur' = [cur EXCEPT ![c] = u]
        /\ pc' = [pc EXCEPT ![c] = "save"]
        /\ pc[c] = "idle"
        /\ UNCHANGED <<rows, used, announced>>
    BY <1>1, <2>1, ZenonT(60) DEF SaveRouteExisting
  <2> HIDE DEF u
  <2>4. \A d \in Clients : d # c /\ pc[d] # "idle" => cur[d].guid # r.guid
    BY <2>2, Exclusive, SMTT(60) DEF Exclusive, OwnedInv, GuidInv
  <2>5. GuidInv'
    BY <2>2, <2>3, <2>4, SMTT(60) DEF OwnedInv, GuidInv, TypeOK
  <2>6. announced[r.guid] \in Int /\ announced[r.guid] <= r.index
    BY <2>2, ZenonT(60) DEF OwnedInv, TagInv, TypeOK, Row
  <2>7. TagInv'
    BY <2>2, <2>3, <2>6 DEF OwnedInv, GuidInv, TagInv, TypeOK, Saving, Written
  <2>8. QED
    BY <2>5, <2>7, Zenon DEF OwnedInv
<1>2. ASSUME NEW c \in Clients, NEW k \in Keys, NEW ttl \in TTLs,
             SaveRouteNew(c, k, ttl)
      PROVE  OwnedInv'
  <2>1. PICK g \in Guids \ used :
           /\ used' = used \cup {g}
           /\ cur' = [cur EXCEPT ![c] = NewRoute(g, k, ttl)]
    BY <1>2, ZenonT(60) DEF SaveRouteNew
  <2> DEFINE u == NewRoute(g, k, ttl)
  <2>2. u \in Row /\ u.guid = g /\ u.key = k /\ u.index = 0 /\ k \in Registers[c]
    BY <1>2, FreshRow, SMTT(60) DEF SaveRouteNew, TypeOK
  <2>3. /\ cur' = [cur EXCEPT ![c] = u]
        /\ used' = used \cup {g}
        /\ pc' = [pc EXCEPT ![c] = "create"]
        /\ \A r \in rows : r.key # k
        /\ UNCHANGED <<rows, announced>>
    BY <1>2, <2>1, ZenonT(60) DEF SaveRouteNew, Matching
  <2> HIDE DEF u
  <2>4. GuidInv'
    BY <2>2, <2>3, SMTT(60) DEF OwnedInv, GuidInv, TypeOK
  <2>5. TagInv'
    BY <2>2, <2>3 DEF OwnedInv, GuidInv, TagInv, TypeOK, Saving, Written
  <2>6. QED
    BY <2>4, <2>5, Zenon DEF OwnedInv
<1>3. ASSUME NEW c \in Clients, NEW k \in Keys, DeleteRoute(c, k)
      PROVE  OwnedInv'
  <2>1. PICK r \in rows : r.key = k /\ cur' = [cur EXCEPT ![c] = r]
    BY <1>3, ZenonT(60) DEF DeleteRoute, Matching
  <2>2. /\ k \in Registers[c]
        /\ pc' = [pc EXCEPT ![c] = "delete"]
        /\ UNCHANGED <<rows, used, announced>>
    BY <1>3, ZenonT(60) DEF DeleteRoute
  <2>3. \A d \in Clients : d # c /\ pc[d] # "idle" => cur[d].guid # r.guid
    BY <2>1, <2>2, Exclusive, SMTT(60) DEF Exclusive, OwnedInv, GuidInv
  <2>4. GuidInv'
    BY <2>1, <2>2, <2>3, SMTT(60) DEF OwnedInv, GuidInv, TypeOK
  <2>5. TagInv'
    BY <2>1, <2>2, ZenonT(60) DEF OwnedInv, TagInv, TypeOK, Saving, Written
  <2>6. QED
    BY <2>4, <2>5, Zenon DEF OwnedInv
<1>4. ASSUME NEW c \in Clients, SaveUpdate(c) \/ SaveCreate(c)
      PROVE  OwnedInv'
  <2>1. /\ Saving(c)
        /\ \E to \in {"emitUpdate", "emitCreate"} : pc' = [pc EXCEPT ![c] = to]
        /\ UNCHANGED <<cur, used, announced>>
        /\ \E s \in Stored(cur[c].due) : rows' = Upsert([cur[c] EXCEPT !.exp = s])
    BY <1>4, Zenon DEF SaveUpdate, SaveCreate, WriteRoute, Saving
  <2>2. cur[c] \in Row /\ cur[c].due \in Int
    BY <2>1, Zenon DEF Saving, TypeOK, Row
  <2>3. PICK w \in Row :
          /\ rows' = Upsert(w)
          /\ w.guid = cur[c].guid /\ w.key = cur[c].key /\ w.index = cur[c].index
    <3>1. PICK s \in Stored(cur[c].due) : rows' = Upsert([cur[c] EXCEPT !.exp = s])
      BY <2>1, Zenon
    <3>2. s \in Int
      BY <2>2, StoredPrecision, Zenon
    <3>3. [cur[c] EXCEPT !.exp = s] \in Row
      BY <2>2, <3>2, StoredRow, Zenon
    <3>4. LET w == [cur[c] EXCEPT !.exp = s]
          IN  w.guid = cur[c].guid /\ w.key = cur[c].key /\ w.index = cur[c].index
      BY <2>2, <3>2, StoredRow, Zenon
    <3>5. QED
      BY <3>1, <3>3, <3>4, Zenon
  <2>4. Written(c)' /\ \A d \in Clients : d # c => pc'[d] = pc[d]
    BY <2>1 DEF Written, TypeOK
  <2>5. \A r \in rows' : r = w \/ (r \in rows /\ r.guid # w.guid /\ r.key # w.key)
    BY <2>1, <2>3 DEF Upsert, OwnedInv, TagInv
  <2>6. w \in rows'
    BY <2>3 DEF Upsert
  <2>7. pc[c] # "idle"
    BY <2>1 DEF Saving
  <2>8. GuidInv'
    <3>1. /\ \A g \in Guids \ used' : announced'[g] = -1
          /\ \A r \in rows' : r.guid \in used'
          /\ \A r, s \in rows' : r.guid = s.guid \/ r.key = s.key => r = s
      BY <2>1, <2>3, <2>5, <2>7, ZenonT(60) DEF OwnedInv, GuidInv
    <3>2. \A d \in Clients : pc'[d] # "idle" => pc[d] # "idle"
      BY <2>4, <2>7
    <3>3. \A d \in Clients : pc'[d] # "idle" =>
            /\ cur'[d].guid \in used'
            /\ cur'[d].key \in Registers[d]
            /\ \A r \in rows' : r.guid = cur'[d].guid => r.key = cur'[d].key
      <4> SUFFICES ASSUME NEW d \in Clients, pc[d] # "idle"
                   PROVE  /\ cur[d].guid \in used
                          /\ cur[d].key \in Registers[d]
                          /\ \A r \in rows' :
                               r.guid = cur[d].guid => r.key = cur[d].key
        BY <2>1, <3>2, Zenon
      <4>1. cur[d].guid \in used /\ cur[d].key \in Registers[d]
        BY Zenon DEF OwnedInv, GuidInv
      <4>2. \A r \in rows : r.guid = cur[d].guid => r.key = cur[d].key
        BY DEF OwnedInv, GuidInv
      <4>3. w.guid = cur[d].guid => w.key = cur[d].key
        BY <2>3, <2>7, ZenonT(60) DEF OwnedInv, GuidInv
      <4>4. QED
        BY <2>5, <4>1, <4>2, <4>3, Zenon
    <3>4. QED
      BY <2>1, <3>1, <3>2, <3>3, Zenon DEF OwnedInv, GuidInv
  <2>9. TagInv'
    <3>1. announced[w.guid] < w.index /\ announced[w.guid] \in Int /\ w.index \in Int
      BY <2>1, <2>3 DEF OwnedInv, TagInv, TypeOK, Row
    <3>2. \A r \in rows' : announced'[r.guid] <= r.index
      BY <2>1, <2>5, <3>1 DEF OwnedInv, TagInv
    <3>3. \A d \in Clients \ {c} : pc[d] # "idle" => cur[d].key # w.key
      BY <2>3, <2>7, Exclusive DEF Exclusive, OwnedInv, GuidInv
    <3>4. ASSUME NEW d \in Clients, d # c
          PROVE  /\ Saving(d)' <=> Saving(d)
                 /\ Written(d)' <=> Written(d)
                 /\ Saving(d) \/ Written(d) => pc[d] # "idle"
      BY <2>4, <3>4, Zenon DEF Saving, Written
    <3>5. ~Saving(c)'
      BY <2>4, Zenon DEF Saving, Written
    <3>6. \A d \in Clients : (Saving(d) \/ Written(d))' =>
            announced'[cur'[d].guid] < cur'[d].index
      BY <2>1, <3>4, Zenon DEF OwnedInv, TagInv
    <3>7. ASSUME NEW d \in Clients, d # c, Saving(d) \/ Written(d),
                 NEW r \in rows', r.key = cur[d].key
          PROVE  r \in rows
      BY <2>5, <3>3, <3>4, <3>7, Zenon
    <3>8. ASSUME NEW d \in Clients, Saving(d)', NEW r \in rows', r.key = cur'[d].key
          PROVE  r.guid = cur'[d].guid /\ r.index < cur'[d].index
      <4>1. d # c /\ cur'[d] = cur[d]
        BY <2>1, <3>5, <3>8, Zenon
      <4>2. Saving(d)
        BY <3>4, <3>8, <4>1, Zenon
      <4>3. r \in rows
        BY <3>7, <3>8, <4>1, <4>2, Zenon
      <4>4. QED
        BY <3>8, <4>1, <4>2, <4>3, Zenon DEF OwnedInv, TagInv
    <3>9. ASSUME NEW d \in Clients, Written(d)', NEW r \in rows', r.key = cur'[d].key
          PROVE  r.guid = cur'[d].guid /\ r.index = cur'[d].index
      <4>1. cur'[d] = cur[d]
        BY <2>1, Zenon
      <4>2. CASE d = c
        BY <2>3, <2>5, <3>9, <4>1, <4>2, Zenon
      <4>3. CASE d # c
        <5>1. Written(d)
          BY <3>4, <3>9, <4>3, Zenon
        <5>2. r \in rows
          BY <3>7, <3>9, <4>1, <4>3, <5>1, Zenon
        <5>3. QED
          BY <3>9, <4>1, <5>1, <5>2, ZenonT(60) DEF OwnedInv, TagInv
      <4>4. QED
        BY <4>2, <4>3, Zenon
    <3>10. QED
      BY <3>2, <3>6, <3>8, <3>9, Zenon DEF TagInv
  <2>10. QED
    BY <2>8, <2>9, Zenon DEF OwnedInv
<1>5. ASSUME NEW c \in Clients, EmitSaved(c)
      PROVE  OwnedInv'
  <2>1. /\ Written(c)
        /\ cur[c] \in Row /\ cur[c].guid \in Guids /\ cur[c].index \in Nat
        /\ announced' = [announced EXCEPT ![cur[c].guid] = cur[c].index]
        /\ pc' = [pc EXCEPT ![c] = "idle"]
        /\ cur' = [cur EXCEPT ![c] = NoRow]
        /\ UNCHANGED <<rows, used>>
    BY <1>5, Zenon DEF EmitSaved, Return, Written, TypeOK, Row
  <2>2. GuidInv'
    BY <2>1, ZenonT(60) DEF OwnedInv, GuidInv, TypeOK, Written
  <2>3. \A r \in rows : r.guid = cur[c].guid => r.index = cur[c].index
    BY <2>1, ZenonT(60) DEF OwnedInv, GuidInv, TagInv, Written
  <2>4. \A d \in Clients \ {c} : pc[d] # "idle" => cur[d].guid # cur[c].guid
    BY <2>1, Zenon DEF OwnedInv, GuidInv, Written
  <2>5. \A r \in rows : r.guid \in Guids
    BY Zenon DEF TypeOK, Row
  <2>6. TagInv'
    BY <2>1, <2>3, <2>4, <2>5, SMTT(60)
    DEF OwnedInv, TagInv, TypeOK, Saving, Written
  <2>7. QED
    BY <2>2, <2>6, Zenon DEF OwnedInv
<1>6. ASSUME NEW c \in Clients,
             DeleteRow(c) \/ EmitDeleted(c) \/ StatementFails(c)
      PROVE  OwnedInv'
  BY <1>6, OwnedShrinks, Zenon
  DEF DeleteRow, EmitDeleted, StatementFails, Return, TypeOK
<1>7. ASSUME NEW j \in Jobs, PruneTick(j) \/ PruneStep(j) \/ PruneFails(j)
      PROVE  OwnedInv'
  BY <1>7, OwnedShrinks, Zenon
  DEF PruneTick, PruneStep, PruneFind, PruneDelete, PruneEmit, PruneDone,
      PruneFails
<1>8. CASE Tick \/ Crash \/ UNCHANGED vars
  BY <1>8, OwnedShrinks, Zenon DEF Tick, Crash, vars
<1>9. QED
  BY <1>1, <1>2, <1>3, <1>4, <1>5, <1>6, <1>7, <1>8, Zenon DEF Next, ClientStep

-----------------------------------------------------------------------------
\* A step that is no write keeps only rows as they are; a write puts one row in
\* the place of the row of its guid.
LEMMA WritesOneRow ==
  ASSUME TypeOK, [Next]_vars
  PROVE  \/ rows' \subseteq rows
         \/ \E c \in Clients :
              /\ Saving(c)
              /\ \A r \in rows' :
                   r \in rows \/ (r.guid = cur[c].guid /\ r.index = cur[c].index)
<1>1. ASSUME NEW c \in Clients, SaveUpdate(c) \/ SaveCreate(c)
      PROVE  /\ Saving(c)
             /\ \A r \in rows' :
                  r \in rows \/ (r.guid = cur[c].guid /\ r.index = cur[c].index)
  <2>1. /\ Saving(c)
        /\ \E s \in Stored(cur[c].due) : rows' = Upsert([cur[c] EXCEPT !.exp = s])
    BY <1>1, Zenon DEF SaveUpdate, SaveCreate, WriteRoute, Saving
  <2>2. PICK s \in Stored(cur[c].due) : rows' = Upsert([cur[c] EXCEPT !.exp = s])
    BY <2>1, Zenon
  <2>3. cur[c] \in Row
    BY <2>1, Zenon DEF Saving, TypeOK
  <2>4. /\ [cur[c] EXCEPT !.exp = s].guid = cur[c].guid
        /\ [cur[c] EXCEPT !.exp = s].index = cur[c].index
    BY <2>3, Zenon DEF Row
  <2>5. QED
    BY <2>1, <2>2, <2>4, Zenon DEF Upsert
<1>2. ASSUME NEW c \in Clients, NEW k \in Keys, NEW ttl \in TTLs,
             SaveRouteExisting(c, k, ttl) \/ SaveRouteNew(c, k, ttl)
      PROVE  rows' = rows
  BY <1>2, Zenon DEF SaveRouteExisting, SaveRouteNew
<1>3. ASSUME NEW c \in Clients, NEW k \in Keys, DeleteRoute(c, k)
      PROVE  rows' = rows
  BY <1>3, Zenon DEF DeleteRoute
<1>4. ASSUME NEW c \in Clients,
             EmitSaved(c) \/ DeleteRow(c) \/ EmitDeleted(c) \/ StatementFails(c)
      PROVE  rows' \subseteq rows
  BY <1>4, Zenon DEF EmitSaved, DeleteRow, EmitDeleted, StatementFails
<1>5. ASSUME NEW j \in Jobs, PruneTick(j) \/ PruneStep(j) \/ PruneFails(j)
      PROVE  rows' \subseteq rows
  BY <1>5, Zenon DEF PruneTick, PruneStep, PruneFind, PruneDelete, PruneEmit,
              PruneDone, PruneFails
<1>6. CASE Tick \/ Crash \/ UNCHANGED vars
  BY <1>6, Zenon DEF Tick, Crash, vars
<1>7. QED
  BY <1>1, <1>2, <1>3, <1>4, <1>5, <1>6, Zenon DEF Next, ClientStep

\* When every key has one registering client, SaveRoute gives no key a second
\* row, whatever the interleaving with the pruner, failed statements or crashes.
THEOREM OwnedKeysConsistent ==
  ASSUME Exclusive
  PROVE  Spec => []OneRowPerKey
<1>1. OwnedInv => OneRowPerKey
  BY DEF OwnedInv, GuidInv, OneRowPerKey, HasDuplicates
<1>2. QED
  BY <1>1, OwnedInit, OwnedNext, TypeCorrect, PTL DEF Spec

\* When every key has one registering client, every Create and Update event
\* that SaveRoute emits carries a tag that succeeds all tags announced before.
THEOREM OwnedEventsAreNews ==
  ASSUME Exclusive
  PROVE  Spec => []PendingEventIsNews
<1>1. OwnedInv => PendingEventIsNews
  BY Zenon DEF OwnedInv, TagInv, PendingEventIsNews, SucceededBy, Written
<1>2. QED
  BY <1>1, OwnedInit, OwnedNext, TypeCorrect, PTL DEF Spec

\* When every key has one registering client, a modification tag only grows: no
\* renewal that raced the pruner, failed or was cut off by a crash stores an
\* index the row has had before.
THEOREM OwnedTagsIncrement ==
  ASSUME Exclusive
  PROVE  Spec => IndexIncrements
<1>1. ASSUME TypeOK, OwnedInv, [Next]_vars
      PROVE  \A r \in rows, s \in rows' :
               r.guid = s.guid /\ r # s => r.index < s.index
  <2> SUFFICES ASSUME NEW r \in rows, NEW s \in rows', r.guid = s.guid, r # s
               PROVE  r.index < s.index
    BY Zenon
  <2>1. s \notin rows
    BY <1>1, Zenon DEF OwnedInv, GuidInv
  <2>2. PICK c \in Clients :
          Saving(c) /\ s.guid = cur[c].guid /\ s.index = cur[c].index
    BY <1>1, <2>1, WritesOneRow, Zenon
  <2>3. r.key = cur[c].key
    BY <1>1, <2>2, Zenon DEF OwnedInv, GuidInv, Saving
  <2>4. QED
    BY <1>1, <2>2, <2>3, Zenon DEF OwnedInv, TagInv
<1>2. QED
  BY <1>1, OwnedInit, OwnedNext, TypeCorrect, PTL DEF Spec, IndexIncrements

=============================================================================
