------------------------------ MODULE RouteStore ------------------------------
(***************************************************************************)
(* The HTTP route table of db/db_sql.go: SaveRoute and DeleteRoute calls   *)
(* of concurrent request goroutines, the pruning goroutines CleanupRoutes  *)
(* spawns, and the database rows they share.  Every SQL statement is one   *)
(* step; nothing in the code holds a lock or a transaction across two of   *)
(* them, so the calls interleave between statements.                       *)
(*                                                                         *)
(* A row's primary key (guid) and the guid of its modification tag are two *)
(* UUIDs drawn together by SaveRoute and never separated afterwards, so    *)
(* one value stands for both.  LogGuid is carried along by the code        *)
(* without being read and is left out.                                     *)
(*                                                                         *)
(* Time is counted in ticks, Second of them to a second.  A call that ends *)
(* with an error before its first write (duplicate rows on a read, no row  *)
(* to delete) changes nothing and is a stuttering step.                    *)
(***************************************************************************)
EXTENDS Integers

CONSTANTS
  Keys,        \* values of (route, ip, port, route_service_url)
  Clients,     \* goroutines that call SaveRoute and DeleteRoute
  Registers,   \* Registers[c]: the keys client c saves and deletes
  TTLs,        \* time-to-live values clients ask for, in ticks
  Second,      \* ticks per second
  Guids,       \* UUIDs
  Jobs,        \* pruning goroutines
  MaxIndex,    \* bound: modification tag index
  MaxTime,     \* bound: clock
  MaxFails,    \* bound: failed SQL statements
  MaxCrashes,  \* bound: crashes of the process
  NoRow        \* no row

VARIABLES
  now,         \* time.Now()
  rows,        \* the routes table
  pc,          \* pc[c]: where client c is in its call
  cur,         \* cur[c]: the row client c holds between two statements
  jobPc,       \* jobPc[j]: where pruning goroutine j is
  found,       \* found[j]: the rows goroutine j still has to handle
  inFlight,    \* httpInFlight of CleanupRoutes
  used,        \* history: UUIDs drawn so far
  announced,   \* history: index of the last Create or Update event per guid
  ended,       \* history: guids with a Delete or Expire event
  lapsed,      \* history: guids that stayed stored past their expiry
  fails, crashes

vars == <<now, rows, pc, cur, jobPc, found, inFlight, used, announced, ended,
          lapsed, fails, crashes>>

clientVars == <<pc, cur>>
pruneVars  == <<jobPc, found, inFlight>>

-----------------------------------------------------------------------------
(* A row: index is ModificationTag.Index; due is the expiry SaveRoute       *)
(* computed; exp is what the expires_at column holds.                       *)
Row == [guid: Guids, key: Keys, index: Nat, due: Int, exp: Int]

ASSUME ConstantsAssumption ==
  /\ Second \in Nat \ {0}
  /\ TTLs \subseteq Nat
  /\ Registers \in [Clients -> SUBSET Keys]
  /\ MaxIndex \in Nat
  /\ MaxTime \in Nat
  /\ MaxFails \in Nat
  /\ MaxCrashes \in Nat

ASSUME NoRowAssumption == NoRow \notin Row

ClientPc == {"idle", "save", "create", "delete",
             "emitUpdate", "emitCreate", "emitDelete"}
JobPc    == {"idle", "find", "delete", "emit"}

TypeOK ==
  /\ now \in Nat
  /\ rows \subseteq Row
  /\ pc \in [Clients -> ClientPc]
  /\ cur \in [Clients -> Row \cup {NoRow}]
  /\ \A c \in Clients : pc[c] # "idle" => cur[c] \in Row
  /\ jobPc \in [Jobs -> JobPc]
  /\ found \in [Jobs -> SUBSET Row]
  /\ inFlight \in {0, 1}
  /\ used \subseteq Guids
  /\ announced \in [Guids -> Int]
  /\ ended \subseteq Guids
  /\ lapsed \subseteq Guids
  /\ fails \in Nat
  /\ crashes \in Nat

Init ==
  /\ now = 0
  /\ rows = {}
  /\ pc = [c \in Clients |-> "idle"]
  /\ cur = [c \in Clients |-> NoRow]
  /\ jobPc = [j \in Jobs |-> "idle"]
  /\ found = [j \in Jobs |-> {}]
  /\ inFlight = 0
  /\ used = {}
  /\ announced = [g \in Guids |-> -1]
  /\ ended = {}
  /\ lapsed = {}
  /\ fails = 0
  /\ crashes = 0

-----------------------------------------------------------------------------
(* The database.  Definitions named ...Faulty are variants with a plausible *)
(* mistake; no specification uses them.                                     *)

\* Faulty: readRoute looks at unexpired rows only, as ReadRoutes does.
MatchingUnexpiredFaulty(k) == {r \in rows : r.key = k /\ r.exp > now}

\* SELECT of readRoute: rows of a key, expired ones included.
Matching(k) == {r \in rows : r.key = k}

\* What a column may hold for a time t: MySQL keeps whole seconds, PostgreSQL
\* keeps t itself.
Stored(t) ==
  {s \in (t - Second + 1)..(t + Second - 1) : s = t \/ s % Second = 0}

\* gorm's Save: UPDATE by primary key and, when no row matched, INSERT with ON
\* CONFLICT UPDATE; either way the row is there afterwards.
Upsert(r) == {x \in rows : x.guid # r.guid} \cup {r}

\* Faulty: no slack.
FindExpiredNoSlackFaulty == {r \in rows : r.exp < now}

\* FindExpiredRoutes: one second of slack against the column's precision.
FindExpiredRoutes == {r \in rows : r.exp < now - Second}

GuidsOf(R) == {r.guid : r \in R}

\* History: the guids among the rows R whose expiry has passed at time t.
PastDue(R, t) == GuidsOf({r \in R : r.due < t})

-----------------------------------------------------------------------------
(* SaveRoute.                                                               *)

\* Bound: calls start while the clock leaves their rows room to expire.
RoomToExpire(ttl) == now + ttl + 2 * Second <= MaxTime

\* Faulty: the tag is not incremented.
UpdateSameTagFaulty(r, ttl) ==
  [guid |-> r.guid, key |-> r.key, index |-> r.index,
   due |-> now + ttl, exp |-> now + ttl]

\* updateRoute: the row as found, its tag incremented and its expiry renewed.
updateRoute(r, ttl) ==
  [guid |-> r.guid, key |-> r.key, index |-> r.index + 1,
   due |-> now + ttl, exp |-> now + ttl]

\* NewRouteWithModel and NewModificationTag: fresh UUIDs, index 0.
NewRoute(g, k, ttl) ==
  [guid |-> g, key |-> k, index |-> 0, due |-> now + ttl, exp |-> now + ttl]

\* readRoute finds one row: the call goes on to Save the updated copy.
SaveRouteExisting(c, k, ttl) ==
  /\ pc[c] = "idle"
  /\ k \in Registers[c]
  /\ RoomToExpire(ttl)
  /\ \E r \in rows :
       /\ Matching(k) = {r}
       /\ r.index < MaxIndex
       /\ cur' = [cur EXCEPT ![c] = updateRoute(r, ttl)]
  /\ pc' = [pc EXCEPT ![c] = "save"]
  /\ UNCHANGED <<now, rows, pruneVars, used, announced, ended, lapsed, fails,
                 crashes>>

\* readRoute finds no row: the call goes on to Create one.
SaveRouteNew(c, k, ttl) ==
  /\ pc[c] = "idle"
  /\ k \in Registers[c]
  /\ RoomToExpire(ttl)
  /\ Matching(k) = {}
  /\ \E g \in Guids \ used :
       /\ used' = used \cup {g}
       /\ cur' = [cur EXCEPT ![c] = NewRoute(g, k, ttl)]
  /\ pc' = [pc EXCEPT ![c] = "create"]
  /\ UNCHANGED <<now, rows, pruneVars, announced, ended, lapsed, fails, crashes>>

\* The statement of a save: Client.Save of the updated copy or Client.Create
\* of the new row.
WriteRoute(c, from, to) ==
  /\ pc[c] = from
  /\ \E s \in Stored(cur[c].due) :
       LET r == [cur[c] EXCEPT !.exp = s] IN
         /\ rows' = Upsert(r)
         /\ lapsed' = lapsed \cup PastDue({r}, now)
  /\ pc' = [pc EXCEPT ![c] = to]
  /\ UNCHANGED <<now, cur, pruneVars, used, announced, ended, fails, crashes>>

SaveUpdate(c) == WriteRoute(c, "save", "emitUpdate")
SaveCreate(c) == WriteRoute(c, "create", "emitCreate")

Return(c) ==
  /\ pc' = [pc EXCEPT ![c] = "idle"]
  /\ cur' = [cur EXCEPT ![c] = NoRow]

\* emitEvent(UpdateEvent or CreateEvent, newRoute); SaveRoute returns.
EmitSaved(c) ==
  /\ pc[c] \in {"emitUpdate", "emitCreate"}
  /\ announced' = [announced EXCEPT ![cur[c].guid] = cur[c].index]
  /\ Return(c)
  /\ UNCHANGED <<now, rows, pruneVars, used, ended, lapsed, fails, crashes>>

-----------------------------------------------------------------------------
(* DeleteRoute.                                                             *)

DeleteRoute(c, k) ==
  /\ pc[c] = "idle"
  /\ k \in Registers[c]
  /\ \E r \in rows :
       /\ Matching(k) = {r}
       /\ cur' = [cur EXCEPT ![c] = r]
  /\ pc' = [pc EXCEPT ![c] = "delete"]
  /\ UNCHANGED <<now, rows, pruneVars, used, announced, ended, lapsed, fails,
                 crashes>>

\* Faulty: returns without emitting the event.
DeleteRowSilentFaulty(c) ==
  /\ pc[c] = "delete"
  /\ rows' = {r \in rows : r.guid # cur[c].guid}
  /\ Return(c)
  /\ UNCHANGED <<now, pruneVars, used, announced, ended, lapsed, fails, crashes>>

\* DELETE by primary key; the number of rows it removed is not looked at.
DeleteRow(c) ==
  /\ pc[c] = "delete"
  /\ rows' = {r \in rows : r.guid # cur[c].guid}
  /\ pc' = [pc EXCEPT ![c] = "emitDelete"]
  /\ UNCHANGED <<now, cur, pruneVars, used, announced, ended, lapsed, fails,
                 crashes>>

EmitDeleted(c) ==
  /\ pc[c] = "emitDelete"
  /\ ended' = ended \cup {cur[c].guid}
  /\ Return(c)
  /\ UNCHANGED <<now, rows, pruneVars, used, announced, lapsed, fails, crashes>>

\* The statement of a save or a delete fails: the call returns the error.
StatementFails(c) ==
  /\ pc[c] \in {"save", "create", "delete"}
  /\ fails < MaxFails
  /\ fails' = fails + 1
  /\ Return(c)
  /\ UNCHANGED <<now, rows, pruneVars, used, announced, ended, lapsed, crashes>>

-----------------------------------------------------------------------------
(* CleanupRoutes.                                                           *)

\* The ticker fires and the compare-and-swap on httpInFlight succeeds.  A tick
\* that finds the flag set does nothing.
PruneTick(j) ==
  /\ inFlight = 0
  /\ jobPc[j] = "idle"
  /\ inFlight' = 1
  /\ jobPc' = [jobPc EXCEPT ![j] = "find"]
  /\ UNCHANGED <<now, rows, clientVars, found, used, announced, ended, lapsed,
                 fails, crashes>>

PruneFind(j) ==
  /\ jobPc[j] = "find"
  /\ found' = [found EXCEPT ![j] = FindExpiredRoutes]
  /\ jobPc' = [jobPc EXCEPT ![j] = "delete"]
  /\ UNCHANGED <<now, rows, clientVars, inFlight, used, announced, ended,
                 lapsed, fails, crashes>>

\* DELETE ... WHERE guid IN (the guids found), whatever those rows hold by now.
PruneDelete(j) ==
  /\ jobPc[j] = "delete"
  /\ rows' = {r \in rows : r.guid \notin GuidsOf(found[j])}
  /\ jobPc' = [jobPc EXCEPT ![j] = "emit"]
  /\ UNCHANGED <<now, clientVars, found, inFlight, used, announced, ended,
                 lapsed, fails, crashes>>

\* One ExpireEvent per row found.
PruneEmit(j) ==
  /\ jobPc[j] = "emit"
  /\ \E r \in found[j] :
       /\ ended' = ended \cup {r.guid}
       /\ found' = [found EXCEPT ![j] = @ \ {r}]
  /\ UNCHANGED <<now, rows, clientVars, jobPc, inFlight, used, announced,
                 lapsed, fails, crashes>>

\* Faulty: the goroutine ends without clearing the flag.
PruneReturnKeepsFlagFaulty(j) ==
  /\ jobPc' = [jobPc EXCEPT ![j] = "idle"]
  /\ found' = [found EXCEPT ![j] = {}]
  /\ UNCHANGED inFlight

\* The goroutine ends; its deferred store clears the flag.
PruneReturn(j) ==
  /\ jobPc' = [jobPc EXCEPT ![j] = "idle"]
  /\ found' = [found EXCEPT ![j] = {}]
  /\ inFlight' = 0

PruneDone(j) ==
  /\ jobPc[j] = "emit"
  /\ found[j] = {}
  /\ PruneReturn(j)
  /\ UNCHANGED <<now, rows, clientVars, used, announced, ended, lapsed, fails,
                 crashes>>

\* SELECT or DELETE fails: the goroutine logs and returns.
PruneFails(j) ==
  /\ jobPc[j] \in {"find", "delete"}
  /\ fails < MaxFails
  /\ fails' = fails + 1
  /\ PruneReturn(j)
  /\ UNCHANGED <<now, rows, clientVars, used, announced, ended, lapsed, crashes>>

-----------------------------------------------------------------------------
(* The environment.                                                         *)

Tick ==
  /\ now < MaxTime
  /\ now' = now + 1
  /\ lapsed' = lapsed \cup PastDue(rows, now + 1)
  /\ UNCHANGED <<rows, clientVars, pruneVars, used, announced, ended, fails,
                 crashes>>

\* The process dies and another takes over: the rows survive, every goroutine
\* and its pending event is gone.
Crash ==
  /\ crashes < MaxCrashes
  /\ crashes' = crashes + 1
  /\ pc' = [c \in Clients |-> "idle"]
  /\ cur' = [c \in Clients |-> NoRow]
  /\ jobPc' = [j \in Jobs |-> "idle"]
  /\ found' = [j \in Jobs |-> {}]
  /\ inFlight' = 0
  /\ UNCHANGED <<now, rows, used, announced, ended, lapsed, fails>>

ClientStep(c) ==
  \/ SaveUpdate(c) \/ SaveCreate(c) \/ EmitSaved(c)
  \/ DeleteRow(c) \/ EmitDeleted(c)

PruneStep(j) ==
  PruneFind(j) \/ PruneDelete(j) \/ PruneEmit(j) \/ PruneDone(j)

Next ==
  \/ \E c \in Clients, k \in Keys, ttl \in TTLs :
       SaveRouteExisting(c, k, ttl) \/ SaveRouteNew(c, k, ttl)
  \/ \E c \in Clients, k \in Keys : DeleteRoute(c, k)
  \/ \E c \in Clients : ClientStep(c) \/ StatementFails(c)
  \/ \E j \in Jobs : PruneTick(j) \/ PruneStep(j) \/ PruneFails(j)
  \/ Tick
  \/ Crash

Spec == Init /\ [][Next]_vars

\* A started call and a started prune run to their end, the ticker keeps
\* firing and time passes; nobody is obliged to start a call.
Fairness ==
  /\ \A c \in Clients : WF_vars(ClientStep(c))
  /\ \A j \in Jobs : WF_vars(PruneStep(j))
  /\ WF_vars(\E j \in Jobs : PruneTick(j))
  /\ WF_vars(Tick)

FairSpec == Spec /\ Fairness

-----------------------------------------------------------------------------
(* Properties that hold for every set of clients.                           *)

\* CleanupRoutes: whatever the ticks, at most one goroutine prunes the routes
\* table, and while one does the flag that keeps the others out is set.
OnePruneInFlight ==
  \A j \in Jobs : jobPc[j] # "idle" =>
    /\ inFlight = 1
    /\ \A i \in Jobs \ {j} : jobPc[i] = "idle"

\* FindExpiredRoutes: in the version the pruner read, every row it is about to
\* delete or announce had outlived the expiry SaveRoute gave it, whatever the
\* precision of the expires_at column.
FoundHadExpired ==
  \A j \in Jobs : \A r \in found[j] : r.due < now

\* CleanupRoutes and SaveRoute together: a row that was renewed in time, every
\* time, leaves the table only through a DeleteRoute call on it.
RenewedInTimeStays ==
  [][\A r \in rows :
       (r.guid \notin GuidsOf(rows') /\ r.guid \notin lapsed) =>
         \E c \in Clients : pc[c] = "delete" /\ cur[c].guid = r.guid]_vars

\* No announced row that DeleteRoute or CleanupRoutes removed stays without a
\* Delete or Expire event, unless a renewal in flight puts the row back.
RemovalAnnounced ==
  \A g \in Guids :
    (announced[g] # -1 /\ g \notin GuidsOf(rows)) ~>
      (g \in ended \/ g \in GuidsOf(rows))

HasDuplicates(k) == \E r, s \in rows : r # s /\ r.key = k /\ s.key = k

\* When clients stop renewing, the pruner empties the table.
AbandonedRoutesPruned == <>[](rows = {})

-----------------------------------------------------------------------------
(* Properties that hold when no two clients register the same key.          *)

Exclusive ==
  \A c, d \in Clients : c # d => Registers[c] \cap Registers[d] = {}

\* SaveRoute: a key has at most one row, even though nothing in the schema
\* enforces it and the pruner may delete a row while a save is in flight.
OneRowPerKey == \A k \in Keys : ~HasDuplicates(k)

\* ModificationTag.SucceededBy; index -1 stands for no tag yet.
SucceededBy(m, other) == m.index = -1 \/ m.guid # other.guid \/ m.index < other.index

\* SaveRoute: the Create or Update event about to be emitted carries a tag
\* newer than every tag announced for its guid, so a consumer that compares
\* tags with SucceededBy applies it.
PendingEventIsNews ==
  \A c \in Clients :
    pc[c] \in {"emitUpdate", "emitCreate"} =>
      SucceededBy([guid |-> cur[c].guid, index |-> announced[cur[c].guid]], cur[c])

\* "Monotonically incremented on every state change to the route object"
\* (docs/03-modification-tags.md): a stored tag index never goes back and no
\* two writes of a row give it the same index.
IndexIncrements ==
  [][\A r \in rows, s \in rows' :
       r.guid = s.guid /\ r # s => r.index < s.index]_vars

=============================================================================
