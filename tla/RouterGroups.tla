----------------------------- MODULE RouterGroups -----------------------------
(***************************************************************************)
(* Router groups: the create, update and delete requests of                *)
(* handlers/router_groups_handler.go, the reads and writes of db/db_sql.go *)
(* they make, the locks a backup takes (rwLocker), and the seeding of a    *)
(* new process (cmd/routing-api/main.go), which goes on while the process  *)
(* it replaces still serves.  Each test of a lock and each SQL statement   *)
(* is one step.  A locker belongs to a process: the seeder's is unlocked.  *)
(* An empty reservable_ports is the empty sequence.                        *)
(***************************************************************************)
EXTENDS Ports

CONSTANTS
  Handlers,    \* goroutines that serve requests
  Seeder,      \* the member seed-router-groups of a new process
  Names,       \* names in requests; "" when left out
  Types,       \* types in requests
  PortTexts,   \* reservable_ports in requests
  Guids,       \* UUIDs
  Seeds,       \* cfg.RouterGroups: a sequence of [name, type, ports]
  MySQL,       \* whether the database is MySQL, and not PostgreSQL
  MaxStarts,   \* bound: processes that start seeding
  MaxFails,    \* bound: failed SQL statements and crashes
  NoGroup

Actors == Handlers \cup {Seeder}

Group == [guid: Guids, name: STRING, type: STRING, ports: Seq(Seq(Int))]

VARIABLES
  table,       \* the router_groups table
  readLock, writeLock,  \* rwLocker of the serving process
  pc,          \* pc[a]: where a's call is
  op,          \* op[a]: the request: "create", "update" or "delete"
  rg,          \* rg[a]: the router group a's call works on
  todo,        \* the groups the seeder has not saved
  starts, fails,
  used         \* history: UUIDs drawn so far

vars == <<table, readLock, writeLock, pc, op, rg, todo, starts, fails, used>>
lockVars == <<readLock, writeLock>>

ASSUME RouterGroupsAssumption ==
  /\ Seeder \notin Handlers
  /\ Names \subseteq STRING
  /\ Types \subseteq STRING
  /\ PortTexts \subseteq Seq(Seq(Int))
  /\ NoGroup \notin Group
  /\ MySQL \in BOOLEAN
  /\ MaxStarts \in Nat
  /\ MaxFails \in Nat

\* A request may leave the name out.
ASSUME EmptyNameAssumption == "" \in Names

(* RouterGroup.Validate returns no error. *)
GroupValid(g) ==
  /\ g.name # ""
  /\ g.type # ""
  /\ g.ports = <<>> => g.type # "tcp"
  /\ g.ports # <<>> => g.type # "http" /\ Validate(g.ports)

\* config.validate
ASSUME SeedsAssumption ==
  /\ Seeds \in Seq([name: STRING, type: STRING, ports: Seq(Seq(Int))])
  /\ \A i \in 1..Len(Seeds) : GroupValid(Seeds[i])

TypeOK ==
  /\ \A g \in table : g \in Group /\ g.guid \in used
  /\ \A g, h \in table : g.guid = h.guid => g = h
  /\ readLock \in BOOLEAN
  /\ writeLock \in BOOLEAN
  /\ pc \in [Actors -> {"idle", "fetch", "save", "guarded", "find",
                        "insert", "update", "delete"}]
  /\ op \in [Actors -> {"none", "create", "update", "delete"}]
  /\ rg \in [Actors -> Group \cup {NoGroup}]
  /\ \A a \in Actors : pc[a] = "idle" <=> rg[a] = NoGroup
  /\ starts \in 0..MaxStarts
  /\ fails \in 0..MaxFails
  /\ used \subseteq Guids

Init ==
  /\ table = {}
  /\ readLock = FALSE
  /\ writeLock = FALSE
  /\ pc = [a \in Actors |-> "idle"]
  /\ op = [a \in Actors |-> "none"]
  /\ rg = [a \in Actors |-> NoGroup]
  /\ todo = <<>>
  /\ starts = 0
  /\ fails = 0
  /\ used = {}

Goto(a, l) == pc' = [pc EXCEPT ![a] = l]

\* The call ends.  An error ends the seeder's process.
Return(a, err) ==
  /\ pc' = [pc EXCEPT ![a] = "idle"]
  /\ op' = [op EXCEPT ![a] = "none"]
  /\ rg' = [rg EXCEPT ![a] = NoGroup]
  /\ todo' = IF a = Seeder /\ err THEN <<>> ELSE todo

Stored(guid) == {g \in table : g.guid = guid}

-----------------------------------------------------------------------------
(* The handlers.  Definitions named ...Faulty are variants with a plausible *)
(* mistake; no specification uses them.                                     *)

\* A create request, up to the lock test of ReadRouterGroups.  The body may
\* hold a guid.
CreateRouterGroup(h, g) ==
  /\ pc[h] = "idle"
  /\ ~readLock
  /\ Goto(h, "fetch")
  /\ op' = [op EXCEPT ![h] = "create"]
  /\ rg' = [rg EXCEPT ![h] = g]
  /\ UNCHANGED <<table, lockVars, todo, starts, fails, used>>

Exists(g) == \E r \in table : r.name = g.name /\ r.type = g.type

\* The rest of CreateRouterGroup up to SaveRouterGroup: a group of that name
\* and type is returned as it is; otherwise the group gets a new guid and is
\* validated together with the groups read.
CreateFetch(h) ==
  /\ pc[h] = "fetch"
  /\ op[h] = "create"
  /\ IF Exists(rg[h]) \/ ~(\A r \in table \cup {rg[h]} : GroupValid(r))
     THEN Return(h, FALSE) /\ UNCHANGED used
     ELSE \E guid \in Guids \ used :
            /\ used' = used \cup {guid}
            /\ rg' = [rg EXCEPT ![h].guid = guid]
            /\ Goto(h, "save")
            /\ UNCHANGED <<op, todo>>
  /\ UNCHANGED <<table, lockVars, starts, fails>>

UpdateRouterGroup(h, g) ==
  /\ pc[h] = "idle"
  /\ ~readLock
  /\ Goto(h, "fetch")
  /\ op' = [op EXCEPT ![h] = "update"]
  /\ rg' = [rg EXCEPT ![h] = g]
  /\ UNCHANGED <<table, lockVars, todo, starts, fails, used>>

UpdateFetchUnvalidatedFaulty(h) ==
  /\ pc[h] = "fetch"
  /\ op[h] = "update"
  /\ \/ /\ Stored(rg[h].guid) = {}
        /\ Return(h, FALSE)
     \/ \E r \in Stored(rg[h].guid) :
          /\ Goto(h, "save")
          /\ rg' = [rg EXCEPT ![h] = [r EXCEPT !.ports = rg[h].ports]]
          /\ UNCHANGED <<op, todo>>
  /\ UNCHANGED <<table, lockVars, starts, fails, used>>

\* The rest of UpdateRouterGroup up to SaveRouterGroup: of the body, only the
\* ports are taken over, and only if they differ and the result is valid.
UpdateFetch(h) ==
  /\ pc[h] = "fetch"
  /\ op[h] = "update"
  /\ \/ /\ Stored(rg[h].guid) = {}
        /\ Return(h, FALSE)
     \/ \E r \in Stored(rg[h].guid) :
          LET new == [r EXCEPT !.ports = rg[h].ports] IN
          IF new = r \/ ~GroupValid(new) THEN Return(h, FALSE)
          ELSE /\ Goto(h, "save")
               /\ rg' = [rg EXCEPT ![h] = new]
               /\ UNCHANGED <<op, todo>>
  /\ UNCHANGED <<table, lockVars, starts, fails, used>>

DeleteRouterGroup(h, g) ==
  /\ pc[h] = "idle"
  /\ Goto(h, "save")
  /\ op' = [op EXCEPT ![h] = "delete"]
  /\ rg' = [rg EXCEPT ![h] = g]
  /\ UNCHANGED <<table, lockVars, todo, starts, fails, used>>

-----------------------------------------------------------------------------
(* SaveRouterGroup and DeleteRouterGroup of SqlDB.                          *)

GuardWriteUntestedFaulty(a) ==
  /\ pc[a] = "save"
  /\ Goto(a, "guarded")
  /\ UNCHANGED <<op, rg, todo, table, lockVars, starts, fails, used>>

\* isWriteLocked
GuardWrite(a) ==
  /\ pc[a] = "save"
  /\ IF writeLock /\ a # Seeder THEN Return(a, TRUE)
     ELSE Goto(a, "guarded") /\ UNCHANGED <<op, rg, todo>>
  /\ UNCHANGED <<table, lockVars, starts, fails, used>>

\* isReadLocked in ReadRouterGroup
GuardRead(a) ==
  /\ pc[a] = "guarded"
  /\ IF readLock /\ a # Seeder THEN Return(a, TRUE)
     ELSE Goto(a, "find") /\ UNCHANGED <<op, rg, todo>>
  /\ UNCHANGED <<table, lockVars, starts, fails, used>>

\* updateRouterGroup: the stored group takes over the ports, and a name or type
\* that is not empty.
Merge(old, new) ==
  [old EXCEPT !.ports = new.ports,
              !.name = IF new.name = "" THEN @ ELSE new.name,
              !.type = IF new.type = "" THEN @ ELSE new.type]

\* SELECT by guid decides between Create, Save and Delete; there is nothing to
\* delete when no row is found.
Find(a) ==
  /\ pc[a] = "find"
  /\ \/ /\ Stored(rg[a].guid) = {}
        /\ IF op[a] = "delete" THEN Return(a, TRUE)
           ELSE Goto(a, "insert") /\ UNCHANGED <<op, rg, todo>>
     \/ \E r \in Stored(rg[a].guid) :
          /\ IF op[a] = "delete" THEN Goto(a, "delete") /\ UNCHANGED rg
             ELSE /\ Goto(a, "update")
                  /\ rg' = [rg EXCEPT ![a] = Merge(r, rg[a])]
          /\ UNCHANGED <<op, todo>>
  /\ UNCHANGED <<table, lockVars, starts, fails, used>>

\* The unique index idx_rg_name lets the row g be written.
NameFree(g) == \A r \in table : r.name = g.name => r.guid = g.guid

\* Client.Create.  The primary key is unique as well.
Insert(a) ==
  /\ pc[a] = "insert"
  /\ IF NameFree(rg[a]) /\ Stored(rg[a].guid) = {}
     THEN table' = table \cup {rg[a]} /\ Return(a, FALSE)
     ELSE Return(a, TRUE) /\ UNCHANGED table
  /\ UNCHANGED <<lockVars, starts, fails, used>>

\* Client.Save finds its row gone, and its INSERT is one with ON DUPLICATE KEY
\* UPDATE, for which on MySQL the unique name counts as well.  PostgreSQL names
\* the primary key: ON CONFLICT (guid).
TakesOver(g) == MySQL /\ Stored(g.guid) = {} /\ ~NameFree(g)

\* Client.Save: UPDATE by primary key, or INSERT when the row has gone.
Update(a) ==
  /\ pc[a] = "update"
  /\ ~TakesOver(rg[a])
  /\ IF NameFree(rg[a])
     THEN /\ table' = (table \ Stored(rg[a].guid)) \cup {rg[a]}
          /\ Return(a, FALSE)
     ELSE Return(a, TRUE) /\ UNCHANGED table
  /\ UNCHANGED <<lockVars, starts, fails, used>>

\* The group that has the name by now keeps its guid and takes over the rest.
UpdateOver(a) ==
  /\ pc[a] = "update"
  /\ TakesOver(rg[a])
  /\ table' = {IF r.name = rg[a].name THEN [rg[a] EXCEPT !.guid = r.guid] ELSE r :
                 r \in table}
  /\ Return(a, FALSE)
  /\ UNCHANGED <<lockVars, starts, fails, used>>

\* DELETE by guid.
Delete(a) ==
  /\ pc[a] = "delete"
  /\ table' = table \ Stored(rg[a].guid)
  /\ Return(a, FALSE)
  /\ UNCHANGED <<lockVars, starts, fails, used>>

\* A SQL statement fails.
StatementFails(a) ==
  /\ pc[a] \in {"fetch", "find", "insert", "update", "delete"}
  /\ fails < MaxFails
  /\ fails' = fails + 1
  /\ Return(a, TRUE)
  /\ UNCHANGED <<table, lockVars, starts, used>>

-----------------------------------------------------------------------------
(* Locks, seeding and crashes.                                              *)

\* PUT lock_router_group_reads, unlock_..., lock_router_group_writes, ...
SetLocks ==
  /\ \/ readLock' \in BOOLEAN /\ UNCHANGED writeLock
     \/ writeLock' \in BOOLEAN /\ UNCHANGED readLock
  /\ UNCHANGED <<table, pc, op, rg, todo, starts, fails, used>>

\* A process starts: an empty table is to be seeded.  When the read fails it
\* yields no groups and its error is dropped, so the table is seeded as well.
Seed ==
  /\ starts < MaxStarts
  /\ starts' = starts + 1
  /\ todo = <<>>
  /\ pc[Seeder] = "idle"
  /\ \/ table = {} /\ UNCHANGED fails
     \/ fails < MaxFails /\ fails' = fails + 1
  /\ todo' = Seeds
  /\ UNCHANGED <<table, lockVars, pc, op, rg, used>>

\* The next group of the configuration gets a guid and is saved.
SeedNext ==
  /\ pc[Seeder] = "idle"
  /\ todo # <<>>
  /\ \E guid \in Guids \ used :
       /\ used' = used \cup {guid}
       /\ rg' = [rg EXCEPT ![Seeder] =
            [guid |-> guid, name |-> Head(todo).name, type |-> Head(todo).type,
             ports |-> Head(todo).ports]]
  /\ todo' = Tail(todo)
  /\ Goto(Seeder, "save")
  /\ op' = [op EXCEPT ![Seeder] = "create"]
  /\ UNCHANGED <<table, lockVars, starts, fails>>

\* The serving process dies and another one takes over, its locks not set.
Crash ==
  /\ fails < MaxFails
  /\ fails' = fails + 1
  /\ pc' = [a \in Actors |-> IF a = Seeder THEN pc[a] ELSE "idle"]
  /\ op' = [a \in Actors |-> IF a = Seeder THEN op[a] ELSE "none"]
  /\ rg' = [a \in Actors |-> IF a = Seeder THEN rg[a] ELSE NoGroup]
  /\ readLock' = FALSE
  /\ writeLock' = FALSE
  /\ UNCHANGED <<table, todo, starts, used>>

\* Request bodies.  An update reads only the ports of its body and a delete has
\* none; the guid is in their path.
Bodies == [guid: Guids, name: Names, type: Types, ports: PortTexts]
Updates == [guid: used, name: {""}, type: {""}, ports: PortTexts]
Deletes == [guid: used, name: {""}, type: {""}, ports: {<<>>}]

Step(a) ==
  \/ GuardWrite(a) \/ GuardRead(a) \/ Find(a)
  \/ Insert(a) \/ Update(a) \/ UpdateOver(a) \/ Delete(a)

Next ==
  \/ \E h \in Handlers :
       \/ \E g \in Bodies : CreateRouterGroup(h, g)
       \/ \E g \in Updates : UpdateRouterGroup(h, g)
       \/ \E g \in Deletes : DeleteRouterGroup(h, g)
       \/ CreateFetch(h) \/ UpdateFetch(h)
  \/ \E a \in Actors : Step(a) \/ StatementFails(a)
  \/ SetLocks \/ Seed \/ SeedNext \/ Crash

Spec == Init /\ [][Next]_vars

\* A request past its lock test goes on; requests need not arrive.
Fairness == \A h \in Handlers : WF_vars(Step(h))

FairSpec == Spec /\ Fairness

-----------------------------------------------------------------------------
(* Properties.                                                              *)

\* Handlers, seeding and SaveRouterGroup's merge: a stored router group is
\* valid, whatever requests and seeds run at the same time.
GroupsValid == \A g \in table : GroupValid(g)

\* "These ports must fall between 1024 and 65535" (docs/02-api-docs.md): what
\* the texts of a stored group denote are such ports, each of them once, and
\* none reserved for a system component when conflicts are to fail.
ValidPortsOnce ==
  \A g \in table : LET ranges == Parse(g.ports) IN
    /\ \A i \in 1..Len(g.ports) : PortsOf(ranges[i]) \subseteq MinPort..PortMax
    /\ \A i, j \in 1..Len(g.ports) : \A q \in Port :
         q \in PortsOf(ranges[i]) /\ q \in PortsOf(ranges[j]) => i = j
    /\ FailOnConflict =>
         \A i \in 1..Len(g.ports) : PortsOf(ranges[i]) \cap ReservedPorts = {}

\* "Only the `reservable_ports` field may be updated" (docs/02-api-docs.md): no
\* request, a create whose body names an existing guid and an update of a group
\* deleted meanwhile included, changes the name of a stored group; and none its
\* type, except on MySQL, where UpdateOver does.
OnlyPortsUpdated ==
  [][\A g \in table, h \in table' : g.guid = h.guid =>
       g.name = h.name /\ (~MySQL => g.type = h.type)]_vars

Writing == {h \in Handlers : pc[h] \in {"guarded", "find", "insert", "update", "delete"}}

\* rwLocker: while writes stay locked, only requests that passed the test before
\* can still write; no other request joins them.
NoNewWrites == [][writeLock /\ writeLock' => Writing' \subseteq Writing]_vars

\* rwLocker and its test in SaveRouterGroup and DeleteRouterGroup: requests past
\* the test still write when a backup locks writes; once writes stay locked
\* these come to their end and no others follow, so that the table settles.
BackupSettles == <>[]writeLock => <>[](Writing = {})

=============================================================================
