------------------------------ MODULE Migration -------------------------------
(***************************************************************************)
(* The schema migrations of migration/: several processes, of this release *)
(* or an older one, that take the lock, bring the schema up to the last    *)
(* version they know and then serve.  A migration is the list of the       *)
(* statements its Run executes; every statement commits by itself, and a   *)
(* process may die, fail or lose its lock before any of them.              *)
(*                                                                         *)
(* A process looks at neither signals nor its lock while it migrates       *)
(* (Runner.Run), so one that lost the lock goes on to the end.             *)
(*                                                                         *)
(* Of the tables only what the migrations read or change is kept: whether  *)
(* two router groups share a name, the unique index of tcp_routes, the     *)
(* columns it is over, the type of those that hold text and the default of *)
(* host_tls_port.  All mappings have the same group, ports and address.    *)
(***************************************************************************)
EXTENDS Integers, Sequences, FiniteSets

CONSTANTS
  Procs,       \* routing-api processes
  Last,        \* Last[p]: the last migration in the list of p's release
  Releases,    \* the last migrations of the releases that may have left the database
  Mappings,    \* the TCP route mappings clients post
  MaxRows,     \* bound: rows of tcp_routes
  MaxFaults,   \* bound: crashes, failed statements and lost locks
  Null         \* SQL NULL; also no index, no version row, no lock holder

VARIABLES
  lock,        \* the process that holds the lock
  row,         \* the row of migration_data
  index,       \* columns of idx_tcp_route besides those it always has
  columns,     \* columns of tcp_routes that migrations add
  varchar,     \* the indexed text columns are VARCHAR still, as an older release
               \* made them on MySQL
  tlsDefault,  \* default of host_tls_port
  rows,        \* tcp_routes: guid, sni, tls, fe, mtls; a column not yet added has
               \* the default it will get
  sameNames,   \* two router groups have the same name
  pc,          \* pc[p]: where process p is: "waiting" for the lock, "begin",
               \* "create", "save", "run" while it migrates, or "serving"
  held,        \* held[p]: existingVersion
  stmt,        \* stmt[p]: the statement of the migration p is at
  faults,      \* faults so far
  lost,        \* some process has lost the lock while it ran
  done         \* versions some process has run to the end

schema   == <<index, columns, varchar, tlsDefault, rows>>
procVars == <<pc, held, stmt>>
vars     == <<lock, row, schema, sameNames, procVars, faults, lost, done>>

-----------------------------------------------------------------------------
Columns == {"sni", "tls", "fe", "mtls"}

\* InitializeMigrations.
Versions == {0} \cup 2..11

VersionRow == [current: Versions \cup {-1}, target: Versions]

ASSUME ConstantsAssumption ==
  /\ Last \in [Procs -> Versions]
  /\ Releases \subseteq {-1, 0, 5, 6, 7}
  /\ Null \notin Procs \cup VersionRow
  /\ MaxRows \in Nat
  /\ MaxFaults \in Nat
  /\ Mappings \subseteq [sni: STRING \cup {Null}, tls: Nat, fe: BOOLEAN, mtls: BOOLEAN]

-----------------------------------------------------------------------------
(* The statements and the migrations made of them.  Definitions named       *)
(* ...Faulty are variants with a plausible mistake; no specification uses   *)
(* them.                                                                    *)

DropIndex == [op |-> "drop"]
AutoMigrate == [op |-> "auto"]
CreateIndex(cols) == [op |-> "index", cols |-> cols]
RefuseSameNames == [op |-> "names"]
NullToZero == [op |-> "zero"]
DefaultZero == [op |-> "default"]
NoEffect == [op |-> "none"]

V0InitMigration            == <<AutoMigrate>>
V2UpdateRgMigration        == <<RefuseSameNames, NoEffect, NoEffect>>
V3UpdateTcpRouteMigration  == <<AutoMigrate>>
V4AddRgUniqIdxTCPRoute     == <<DropIndex, CreateIndex({})>>
V5SniHostnameMigration     == <<DropIndex, AutoMigrate, CreateIndex({"sni"})>>
V6TCPTLSRoutes             == <<DropIndex, AutoMigrate, CreateIndex({"sni", "tls"})>>
V7TCPTLSRoutes             == <<NoEffect, DropIndex, CreateIndex({"sni", "tls"})>>
V8HostTLSPortTCPDefaultZero == <<NullToZero, DropIndex, DefaultZero>>
V9TerminateFrontendTLS ==
  <<DropIndex, AutoMigrate, CreateIndex({"sni", "tls", "fe"})>>
V10SniRewriteHostname ==
  <<DropIndex, AutoMigrate, CreateIndex({"sni", "tls", "fe"})>>
\* Faulty: the old index is not dropped.
V11KeepsIndexFaulty == <<AutoMigrate, CreateIndex({"sni", "tls", "fe", "mtls"})>>

V11EnableBackendMTLS ==
  <<DropIndex, AutoMigrate, CreateIndex({"sni", "tls", "fe", "mtls"})>>

Run == [v \in Versions |->
  CASE v = 0  -> V0InitMigration
    [] v = 2  -> V2UpdateRgMigration
    [] v = 3  -> V3UpdateTcpRouteMigration
    [] v = 4  -> V4AddRgUniqIdxTCPRoute
    [] v = 5  -> V5SniHostnameMigration
    [] v = 6  -> V6TCPTLSRoutes
    [] v = 7  -> V7TCPTLSRoutes
    [] v = 8  -> V8HostTLSPortTCPDefaultZero
    [] v = 9  -> V9TerminateFrontendTLS
    [] v = 10 -> V10SniRewriteHostname
    [] v = 11 -> V11EnableBackendMTLS]

\* TcpMappingEntity of earlier releases, as migration/v0, v5, v6 and v7 keep it.
v0Columns == {}
v5Columns == {"sni"}
v6Columns == {"sni", "tls"}
v7Columns == {"sni", "tls"}

\* The columns of the TcpRouteMapping a release migrates to.
ModelColumns(last) ==
  CASE last < 5       -> v0Columns
    [] last = 5       -> v5Columns
    [] last = 6       -> v6Columns
    [] last \in 7..8  -> v7Columns
    [] last \in 9..10 -> Columns \ {"mtls"}
    [] last = 11      -> Columns

\* A unique index over cols refuses one of r and s; NULL differs from NULL.
Agree(r, s, cols) == \A c \in cols : r[c] = s[c] /\ r[c] # Null

Unique(rs, cols) == \A r, s \in rs : r.guid # s.guid => ~Agree(r, s, cols)

\* The unique index, if there is one, lets the rows in.
Admitted(rs) == index # Null => Unique(rs, index)

ZeroForNull == {[r EXCEPT !.tls = IF @ = Null THEN 0 ELSE @] : r \in rows}

\* One statement of a migration of process p, when the database accepts it.
\* AutoMigrate adds the model's columns, makes VARCHAR columns LONGTEXT, which
\* MySQL refuses for columns of an index (error 1170), and sets the column default
\* back to the one in the model's tag, which is null.
Exec(p, s) ==
  \/ /\ s.op = "drop"
     /\ index' = Null
     /\ UNCHANGED <<columns, varchar, tlsDefault, rows>>
  \/ /\ s.op = "auto"
     /\ ~(varchar /\ index # Null)
     /\ varchar' = FALSE
     /\ columns' = columns \cup ModelColumns(Last[p])
     /\ tlsDefault' = Null
     /\ UNCHANGED <<index, rows>>
  \/ /\ s.op = "index"
     /\ index = Null
     /\ s.cols \subseteq columns
     /\ Unique(rows, s.cols)
     /\ index' = s.cols
     /\ UNCHANGED <<columns, varchar, tlsDefault, rows>>
  \/ /\ s.op = "names"
     /\ ~sameNames
     /\ UNCHANGED schema
  \/ /\ s.op = "zero"
     /\ Admitted(ZeroForNull)
     /\ rows' = ZeroForNull
     /\ UNCHANGED <<index, columns, varchar, tlsDefault>>
  \/ /\ s.op = "default"
     /\ tlsDefault' = 0
     /\ UNCHANGED <<index, columns, varchar, rows>>
  \/ /\ s.op = "none"
     /\ UNCHANGED schema

\* The database refuses the statement.
Refused(s) ==
  \/ s.op = "auto" /\ varchar /\ index # Null
  \/ s.op = "index" /\ (index # Null \/ ~(s.cols \subseteq columns)
                         \/ ~Unique(rows, s.cols))
  \/ s.op = "names" /\ sameNames
  \/ s.op = "zero" /\ ~Admitted(ZeroForNull)

-----------------------------------------------------------------------------
\* The row a release of version v stores for m.
LeftRow(v, g, m) ==
  [guid |-> g,
   sni |-> IF "sni" \in ModelColumns(v) THEN m.sni ELSE Null,
   tls |-> IF "tls" \in ModelColumns(v) /\ m.tls # 0 THEN m.tls ELSE Null,
   fe |-> FALSE, mtls |-> FALSE]

\* What release v left: for -1 a database older than the migrations, which may
\* hold router groups, otherwise the tables of migration/v0, v5, v6 or v7 with
\* the unique index their model tags declare, on MySQL over VARCHAR columns.
Left(v) ==
  IF v = -1
    THEN /\ row = Null
         /\ index = Null
         /\ columns = {}
         /\ varchar = FALSE
         /\ rows = {}
         /\ sameNames \in BOOLEAN
    ELSE /\ row = [current |-> v, target |-> v]
         /\ index = ModelColumns(v)
         /\ columns = ModelColumns(v)
         /\ varchar \in BOOLEAN
         /\ rows \in {rs \in SUBSET {LeftRow(v, g, m) :
                                       g \in 1..MaxRows, m \in Mappings} :
                        /\ \A r, s \in rs : r.guid = s.guid => r = s
                        /\ Unique(rs, index)}
         /\ sameNames = FALSE

Init ==
  /\ \E v \in Releases : Left(v) /\ done = {w \in Versions : w <= v}
  /\ tlsDefault = Null
  /\ lock = Null
  /\ pc = [p \in Procs |-> "waiting"]
  /\ held = [p \in Procs |-> Null]
  /\ stmt = [p \in Procs |-> 1]
  /\ faults = 0
  /\ lost = FALSE

-----------------------------------------------------------------------------
(* RunMigrations.                                                           *)

\* Faulty: without the lock.
AcquireAnyFaulty(p) ==
  /\ pc[p] = "waiting"
  /\ lock' = p
  /\ pc' = [pc EXCEPT ![p] = "begin"]
  /\ UNCHANGED <<row, schema, sameNames, held, stmt, faults, lost, done>>

\* The lock is taken before the migrations start.
Acquire(p) ==
  /\ pc[p] = "waiting"
  /\ lock = Null
  /\ lock' = p
  /\ pc' = [pc EXCEPT ![p] = "begin"]
  /\ UNCHANGED <<row, schema, sameNames, held, stmt, faults, lost, done>>

Goto(p, l) == pc' = [pc EXCEPT ![p] = l]

\* Faulty: the target is compared.
UpToDateTargetFaulty(p, r) == r.target >= Last[p]

\* "already-at-latest-version".
UpToDate(p, r) == r.current >= Last[p]

\* The transaction reads the row.
Begin(p) ==
  /\ pc[p] = "begin"
  /\ \/ /\ row = Null
        /\ held' = [held EXCEPT ![p] = [current |-> -1, target |-> Last[p]]]
        /\ Goto(p, "create")
     \/ /\ row # Null
        /\ UpToDate(p, row)
        /\ Goto(p, "serving")
        /\ UNCHANGED held
     \/ /\ row # Null
        /\ ~UpToDate(p, row)
        /\ held' = [held EXCEPT ![p] = [row EXCEPT !.target = Last[p]]]
        /\ Goto(p, "save")
  /\ UNCHANGED <<lock, row, schema, sameNames, stmt, faults, lost, done>>

\* The transaction writes the row and commits.  Create needs the key to be free
\* still; Save writes all of the row that was read.
Commit(p) ==
  /\ \/ pc[p] = "create" /\ row = Null
     \/ pc[p] = "save"
  /\ row' = held[p]
  /\ stmt' = [stmt EXCEPT ![p] = 1]
  /\ Goto(p, "run")
  /\ UNCHANGED <<lock, schema, sameNames, held, faults, lost, done>>

\* The version the loop is at: the first above existingVersion.CurrentVersion.
At(p, v) ==
  /\ v > held[p].current
  /\ \A w \in Versions : w > held[p].current => v <= w

\* The next statement of the migration succeeds.
RunStatement(p) ==
  /\ pc[p] = "run"
  /\ \E v \in Versions :
       /\ At(p, v)
       /\ stmt[p] <= Len(Run[v])
       /\ Exec(p, Run[v][stmt[p]])
  /\ stmt' = [stmt EXCEPT ![p] = @ + 1]
  /\ UNCHANGED <<lock, row, sameNames, pc, held, faults, lost, done>>

\* Faulty: the version is recorded before the last statement has run.
SaveVersionEarlyFaulty(p) ==
  /\ pc[p] = "run"
  /\ \E v \in Versions :
       /\ At(p, v)
       /\ stmt[p] = Len(Run[v])
       /\ row' = [held[p] EXCEPT !.current = v]
       /\ held' = [held EXCEPT ![p] = row']
       /\ Goto(p, IF v = Last[p] THEN "serving" ELSE "run")
  /\ stmt' = [stmt EXCEPT ![p] = 1]
  /\ UNCHANGED <<lock, schema, sameNames, faults, lost, done>>

\* The migration has returned: its version is saved, with the rest of the row as
\* it was read.  After the last migration the process serves.
SaveVersion(p) ==
  /\ pc[p] = "run"
  /\ \E v \in Versions :
       /\ At(p, v)
       /\ stmt[p] > Len(Run[v])
       /\ row' = [held[p] EXCEPT !.current = v]
       /\ held' = [held EXCEPT ![p] = row']
       /\ done' = done \cup {v}
       /\ Goto(p, IF v = Last[p] THEN "serving" ELSE "run")
  /\ stmt' = [stmt EXCEPT ![p] = 1]
  /\ UNCHANGED <<lock, schema, sameNames, faults, lost>>

\* The process is gone and its lock with it; it is started again.
Exit(p) ==
  /\ lock' = IF lock = p THEN Null ELSE lock
  /\ pc' = [pc EXCEPT ![p] = "waiting"]
  /\ held' = [held EXCEPT ![p] = Null]
  /\ stmt' = [stmt EXCEPT ![p] = 1]

\* A statement is refused: RunMigrations returns the error, the process ends.
MigrationFails(p) ==
  /\ \/ pc[p] = "create" /\ row # Null
     \/ /\ pc[p] = "run"
        /\ \E v \in Versions : /\ At(p, v)
                               /\ stmt[p] <= Len(Run[v])
                               /\ Refused(Run[v][stmt[p]])
  /\ Exit(p)
  /\ UNCHANGED <<row, schema, sameNames, faults, lost, done>>

-----------------------------------------------------------------------------
(* Serving processes, and faults.                                           *)

\* A request of a client: the columns the release does not know, and a TLS port
\* left out, get the column's default.
Insert(p, m) ==
  /\ pc[p] = "serving"
  /\ m.fe => Last[p] >= 9
  /\ m.mtls => Last[p] >= 11
  /\ \E g \in 1..MaxRows :
       LET r == [guid |-> g, sni |-> m.sni,
                 tls |-> IF m.tls = 0 THEN tlsDefault ELSE m.tls,
                 fe |-> m.fe, mtls |-> m.mtls]
       IN /\ \A s \in rows : s.guid # g
          /\ Admitted(rows \cup {r})
          /\ rows' = rows \cup {r}
  /\ UNCHANGED <<lock, row, index, columns, varchar, tlsDefault, sameNames,
                 procVars, faults, lost, done>>

\* A row is deleted or pruned.
Remove(p, r) ==
  /\ pc[p] = "serving"
  /\ r \in rows
  /\ rows' = rows \ {r}
  /\ UNCHANGED <<lock, row, index, columns, varchar, tlsDefault, sameNames,
                 procVars, faults, lost, done>>

\* A process that serves without its lock finds out and ends.
Stop(p) ==
  /\ pc[p] = "serving"
  /\ lock # p
  /\ Exit(p)
  /\ UNCHANGED <<row, schema, sameNames, faults, lost, done>>

Fault ==
  /\ faults < MaxFaults
  /\ faults' = faults + 1

\* The process dies, or a statement fails without effect.
Crash(p) ==
  /\ pc[p] # "waiting"
  /\ Fault
  /\ Exit(p)
  /\ UNCHANGED <<row, schema, sameNames, lost, done>>

\* A commit reports an error although it took place.
CommitUncertain(p) ==
  /\ \/ pc[p] = "create" /\ row = Null
     \/ pc[p] = "save"
  /\ Fault
  /\ row' = held[p]
  /\ Exit(p)
  /\ UNCHANGED <<schema, sameNames, lost, done>>

\* dropIndex does not look at the error.
DropIgnored(p) ==
  /\ pc[p] = "run"
  /\ \E v \in Versions : /\ At(p, v)
                         /\ stmt[p] <= Len(Run[v])
                         /\ Run[v][stmt[p]] = DropIndex
  /\ Fault
  /\ stmt' = [stmt EXCEPT ![p] = @ + 1]
  /\ UNCHANGED <<lock, row, schema, sameNames, pc, held, lost, done>>

LoseLock(p) ==
  /\ lock = p
  /\ Fault
  /\ lock' = Null
  /\ lost' = TRUE
  /\ UNCHANGED <<row, schema, sameNames, procVars, done>>

Step(p) ==
  \/ Begin(p) \/ Commit(p) \/ RunStatement(p) \/ SaveVersion(p)
  \/ MigrationFails(p) \/ Stop(p)

Next ==
  \E p \in Procs :
    \/ Acquire(p) \/ Step(p)
    \/ \E m \in Mappings : Insert(p, m)
    \/ \E r \in rows : Remove(p, r)
    \/ Crash(p) \/ CommitUncertain(p) \/ DropIgnored(p) \/ LoseLock(p)

Spec == Init /\ [][Next]_vars

\* A process goes on with its migrations, and a free lock is taken.
FairSpec ==
  /\ Spec
  /\ \A p \in Procs : WF_vars(Step(p))
  /\ WF_vars(\E p \in Procs : Acquire(p))

-----------------------------------------------------------------------------
(* Properties.                                                              *)

\* RunMigrations: every migration up to the recorded version has run to its end,
\* whatever failed or died and even if a process that lost the lock migrates at
\* the same time.
RecordedIsDone ==
  row # Null => \A v \in Versions : v <= row.current => v \in done

\* RunMigrations, under the lock: while no process has lost the lock the recorded
\* version never goes back, so no migration runs again once it is recorded.
VersionKept ==
  [][~lost' /\ row # Null => row' # Null /\ row'.current >= row.current]_vars

\* The index the migrations up to v leave.
IndexAfter(v) == IF v = 8 THEN Null ELSE ModelColumns(v)

\* RunMigrations: a process that serves with its release the last to have
\* migrated has the unique index that release expects, after crashes too.  A
\* process of an older release does not: it serves at once when the recorded
\* version is its own, although the newer one may have died after DropIndex.
ServesWithIndex ==
  \A p \in Procs :
    pc[p] = "serving" /\ ~lost /\ row.target = Last[p]
      => index = IndexAfter(Last[p])

\* V8 gives host_tls_port the default 0, and the AutoMigrate of V9 and later puts
\* back null, the default in the model's tag.  A process of such a release serves
\* only when it is back: a mapping posted without a TLS port is stored with NULL,
\* which no row of the unique index equals, after crashes in between too.
DefaultIsNull ==
  \A p \in Procs :
    pc[p] = "serving" /\ ~lost /\ Last[p] >= 9 => tlsDefault = Null

\* What the migrations cannot get past.  Two router groups share a name; or once
\* V8 has filled in the TLS port some rows differ in no column of the index; or V3,
\* which drops no index first, has to widen indexed VARCHAR columns.  A process
\* that lost its lock can take the version back to 3, and V4 then has to index
\* rows of the newer release without the columns they differ in.
InTheWay ==
  \/ sameNames
  \/ varchar /\ index # Null /\ row.current < 3
  \/ \E r, s \in ZeroForNull :
       r.guid # s.guid /\ Agree(r, s, IF lost THEN {} ELSE {"sni", "tls"})

\* Runner.Run: once faults have stopped, some process serves again and again
\* unless the database is one that the migrations cannot get past.
ServesAgain == []<>((\E p \in Procs : pc[p] = "serving") \/ InTheWay)

=============================================================================
