------------------------------ MODULE TcpRoutes -------------------------------
(***************************************************************************)
(* TCP route mappings: the batch requests of                               *)
(* handlers/tcp_route_mappings_handler.go, their validation, the table and *)
(* its unique index, and the pruner.  Every SQL statement is one step.     *)
(*                                                                         *)
(* Time is relative: a row carries the ticks it has left, so requests may  *)
(* renew rows for ever.  A tick is a second, the precision every supported *)
(* database keeps.  Modification tags, events and the flag that keeps      *)
(* pruning goroutines apart work as in RouteStore and are left out here,   *)
(* with the columns nothing decides on.                                    *)
(***************************************************************************)
EXTENDS Integers, Sequences, FiniteSets

CONSTANTS
  Clients,     \* request goroutines
  Upserts,     \* Upserts[c]: the batches client c posts
  Deletes,     \* Deletes[c]: the batches client c posts for deletion
  Readers,     \* the sets of isolation segments routers ask for
  Groups,      \* guids of the router groups that exist at first
  MaxTTL,      \* maxTTL of the handler, in ticks
  MaxRows,     \* bound: rows stored, held or found at a time
  None,        \* nil or, where the code has no nil, the empty string
  EmptySni     \* the empty string as an SNI hostname

VARIABLES
  groups,      \* guids in the router_groups table
  rows,        \* the tcp_routes table: guid, key, tls, alpns, iso and left, the ticks
               \* until it expires
  pc,          \* pc[c]: where client c is in its request: "idle", "validate", "find",
               \* "save", "create", "findDelete" or "delete"
  batch,       \* batch[c]: the mappings of the request
  pos,         \* pos[c]: the mapping the loop is at
  read,        \* read[c]: the router groups the request read
  cur,         \* cur[c]: the row client c holds between two statements
  pruner,      \* where the pruning goroutine is
  found        \* guids the pruner read

vars == <<groups, rows, pc, batch, pos, read, cur, pruner, found>>

requestVars == <<batch, pos, read>>
pruneVars   == <<pruner, found>>

-----------------------------------------------------------------------------
Second == 1

\* A row this far past its expiry stays so until it is renewed or pruned.
Floor == -Second - 1

Guids == 1..MaxRows

MaxPort == 65535

\* A mapping of a request.
Mapping == [group: Groups \cup {None}, port: Nat, sni: STRING \cup {None, EmptySni},
            ip: STRING \cup {None}, hostPort: Nat, tlsPort: Int, mtls: BOOLEAN,
            tls: BOOLEAN, alpns: BOOLEAN, iso: STRING, ttl: Int \cup {None}]

ASSUME ConstantsAssumption ==
  /\ Upserts \in [Clients -> SUBSET Seq(Mapping)]
  /\ Deletes \in [Clients -> SUBSET Seq(Mapping)]
  /\ MaxTTL \in Nat \ {0}
  /\ MaxRows \in Nat

\* The columns FindExistingTcpRouteMapping compares.
KeyOf(m) == [group |-> m.group, port |-> m.port, sni |-> m.sni, ip |-> m.ip,
             hostPort |-> m.hostPort, tlsPort |-> m.tlsPort, mtls |-> m.mtls]

\* The columns a created row has: gorm leaves out a port of zero and the column's
\* default is NULL (Migration), which no comparison finds equal to zero.
StoredKey(m) == [KeyOf(m) EXCEPT !.tlsPort = IF @ = 0 THEN None ELSE @]

Keys ==
  UNION {{StoredKey(b[i]) : i \in DOMAIN b} : b \in UNION {Upserts[c] : c \in Clients}}

Init ==
  /\ groups = Groups
  /\ rows = {}
  /\ pc = [c \in Clients |-> "idle"]
  /\ batch = [c \in Clients |-> <<>>]
  /\ pos = [c \in Clients |-> 1]
  /\ read = [c \in Clients |-> {}]
  /\ cur = [c \in Clients |-> None]
  /\ pruner = "idle"
  /\ found = {}

-----------------------------------------------------------------------------
(* The database.  Definitions named ...Faulty are variants with a plausible *)
(* mistake; no specification uses them.                                     *)

\* expires_at > now.
ReadTcpRouteMappings == {r \in rows : r.left > 0}

ReadFilteredTcpRouteMappings(segments) ==
  {r \in ReadTcpRouteMappings : r.iso \in segments}

\* GET /routing/v1/tcp_routes: all mappings, or those of some isolation segments.
List(segments) ==
  IF segments # {} THEN ReadFilteredTcpRouteMappings(segments)
  ELSE ReadTcpRouteMappings

\* FindSimilarTcpRouteMappings: the handler passes the empty string for a nil
\* hostname, which no NULL column equals.
FindSimilar(m) ==
  {r \in ReadTcpRouteMappings :
     /\ r.key.sni = IF m.sni = None THEN EmptySni ELSE m.sni
     /\ r.key.port = m.port}

\* FindExistingTcpRouteMapping, expired rows included.
FindExisting(m) == {r \in rows : r.key = KeyOf(m)}

\* Rows that keep r out of idx_tcp_route, the unique index the migrations leave.
\* A NULL hostname or port differs from every other.
Conflicting(r) ==
  {s \in rows : /\ s.guid # r.guid
                /\ s.key = r.key
                /\ s.tls = r.tls
                /\ r.key.sni # None
                /\ r.key.tlsPort # None}

\* FindExpiredRoutes.
FindExpired == {r.guid : r \in {s \in rows : s.left < -Second}}

\* UUIDs nothing refers to; any of them stands for a fresh one.
FreeGuids ==
  Guids \ ({r.guid : r \in rows} \cup found
             \cup {cur[c].guid : c \in {d \in Clients :
                                       pc[d] \in {"save", "create", "delete"}}})

NewV4 == CHOOSE g \in FreeGuids : TRUE

-----------------------------------------------------------------------------
(* Validation.                                                              *)

\* The checks on the TTL in validateTcpRouteMapping.
ValidTtl(ttl) == ttl > 0 /\ ttl <= MaxTTL

\* The other checks of validateTcpRouteMapping, all that a delete applies.
validateTcpRouteMapping(m) ==
  /\ m.group # None
  /\ m.port > 0
  /\ m.ip # None
  /\ m.hostPort > 0 \/ m.tlsPort > 0
  /\ m.tlsPort <= MaxPort
  /\ m.alpns => m.tls

\* Faulty: any router group will do; similar mappings are not compared.
ValidateCreateAnyGroupFaulty(m, similar, known) ==
  /\ validateTcpRouteMapping(m)
  /\ ValidTtl(m.ttl)
  /\ \A r \in similar : r.tls = m.tls
ValidateCreateAnyTlsFaulty(m, similar, known) ==
  /\ validateTcpRouteMapping(m)
  /\ ValidTtl(m.ttl)
  /\ m.group \in known

ValidateCreateTcpRouteMapping(m, similar, known) ==
  /\ validateTcpRouteMapping(m)
  /\ ValidTtl(m.ttl)
  /\ m.group \in known
  /\ \A r \in similar : r.tls = m.tls

ValidateDeleteTcpRouteMapping(b) == \A i \in DOMAIN b : validateTcpRouteMapping(b[i])

SetDefaults(m) == [m EXCEPT !.ttl = IF @ = None THEN MaxTTL ELSE @]

-----------------------------------------------------------------------------
(* Requests.                                                                *)

\* The request is answered.
Answer(c) ==
  /\ pc' = [pc EXCEPT ![c] = "idle"]
  /\ batch' = [batch EXCEPT ![c] = <<>>]
  /\ pos' = [pos EXCEPT ![c] = 1]
  /\ read' = [read EXCEPT ![c] = {}]
  /\ cur' = [cur EXCEPT ![c] = None]

\* The loop body ends: on to the next mapping, at label again; after the last
\* one the request is answered.
NextMapping(c, again) ==
  IF pos[c] < Len(batch[c])
    THEN /\ pos' = [pos EXCEPT ![c] = @ + 1]
         /\ pc' = [pc EXCEPT ![c] = again]
         /\ cur' = [cur EXCEPT ![c] = None]
         /\ UNCHANGED <<batch, read>>
    ELSE Answer(c)

Current(c) == batch[c][pos[c]]

\* Upsert: defaults, then ReadRouterGroups.  An empty batch enters neither loop and
\* is answered without a change.
Upsert(c, b) ==
  /\ pc[c] = "idle"
  /\ b \in Upserts[c]
  /\ b # <<>>
  /\ batch' = [batch EXCEPT ![c] = [i \in DOMAIN b |-> SetDefaults(b[i])]]
  /\ read' = [read EXCEPT ![c] = groups]
  /\ pc' = [pc EXCEPT ![c] = "validate"]
  /\ UNCHANGED <<groups, rows, pos, cur, pruneVars>>

\* First loop of Upsert: similar mappings are read and the mapping validated.
\* After the last one the second loop starts from the beginning; the groups read
\* are not looked at again.
Validate(c) ==
  /\ pc[c] = "validate"
  /\ ValidateCreateTcpRouteMapping(Current(c), FindSimilar(Current(c)), read[c])
  /\ IF pos[c] < Len(batch[c])
       THEN /\ pos' = [pos EXCEPT ![c] = @ + 1]
            /\ UNCHANGED <<pc, read>>
       ELSE /\ pos' = [pos EXCEPT ![c] = 1]
            /\ pc' = [pc EXCEPT ![c] = "find"]
            /\ read' = [read EXCEPT ![c] = {}]
  /\ UNCHANGED <<groups, rows, batch, cur, pruneVars>>

\* The mapping is invalid: the request ends before anything was written.
Reject(c) ==
  /\ pc[c] = "validate"
  /\ ~ValidateCreateTcpRouteMapping(Current(c), FindSimilar(Current(c)), read[c])
  /\ Answer(c)
  /\ UNCHANGED <<groups, rows, pruneVars>>

\* Faulty: the renewal also takes the request's TLS flag.
UpdateTakesTlsFaulty(r, m) == [r EXCEPT !.left = m.ttl, !.iso = m.iso, !.tls = m.tls]

\* The expiry is renewed and the isolation segment changed, nothing else here.
updateTcpRouteMapping(r, m) == [r EXCEPT !.left = m.ttl, !.iso = m.iso]

NewTcpRouteMappingWithModel(g, m) ==
  [guid |-> g, key |-> StoredKey(m), tls |-> m.tls, alpns |-> m.alpns,
   iso |-> m.iso, left |-> m.ttl]

\* SaveTcpRouteMapping, one row found: on to Save of the updated copy.
SaveFindExisting(c) ==
  /\ pc[c] = "find"
  /\ \E r \in rows :
       /\ FindExisting(Current(c)) = {r}
       /\ cur' = [cur EXCEPT ![c] = updateTcpRouteMapping(r, Current(c))]
  /\ pc' = [pc EXCEPT ![c] = "save"]
  /\ UNCHANGED <<groups, rows, requestVars, pruneVars>>

\* SaveTcpRouteMapping, no row found: on to Create.
SaveFindNone(c) ==
  /\ pc[c] = "find"
  /\ FindExisting(Current(c)) = {}
  /\ FreeGuids # {}
  /\ cur' = [cur EXCEPT ![c] =
               NewTcpRouteMappingWithModel(NewV4, Current(c))]
  /\ pc' = [pc EXCEPT ![c] = "create"]
  /\ UNCHANGED <<groups, rows, requestVars, pruneVars>>

\* "have duplicate tcp route mappings": the request ends with an error.
FindDuplicates(c) ==
  /\ pc[c] \in {"find", "findDelete"}
  /\ Cardinality(FindExisting(Current(c))) > 1
  /\ Answer(c)
  /\ UNCHANGED <<groups, rows, pruneVars>>

\* Client.Create of the new row, or UPDATE by primary key and, when that
\* matched no row, INSERT: the index admits the row.
Write(c) ==
  /\ pc[c] \in {"save", "create"}
  /\ Conflicting(cur[c]) = {}
  /\ rows' = {r \in rows : r.guid # cur[c].guid} \cup {cur[c]}
  /\ NextMapping(c, "find")
  /\ UNCHANGED <<groups, pruneVars>>

\* The index refuses the row and the request ends with an error.
WriteRefused(c) ==
  /\ pc[c] \in {"save", "create"}
  /\ Conflicting(cur[c]) # {}
  /\ Answer(c)
  /\ UNCHANGED <<groups, rows, pruneVars>>

\* MySQL's ON DUPLICATE KEY UPDATE, the form gorm's Save gives its INSERT,
\* writes the columns other than the guid to the row in the way instead.
SaveOver(c) ==
  /\ pc[c] = "save"
  /\ \E s \in Conflicting(cur[c]) :
       rows' = (rows \ {s}) \cup {[cur[c] EXCEPT !.guid = s.guid]}
  /\ NextMapping(c, "find")
  /\ UNCHANGED <<groups, pruneVars>>

\* Delete: the whole batch is validated before the first row is looked for.
Delete(c, b) ==
  /\ pc[c] = "idle"
  /\ b \in Deletes[c]
  /\ b # <<>>
  /\ ValidateDeleteTcpRouteMapping(b)
  /\ batch' = [batch EXCEPT ![c] = b]
  /\ pc' = [pc EXCEPT ![c] = "findDelete"]
  /\ UNCHANGED <<groups, rows, pos, read, cur, pruneVars>>

\* The row's expiry does not matter to the statement that follows.
DeleteFindExisting(c) ==
  /\ pc[c] = "findDelete"
  /\ \E r \in rows :
       /\ FindExisting(Current(c)) = {r}
       /\ cur' = [cur EXCEPT ![c] = [r EXCEPT !.left = Floor]]
  /\ pc' = [pc EXCEPT ![c] = "delete"]
  /\ UNCHANGED <<groups, rows, requestVars, pruneVars>>

\* KeyNotFound: the loop goes on.
DeleteFindNone(c) ==
  /\ pc[c] = "findDelete"
  /\ FindExisting(Current(c)) = {}
  /\ NextMapping(c, "findDelete")
  /\ UNCHANGED <<groups, rows, pruneVars>>

DeleteRow(c) ==
  /\ pc[c] = "delete"
  /\ rows' = {r \in rows : r.guid # cur[c].guid}
  /\ NextMapping(c, "findDelete")
  /\ UNCHANGED <<groups, pruneVars>>

\* A statement fails: the request ends, what it wrote before stays.
StatementFails(c) ==
  /\ pc[c] # "idle"
  /\ Answer(c)
  /\ UNCHANGED <<groups, rows, pruneVars>>

-----------------------------------------------------------------------------
(* CleanupRoutes and the environment.                                       *)

PruneFind ==
  /\ pruner = "idle"
  /\ FindExpired # {}
  /\ found' = FindExpired
  /\ pruner' = "delete"
  /\ UNCHANGED <<groups, rows, pc, requestVars, cur>>

\* Faulty: the goroutine ends without clearing the flag.
PruneReturnKeepsFlagFaulty ==
  /\ pruner' = "delete"
  /\ found' = {}

\* The goroutine ends; its deferred store lets the next tick start another.
PruneReturn ==
  /\ pruner' = "idle"
  /\ found' = {}

PruneDelete ==
  /\ pruner = "delete"
  /\ rows' = {r \in rows : r.guid \notin found}
  /\ PruneReturn
  /\ UNCHANGED <<groups, pc, requestVars, cur>>

PruneFails ==
  /\ pruner = "delete"
  /\ PruneReturn
  /\ UNCHANGED <<groups, rows, pc, requestVars, cur>>

\* DeleteRouterGroup.
RemoveGroup(g) ==
  /\ g \in groups
  /\ groups' = groups \ {g}
  /\ UNCHANGED <<rows, pc, requestVars, cur, pruneVars>>

\* SaveRouterGroup, of an update whose group has been deleted since it was read:
\* gorm's Save inserts the row again, under the same guid (RouterGroups!Update).
RestoreGroup(g) ==
  /\ g \notin groups
  /\ groups' = groups \cup {g}
  /\ UNCHANGED <<rows, pc, requestVars, cur, pruneVars>>

Aged(r) == [r EXCEPT !.left = IF @ > Floor THEN @ - 1 ELSE @]

\* A second passes for the rows stored and for those held.
Tick ==
  /\ rows' = {Aged(r) : r \in rows}
  /\ cur' = [c \in Clients |-> IF cur[c] = None THEN None ELSE Aged(cur[c])]
  /\ UNCHANGED <<groups, pc, requestVars, pruneVars>>

\* The process dies and another takes over: only the tables survive.
Crash ==
  /\ pc' = [c \in Clients |-> "idle"]
  /\ batch' = [c \in Clients |-> <<>>]
  /\ pos' = [c \in Clients |-> 1]
  /\ read' = [c \in Clients |-> {}]
  /\ cur' = [c \in Clients |-> None]
  /\ PruneReturn
  /\ UNCHANGED <<groups, rows>>

RequestStep(c) ==
  \/ Validate(c) \/ Reject(c)
  \/ SaveFindExisting(c) \/ SaveFindNone(c) \/ FindDuplicates(c)
  \/ Write(c) \/ WriteRefused(c) \/ SaveOver(c)
  \/ DeleteFindExisting(c) \/ DeleteFindNone(c) \/ DeleteRow(c)

Next ==
  \/ \E c \in Clients : \E b \in Upserts[c] : Upsert(c, b)
  \/ \E c \in Clients : \E b \in Deletes[c] : Delete(c, b)
  \/ \E c \in Clients : RequestStep(c) \/ StatementFails(c)
  \/ PruneFind \/ PruneDelete \/ PruneFails
  \/ \E g \in Groups : RemoveGroup(g) \/ RestoreGroup(g)
  \/ Tick
  \/ Crash

Spec == Init /\ [][Next]_vars

\* A request runs to its end unless a statement fails or the process dies, time
\* passes, the pruning ticker keeps firing, and of the pruner's statements not
\* all fail.  Clients are free to send requests for ever.
FairSpec ==
  /\ Spec
  /\ \A c \in Clients : WF_vars(RequestStep(c))
  /\ WF_vars(PruneFind)
  /\ SF_vars(PruneDelete)
  /\ WF_vars(Tick)

-----------------------------------------------------------------------------
(* Properties.                                                              *)

\* validateTcpRouteMapping with updateTcpRouteMapping: no stored mapping has
\* ALPNs without frontend TLS, although a renewal validated with other values
\* of the two may apply to it.
AlpnsNeedTls == \A r \in rows : r.alpns => r.tls

\* Upsert with SaveTcpRouteMapping: whatever requests interleave between a
\* mapping's validation and its INSERT or UPDATE, a stored mapping is of a known
\* router group, has the ports and the address validation asks for, and lasts at
\* most MaxTTL from now.
StoredMappingsValid ==
  \A r \in rows :
    /\ r.key.group \in Groups
    /\ r.key.port > 0
    /\ r.key.ip # None
    /\ r.key.hostPort > 0 \/ r.key.tlsPort \in 1..MaxPort
    /\ r.left <= MaxTTL

\* SaveTcpRouteMapping: however requests and the pruner interleave between its
\* statements, what a stored row routes never changes, that is its key and its
\* frontend TLS, not even when gorm's Save inserts a row pruned meanwhile again or
\* writes over another one.
RoutedIsFixed ==
  [][\A r \in rows, s \in rows' :
       r.guid = s.guid => r.key = s.key /\ r.tls = s.tls]_vars

\* An external port with an SNI hostname.
Frontends == {<<k.port, k.sni>> : k \in {l \in Keys : l.sni # None}}

\* What a router that asks for some segments is told of a frontend disagrees on
\* frontend TLS.
MixedTls(f, segments) ==
  \E r, s \in List(segments) :
    /\ <<r.key.port, r.key.sni>> = f
    /\ <<s.key.port, s.key.sni>> = f
    /\ r.tls # s.tls

\* ValidateCreateTcpRouteMapping: unexpired mappings of one port and hostname
\* that disagree on frontend TLS, as racing requests leave them, do not stay
\* listed, however often clients renew them or move them between segments: every
\* further request is rejected.
MixedTlsHeals ==
  \A f \in Frontends, segments \in Readers :
    MixedTls(f, segments) ~> ~MixedTls(f, segments)

HasDuplicates(k) == \E r, s \in rows : r # s /\ r.key = k /\ s.key = k

\* FindExistingTcpRouteMapping: duplicate rows of a key with a TLS port, which the
\* index lets in for different TLS flags or a NULL hostname, do not stay, however
\* often clients renew the mapping: saves of the key fail until the pruner has
\* removed them.
DuplicateMappingsHeal ==
  \A k \in {l \in Keys : l.tlsPort # None} : HasDuplicates(k) ~> ~HasDuplicates(k)

\* Upsert: once a router group is gone for good its mappings go too and stay
\* away, however often clients renew them; a request that read the groups before,
\* or while an update had written the group back, may still write some first.
RemovedGroupDrains ==
  \A g \in Groups :
    <>[](g \notin groups) => <>[](\A r \in rows : r.key.group # g)

=============================================================================
