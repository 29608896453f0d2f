# TLA+ specifications of routing-api

routing-api is the Cloud Foundry component that stores HTTP routes, TCP route
mappings and router groups in a SQL database, expires routes that are no longer
renewed, and streams changes to routers.  This directory holds TLA+ models of
it, the TLC configurations that check them on small instances, and TLAPS proofs
of what holds for every instance.  Paths below are relative to `src/`.

## The system

| Part | State | Operations | Talks to |
|---|---|---|---|
| HTTP route store (`db/db_sql.go`) | rows of `routes`: guid, key, tag, expiry | `SaveRoute`, `DeleteRoute`, `ReadRoutes` | event hub, pruner |
| Pruner (`CleanupRoutes`) | one in-flight flag per table, the rows it has read | tick, SELECT expired, DELETE by guid, emit | route store, event hub |
| TCP route store (`db/db_sql.go`, `handlers/tcp_route_mappings_handler.go`) | rows of `tcp_routes` | batch upsert and delete with validation against stored mappings | router groups, event hub |
| Event hub, watches, event-stream handler (`db/db_sql.go`, `handlers/event_stream_handler.go`, `vendor/code.cloudfoundry.org/eventhub`) | subscribers, a bounded buffer each | `Emit`, `WatchChanges`, `CancelWatches`, one dispatcher and one handler per watcher | stores, HTTP clients, metrics |
| Router groups (`handlers/router_groups_handler.go`, `models/router_groups.go`) | rows of `router_groups`, two backup locks in memory | create, update, delete, lock, unlock, seeding at start | admin server, port validation |
| Process (`cmd/routing-api/main.go`, `config/`, `helpers/helpers.go`) | ordered group of eleven members, the locket lock, the process's own route | configure, connect, start, stop, signal, acquire, lose and release the lock, renew the route | all of the above |
| Go client (`client.go`, `event_source.go`) | the token it sends; the connection of an event source | requests; `ReservePort` is a read-choose-write loop; subscribe, read, retry, close | every endpoint |
| Migrations (`migration/`) | version row, columns and index of `tcp_routes` | run pending migrations | process |
| Tokens (`uaaclient/`) | the validator's cached key, the fetcher's cached token | validate, fetch | handlers, clients, UAA |
| Metrics (`metrics/metrics.go`) | two event channels, a ticker | set, add to and reset gauges | hub, stores, statsd |

Every SQL statement stands alone: no transaction and no lock spans two of them.
So concurrent requests, the pruner, and for a while a second process interleave
between the statement that reads and the statement that writes.  That is where
most of what is hard to test comes from.  The rest is in goroutines that send on
unbuffered channels, in the order of shutdown, in losing a lock, in values
cached by one party and replaced by another, and in arithmetic on `uint16` ports
and on durations.  `PROJECT.json` lists each hazard with its line.

## Modules

| Module | Models |
|---|---|
| `RouteStore` | `SaveRoute`, `DeleteRoute`, `CleanupRoutes` for HTTP routes |
| `TcpRoutes` | TCP mapping requests, validation, listing, `SaveTcpRouteMapping`, `DeleteTcpRouteMapping`, their unique index and pruner |
| `Watch` | abstract: what a subscriber is promised |
| `EventStream` | hub, dispatcher, handler; implements `Watch` |
| `Subscribers` | who consumes events: the metrics reporter and a client's event source |
| `Lifecycle` | ordered group, lock-acquirer, lock-releaser, route-register, conn-stopper |
| `Startup` | `main` up to the running group, configuration, and the renewals of the own route |
| `Migration` | `RunMigrations` and the migrations V0 to V11, statement by statement |
| `Api` | token fetcher, client, token validator and the routes handler, end to end |
| `Ports` | operators: parsing, ranges, `Overlaps`, `Validate` |
| `RouterGroups` | router-group handlers, `SaveRouterGroup`, `DeleteRouterGroup`, `rwLocker`, seeding |
| `PortReservation` | `ReservePort`, `getNextAvailablePort` and the list requests it makes |
| `MC...` | constants for TLC |
| `...Proofs` | theorems: one module per component, but `ProcessProofs` has those of `Startup` and `Lifecycle`, `ClientProofs` those of `PortReservation` and `Subscribers`, `RouterGroupsProofs` those of `Ports` and `RouterGroups` |

A specification is named `Spec`, with its fairness `FairSpec`.  In `Startup` it is
`MainSpec` and in `Subscribers` `ConsumersSpec`, so that a module of proofs can
extend either together with another.  Definitions named `...Faulty` are variants
with a plausible mistake.  No specification uses them; they show that a property
can fail.

**RouteStore.**  A client's call is a sequence of steps, one per SQL statement
and one per emitted event, with the row it carries between them in `cur`.  A row
keeps both the expiry `SaveRoute` computed (`due`) and what the column holds
(`exp`), which may be any rounding to whole seconds (`Stored`).  The guid of a
row and the guid of its tag are drawn together and never separated, so one value
stands for both.  `inFlight` is the compare-and-swap flag of `CleanupRoutes`.
`announced`, `ended`, `lapsed` and `used` are history variables.  A call that
fails before its first write changes nothing and is not a step.

**TcpRoutes.**  A request is a batch; `pos` is where its loops are.  The first
loop reads similar mappings and validates, the second reads the existing row and
writes, one step per statement.  `FindSimilar` sees unexpired rows of a port and
hostname, `FindExisting` all rows of a key, and `Conflicting` is the index the
last migration creates: it has the TLS flag besides the key, and NULL columns
never conflict.  When gorm's `Save` finds its row gone and another in the way,
PostgreSQL refuses (`WriteRefused`) and MySQL writes over it (`SaveOver`).  A TLS
port left out is stored as NULL (`StoredKey`): the columns' default is whatever
the last `AutoMigrate` set from the model's tag, which `ServesWithNullDefault`
proves of `Migration`.  A new row gets some guid nobody has (`NewV4`).  A request
without mappings enters no loop and is not a step.  A router group may be deleted
(`RemoveGroup`) and written back under its guid by an update that was under way
(`RestoreGroup`).  Time is relative (`left`), so nothing keeps clients from
renewing for ever.  Tags and events are those of `RouteStore` and are left out.

**EventStream.**  `hub.lock` and `source.lock` make `Emit`, `Subscribe` and
`Close` single steps.  `events` is unbuffered, so a send and its receive are one
step; a dispatcher in `"send"` is blocked until the handler receives.  A handler
in `"write"` writes and flushes: `WriteEvent` may be long in coming while the
connection is up, for the server sets no deadline for writes, and comes when it is
down.  Events are numbered.  The refinement mapping takes `status` from the
handler and the source, and `accepted` from the last event received, the one in
the dispatcher's hand and those buffered.

**Subscribers.**  The reporter's watch is what `Watch` promises, a queue that may
be cut off, so this module is checked on top of what `EventStream` is proved to
do.  A row is changed first and its event published later, so events of
different changes arrive in any order.  `routes` and `subs` are the gauges statsd
holds; a packet may be lost, a read may fail and then counts as no rows.
`source`, `conn`, `retries`, `closed` and `hungUp` are a client's event source
with `Next` in one goroutine and `Close` in another.

**Lifecycle.**  `group` and `at` are `orderedGroup.Run`; `run` the members;
`mail` signals sent and not yet received (`Process.Signal` does not block);
`lock` and `rel` the two goroutines that pass the lock's fate to the last member.
The time the releaser sleeps is a step that happens at some time.  Locket itself
is external: it grants a free lock and expires one that is not renewed.

**Startup.**  An input is the flags and the configuration file a process starts
with, reduced to what is checked of them.  `main` goes from one exit or panic to
the next, and lager's `Fatal` is a panic; after that the clock runs and
`RouteRegister.Run` renews the process's own route, with the ticker's one-place
channel.  Durations count half seconds because `max_ttl` is truncated to whole
seconds and then halved.

**Migration.**  A migration is a sequence of statements on the version row, on the
columns, default and index of `tcp_routes` and on the names of router groups.
`AutoMigrate` adds columns, resets the default to the one in the tag and, on
MySQL, turns VARCHAR columns into text (`varchar`), which fails with error 1170
while an index without length prefixes is over them: the comments in V5, V6 and V9
to V11 say so.  A
process may die, fail or lose its lock at every statement, a commit may succeed
although its answer is lost, and dropping the index may fail unnoticed.
Processes are of different releases (`Last`) and start from the tables an older
one left (`Releases`).  An older release is modelled as this code with a shorter
list of migrations.  `done` and `lost` are history variables.

**Api.**  A key or token is the number of UAA's signing key; 0 is a stranger's.
Callers share the fetcher (with its mutex) and the client (with its one token),
so a caller may send another's token.  A request on the server goes on when its
caller has timed out.  Fetching a key and storing it are separate steps, so an
older key can overwrite a newer one.  A token without the scope claim makes
`extractPermissionsFromToken` panic: net/http recovers and closes the connection
without an answer.  Either end may be in development mode.  The callers themselves
are not in this repository; that they force a new token after a 401, and only
then, is assumed.

**RouterGroups.**  Each test of a backup lock and each statement is a step.  The
unique index on the name and the primary key are in `Insert` and `Update`.
`Update` follows gorm's `Save`, which inserts the row when it has gone; when
another group has got the name by then, PostgreSQL refuses, and MySQL writes over
that group (`UpdateOver`).  A
failed read in the seeding code yields no groups and its error is dropped, so
`Seed` may seed a table that is not empty.  The name of a create request may be
empty, and its body may carry a guid, which `CreateFetch` replaces.

**PortReservation.**  Each HTTP request is a step, and so is each iteration of the
two loops, with `uint16` wrap-around (`Inc`).  The update is by the guid looked
up: once that group is deleted (`"gone"`) the update fails, whatever group has the
name.

## Runs

| Run | Instance | Shows |
|---|---|---|
| `routes_owned` | 2 clients with a key each, 2 guids, 2 pruning goroutines, 2 ticks per second, clock to 8, one failing statement, one crash | one row per key; a row renewed in time is lost only to a delete; tags only go up; pending events are news |
| `routes_live` | 2 clients with one key, fair | removals are announced; abandoned routes, duplicate rows among them, are pruned |
| `stream` | 2 watchers, buffer of 2, 5 events, fair | no gap, refinement of `Watch`, shutdown ends every stream not blocked in a write |
| `subscribers` | 2 connections, 1 row, 3 changes, 1 fault, fair | the subscription gauge counts open streams, less those open at the reporter's reset; the route gauge settles on the table; a closed source lets its reader and connection go |
| `life` | 2 processes, one of which meets 2 disturbances, fair | order of shutdown, own route removed before a clean exit, exclusive migration; a process that is signalled or has lost its lock ends |
| `startup` | inputs around a working one that differ in flags, file, groups, database options or intervals; 6 database servers | what runs is what was configured; one failed renewal does not cost the own route |
| `migration` | a process of this release and one of V7, databases of 4 releases, 2 mappings, 2 rows, 2 faults, fair | a recorded version is done; versions go back only after a lost lock; who serves has its index; service comes back |
| `api` | 2 callers, 2 requests at a time, 2 signing keys and a stranger's, 1 fault, one request of others at a time, fair | signature refusals are justified, answers tell what was written, an old key stored over a newer one is replaced, callers get through |
| `groups` | 2 handlers, a seeder, 2 guids, 3-bit ports, MySQL, 1 failure or crash, fair | groups valid; once writes stay locked the requests under way end and the table settles |
| `reserve` | 1 caller, 3-bit ports, 2 failures or deletes, fair | port free and in range, result written, call returns |
| `reserve_largest` | a group up to the largest port, fair | violated: the `uint16` loop never ends |
| `tcp` | 2 clients, 2 backends of one frontend, a reader, TTL 2, 2 rows, any number of failures and crashes, fair | ALPNs only with TLS; mixed TLS flags, duplicates and mappings of a group that stays removed go away although clients renew for ever |

Four properties allow for something the code does.  `SignalEndsProcess` and
`LostLockExits` except a process whose lock-releaser hangs (`Stuck`, see
Findings), and say that nothing else keeps a process from ending.  `ServesAgain`
excepts tables with rows the migrations cannot index (`InTheWay`): router groups
of equal name, mappings that agree once V8 has put 0 for NULL, indexed VARCHAR
columns before V3 and, after a lost lock, rows of a newer release.
`ShutdownEndsStreams` excepts a handler that stays blocked in a write (`Blocked`).

### Bounds, and why they are enough

* Two clients, callers, watchers, handlers or processes: each race here is
  between two parties, or one party and the pruner, seeder or lock.  In
  `Lifecycle` only one process is disturbed; the other shows what it may see of
  the first.
* `MaxTime` of `RouteStore` leaves room for a save, its expiry, the pruner's
  second of slack and a save that was in flight all along (`RoomToExpire`).  In
  `routes_owned` two ticks per second are the least for which rounding goes both
  ways.
* In `RouterGroups` two guids let a group be deleted and its name be taken by
  another while an update of the first is under way.  The groups are not taken for
  interchangeable, for symmetry is not sound with liveness.
* In `RouteStore` two guids let a key be deleted and created again, or two keys be
  stored.  With keys of their own the two clients are interchangeable, each taken
  with its key (`ClientSwap`), and so are guids and pruning goroutines.
* `TcpRoutes` has no clock.  A TTL of 2 ticks lets rows be renewed at different
  times and stay unexpired together.  `MaxRows` of 2 has room for a mixed or
  duplicate pair, and for a row and the one a save has lost; a create waits while
  no guid is free.
* A buffer of 2 with 5 events lets a subscriber fill up, be cut off, drain, and
  lets the other follow; a later subscriber starts in the middle.
* In `Subscribers` two connections let a client connect again while the server
  still knows the old connection; 3 changes are a create, its renewal and its end.
* In `Migration` two faults let a process lose its lock and the next one die, and
  two mappings that differ in the TLS flag tell the indexes of V7 and V11 apart.
* Two signing keys in `Api` are one rotation: every order of it and the fetches,
  stores and retries of two requests.  The request with a stranger's key makes the
  server fetch the first key too, so that a fetch before the rotation is stored
  after one behind it.  The proof covers any number.
* The inputs of `Startup` vary one part at a time around one that works; parts of
  a configuration are checked independently of one another.  Every `max_ttl` from
  0 to 5 seconds in half seconds is tried, over 12 seconds: several renewals, with
  failures, of each.
* Ports of 3 bits with a smallest port of 2 have illegal low ports, a reserved
  one, and a largest one at which `uint16` wraps.
* `MaxDisturbed`, `MaxFails`, `MaxFaults`, `MaxCrashes` count events that are not
  part of normal operation.  With one, a run shows that the system survives any
  single one at any point; with two, their combinations.
* Where a cfg says `CHECK_DEADLOCK FALSE`, bounded behaviours end or processes
  exit.

### Fairness

Only what the Go scheduler, the tickers and the clock provide is assumed: a
started call, dispatcher, handler, prune, migration or member that can take a
step takes one, but a handler in a write only when the connection is down; tickers
fire; time passes; locket expires locks nobody renews and
grants a free one.  No client is obliged to call, renew, read or disconnect.
Statements may fail only a bounded number of times, so fairness does not rely on
a retry.  Strong fairness is used in three places.

* In `TcpRoutes` statements may fail, and the process may crash, for ever; there
  the pruner's DELETE does not fail every time.
* In `Api` a caller competes for a mutex and for the server; neither Go's mutexes
  nor the server starve one.
* In `Subscribers` a source that has been closed sees it when it waits to retry:
  its `closed` channel is ready before the timer is.

## Proofs

All theorems hold for every value of the constants under the named assumptions
in the modules (sizes are naturals, the buffer is not empty, model values for
"none" are not values, inputs have the types the code reads them with, a list
request has no body).  Where a theorem needs more it says so in its `ASSUME`.  TLC
checked the inductive invariants on the runs' instances before they were proved.
Many leaves name Zenon only to keep the proofs fast: in a module with hundreds of
leaves the encoding for the SMT solver gets slower from one to the next.

* **RouteStoreProofs.**  `TypeCorrect` is inductive as it stands.
  `FoundHadExpiredAlways` and `RenewedInTimeStaysAlways` need `PruneInv`: a
  stored expiry is less than a second before the intended one, every row whose
  expiry has passed is in `lapsed`, and every row a pruner holds had expired.
  `OnePruneInFlightAlways` is inductive given types.  `OwnedKeysConsistent`,
  `OwnedEventsAreNews` and `OwnedTagsIncrement` assume that no two clients
  register one key (`Exclusive`).  They need to know which client a guid belongs
  to while a save is in progress (`GuidInv`) and how the tags in the row, in the
  save and in the last event relate (`TagInv`).
* **TcpRoutesProofs.**  `AlpnsAlwaysNeedTls` and `OnlyValidMappings` need
  `TcpInv`: each mapping of a batch behind the first loop has been accepted, all
  of them in the second loop, and the row a request is about to write is valid.
   So the second loop may find another row than the one the first loop compared
  with, and still only stores valid ones.  `StoredKeepsKey` needs `Fixed`: of the
  rows that are stored or about to be written (`Live`), those of one guid have one
  key and one TLS flag, because a renewal copies a stored row and a new row gets a
  free guid.
* **EventStreamProofs.**  `NoGapAlways` needs, besides types, how hub, source and
  dispatcher states go together (`Wired`).  Lemmas on runs of consecutive
  numbers carry the step for `Append` and `Tail`.  `DrainedBeforeEndAlways`: a
  stream the server ends has delivered everything accepted for it.
  `Implementation` shows that initial states map to initial states of `Watch`,
  and every step to a step or a stutter.
* **RouterGroupsProofs.**  First the operators of `Ports`.  `OverlapsCorrect`:
  comparing lengths in `uint16` arithmetic decides whether two ranges share a
  port, for every width, because no subtraction wraps on ranges `NewRange`
  accepts; `ValidatedPorts` follows.  The inductive invariant of the groups is
  about *versions*: the rows stored and those that calls are about to write.
   Every version is valid, and versions of one guid share the name and, but for
  `UpdateOver` on MySQL, the type; stored names are unique, as the index has it.
   A create draws a fresh guid, an update copies a stored group, and the merge in
  `SaveRouterGroup` returns the version it was given (`MergeIsNew`).  Stored
  validity, legal ports and `OnlyPortsUpdatedAlways`, immutable names and, except
  on MySQL, types, follow for any number of requests.  `NoNewWritesAlways` needs
  no invariant beyond types.
* **MigrationProofs.**  `VersionsRecordedAreDone`: what a process writes is the
  row it holds, so the invariant says of every held row what `RecordedIsDone` says
  of the stored one (`HeldIsDone`, with `VersionsTyped`; together `DoneInv`).
   `VersionNeverGoesBack` also needs `Exclusive`: while no lock was lost, only its
  holder is past waiting, and it holds the recorded version.  `ServesWithItsIndex`
  needs that a target is above the version while migrations are pending
  (`TargetsAhead`), and that the index is that of the target once they are done or
  the last statement of the last one has run (`Settled`).  It assumes releases
  whose last migration ends with creating the index (`IndexedReleases`, V4 to V11
  but V8): the others create none, and an index that could not be dropped goes
  unnoticed.  `ServesWithNullDefault` assumes nothing of the releases.  Its
  invariant (`DefaultInv`) says that the default is null when the recorded version
  is at least 9 and, before that is recorded, from the second statement of V9 on.
* **ApiProofs.**  `RefusalsAreJustified` needs `KeyFresh`: the key of a retry is
  UAA's unless UAA has changed it since the request arrived.  Any number of
  callers, requests, rotations, failures and restarts.  `AnswersTellWrites`
  relates the answer and position of a request to its step and its batch.
* **ProcessProofs.**  `OwnRouteAlwaysStays` relates the row's expiry to the ticker
  (`Lasting`): after f failed renewals in a row, the row outlasts the next renewal
  by the TTL less f + 1 intervals, and two intervals fit in the TTL (`Ticking`).
   `AlwaysRunsAsConfigured` collects, step by step, the checks `main` has passed.
   For `Lifecycle` the argument is about one process and the order of its members.
   `Ordered`: while the group starts, nobody was sent a signal, the members before
  the current one are ready and those after it not started; once it stops, every
  member after the current one was never started or has exited.  `Effects` and
  `LockHeld` say what a member has done by the time it exits: cancelled the
  streams, deleted the route, seen the end of the lock.  As the servers stop after
  those members, `AlwaysStreamsCancelledFirst`, `AlwaysReleasedFirst` and
  `CleanExitsUnregister` follow.  `MigrationsExclude` adds `OwnerHolds`, the one
  relation between two processes: a live process that holds the lock is the one
  locket knows of.
* **ClientProofs.**  `AlwaysReturnedIsWritten` holds for any number of
  callers.  `AlwaysChosenIsFree` assumes one caller (`SoleCaller`; two may choose
  the same port) and wishes that end below the largest port (`WishesEndLow`; with
  the largest, the loop in the first finding never ends).  The invariant follows
  the two loops: `Covered` says that each port a group has (`Taken`) is in
  `portSet` or still ahead of the loop that fills it, and `Scanned` that the port
  the second loop stops at is in the range asked for and not in `portSet`.
  `SubscriptionsAlwaysCounted` and `NoConnectionForgotten` are about
  `Subscribers`.  A stream is counted up when its
  handler opens it and down when it leaves, so what has to be shown is that the
  set of open streams changes nowhere else: `ConnInv` ties the state of the event
  source to that of the stream it reads from, and says that only open streams it
  has let go of are hung up.  `Conns` is any finite set.

Only model-checked: everything under fairness, because the prover does no
liveness.  Every safety invariant and action property of the passing runs is also
proved, under the hypotheses named above.

Proved and no longer part of a run: `FoundHadExpired`, `OnePruneInFlight`,
`DrainedBeforeEnd`, `ValidPortsOnce`, `OnlyPortsUpdated`, `NoNewWrites` and the
type invariants.  Proved and checked by TLC only while the proof was made:
`StoredMappingsValid`, `RoutedIsFixed`, `ConnectionsAccounted` and
`DefaultIsNull`.

## Findings

`ReservePort` does not return when a group's range ends at the largest port
(`reserve_largest`).

The models also have the following behaviour of the code.  No run is kept for
it; the properties above are stated so that they hold in spite of it, and the
hazards in `PROJECT.json` give the lines.

* The pruner deletes by guids it read earlier; a route renewed late, in between,
  is pruned.
* Clients that share a key can leave duplicate rows, on which every save and
  delete of the key fails until the pruner has removed them, and two versions of a
  row with equal tags.
* A signal that reaches the releaser after the lock group has returned keeps the
  process from exiting.  A dispatcher whose handler has left stays blocked in its
  send.  A handler blocked in a write to a client that does not read outlasts
  `CancelWatches`; ifrit waits for it for a minute.
* On MySQL an update of a router group that has been deleted meanwhile, and whose
  name another group has got, writes over that group, its type included, although
  `docs/02-api-docs.md:244` says "Only the `reservable_ports` field may be
  updated".
* V3 runs `AutoMigrate` without dropping the index, so a MySQL database of the
  first release, with an index over VARCHAR columns, stays at version 2.
* A process that lost its lock still migrates.  The version can then go back to 3,
  and V4 fails for good on rows of the newer release.
* V8 sets the default of `host_tls_port` to 0, and its test says "all new
  tcproutes will default to 0"; the `AutoMigrate` of V9 to V11 takes the tag's
  `default:null` back.  A mapping without TLS port is then stored with NULL, no
  query for existing mappings finds it, and each renewal adds a row.  V8 itself
  fails for good on a table that already holds such duplicates.
* An expired TCP mapping that is not pruned yet is invisible to the comparison of
  TLS flags but is renewed with the flag it was stored with, so a port and
  hostname can end up with both for a while.
* `max_ttl` below two seconds, or a metrics interval that is not positive, passes
  validation and makes `main` panic in `NewTicker`.
* A token without the scope claim makes the token validator panic.
* The servers start before the metrics reporter, which resets the subscription
  gauge: streams opened earlier are never counted.  A failed read of the routes
  sets the route gauge to 0 until the next tick.  When the reporter is cut off as
  a slow consumer, the process stops with exit code 0.
* Listing router groups by name answers 404 when the read fails.  Two callers of
  `ReservePort` can choose the same port.
* Requests past the lock test write during a backup.

## Not modelled, and what comes next

Parts of the system with state that are left out:

1. TCP modification tags, events and gauges: the same code shape as for HTTP
   routes, modelled there.
2. Instances of `TcpRoutes` with a NULL hostname or TLS port: the actions have the
   case, no run does.
3. A consumer that compares tags with `SucceededBy` (the routers): it is not in
   this repository.
4. Negative `max_ttl`.

Left out for good: sockets and TLS handshakes, logging, tracing and request
logging, the texts of JSON, YAML, PEM and connection strings, error formatting,
generated fakes and test runners, and the copies of old models under
`migration/v6` and `migration/v7`, of which only tests call the code.
