----------------------------- MODULE ProcessProofs ----------------------------
(***************************************************************************)
(* Proofs about a process from main to its exit: Startup and Lifecycle.    *)
(*                                                                         *)
(* One failed renewal never costs a process its own route, for every value *)
(* of max_ttl.  The invariant relates expires_at to the ticker: with f     *)
(* failed renewals in a row, the row still lasts ttl - (f+1)*interval      *)
(* seconds beyond the ticker's next tick, and the interval is half the     *)
(* TTL.  What main has checked by the time it runs is an invariant of its  *)
(* own (Checked): each place of main stands for the checks behind it.      *)
(*                                                                         *)
(* The invariants of Lifecycle are for any number of processes, signals,   *)
(* crashes, failing members and lost locks.  The argument is about one     *)
(* process and the order of its members: while the group starts, nobody    *)
(* has been sent a signal and the members before the one being started are *)
(* ready; once it stops, every member after the one it waits for was never *)
(* started or has exited (Ordered).  What a member has done by the time it *)
(* exits (Effects, LockHeld) then follows for all members that stop later. *)
(* Only the owner of the lock relates two processes (OwnerHolds).          *)
(***************************************************************************)
EXTENDS Startup, Lifecycle, TLAPS

(* main and the renewals of the own route.                                  *)

\* The clocks are numbers and max_ttl only changes before the register is made.
Timed ==
  /\ maxTTL \in Nat /\ now \in Nat /\ ttl \in Nat
  /\ nextTick \in Nat /\ expiresAt \in Nat /\ failed \in Nat
  /\ pc \in {"flags", "config", "dropsonde", "database", "statsd", "admin",
             "ticker", "locket", "uaa", "http"} => register = "off"

\* The register's TTL is at least twice its interval, which is positive, and
\* the next tick is at most one interval away.
Ticking ==
  register \in {"made", "loop"} =>
    /\ ttl = Seconds(maxTTL)
    /\ registerInterval \in Nat /\ registerInterval > 0
    /\ 2 * registerInterval <= ttl
    /\ now < nextTick /\ nextTick <= now + registerInterval

\* When the row is renewed next: now if a tick is waiting.
Due == IF tick THEN now ELSE nextTick

\* The row outlasts the next renewal by what the failed ones have left of it.
Lasting ==
  register = "loop" =>
    /\ failed <= 1 => row
    /\ failed = 0 => expiresAt >= Due + ttl - registerInterval
    /\ failed = 1 => expiresAt >= Due + ttl - 2 * registerInterval

OwnRouteInv == Timed /\ Ticking /\ Lasting

USE DEF mainVars, rowVars, registerVars

\* A whole number of seconds, halved, is at most half of it.
LEMMA Halves ==
  ASSUME NEW d \in Nat
  PROVE  /\ Seconds(d) \in Nat
         /\ Seconds(d) \div 2 \in Nat
         /\ 2 * (Seconds(d) \div 2) <= Seconds(d)
  BY DEF Seconds

LEMMA InitInv == MainInit => OwnRouteInv
  BY DEF MainInit, OwnRouteInv, Timed, Ticking, Lasting

\* main's steps before the register is made leave no register to speak of.
LEMMA MainInv ==
  ASSUME OwnRouteInv, register = "off", register' = "off",
         UNCHANGED <<now, ttl, nextTick, tick, rowVars>>, maxTTL' \in Nat
  PROVE  OwnRouteInv'
  BY Zenon DEF OwnRouteInv, Timed, Ticking, Lasting

\* Every step of main, the one that makes the register included.
LEMMA StepInv ==
  ASSUME OwnRouteInv, NEW ok \in BOOLEAN, NEW issuer \in BOOLEAN, NEW key,
         input \in Inputs,
         \/ checkFlags \/ NewConfigFromBytes \/ InitializeDropsonde(ok)
         \/ buildDatabase \/ NewStatsdClient(ok) \/ NewAdminServer
         \/ NewMetricsTicker \/ NewLockRunner(ok)
         \/ NewTokenValidator(issuer, key)
  PROVE  OwnRouteInv'
<1>1. register = "off" /\ register' = "off"
  BY Zenon DEF OwnRouteInv, Timed, Step, checkFlags, NewConfigFromBytes,
         InitializeDropsonde,
         buildDatabase, NewStatsdClient, NewAdminServer, NewMetricsTicker,
         NewLockRunner, NewTokenValidator
<1>2. UNCHANGED <<now, ttl, nextTick, tick, rowVars>>
  BY Zenon DEF Step, checkFlags, NewConfigFromBytes, InitializeDropsonde,
         buildDatabase, NewStatsdClient, NewAdminServer, NewMetricsTicker,
         NewLockRunner, NewTokenValidator
<1>3. TTLOrDefault \in Nat
  BY StartupAssumption, Zenon DEF TTLOrDefault
<1>4. maxTTL' \in Nat
  BY <1>3, Zenon
  DEF OwnRouteInv, Timed, checkFlags, NewConfigFromBytes, InitializeDropsonde,
         buildDatabase, NewStatsdClient, NewAdminServer, NewMetricsTicker,
         NewLockRunner, NewTokenValidator
<1>. QED
  BY <1>1, <1>2, <1>4, MainInv, Zenon

LEMMA HTTPInv ==
  ASSUME OwnRouteInv, AddHTTPMembers
  PROVE  OwnRouteInv'
<1>1. CASE register' = "off"
  BY <1>1, Zenon
  DEF OwnRouteInv, Timed, Ticking, Lasting, AddHTTPMembers,
      constructRouteRegister
<1>2. CASE register' # "off"
  <2>1. /\ ttl' = Seconds(maxTTL) /\ nextTick' = now + registerInterval
        /\ register' = "made" /\ registerInterval # 0 /\ pc' = "mtls"
        /\ UNCHANGED <<maxTTL, now, tick, rowVars>>
    BY <1>2, Zenon
    DEF OwnRouteInv, Timed, AddHTTPMembers, constructRouteRegister
  <2>2. /\ Seconds(maxTTL) \in Nat /\ registerInterval \in Nat
        /\ 2 * registerInterval <= Seconds(maxTTL)
    BY Halves, Zenon DEF OwnRouteInv, Timed, registerInterval
  <2>3. registerInterval' = registerInterval /\ Seconds(maxTTL)' = Seconds(maxTTL)
    BY <2>1, Zenon DEF registerInterval, Seconds
  <2>. QED
    BY <2>1, <2>2, <2>3 DEF OwnRouteInv, Timed, Ticking, Lasting
<1>. QED
  BY <1>1, <1>2, Zenon

LEMMA MembersInv ==
  ASSUME OwnRouteInv, NEW ok \in BOOLEAN, AddMembers(ok)
  PROVE  OwnRouteInv'
<1>1. registerInterval' = registerInterval /\ Seconds(maxTTL)' = Seconds(maxTTL)
  BY Zenon DEF AddMembers, registerInterval, Seconds
<1>. QED
  BY <1>1, Zenon DEF OwnRouteInv, Timed, Ticking, Lasting, Due, AddMembers

\* The steps of the register itself.
LEMMA RegisterInv ==
  ASSUME OwnRouteInv, NEW ok \in BOOLEAN,
         RegisterStarts(ok) \/ RegisterTick(ok) \/ RegisterStops(ok)
  PROVE  OwnRouteInv'
<1>1. /\ registerInterval' = registerInterval /\ Seconds(maxTTL)' = Seconds(maxTTL)
      /\ UNCHANGED <<maxTTL, now, ttl, nextTick>>
  BY Zenon
  DEF RegisterStarts, RegisterTick, RegisterStops, registerInterval, Seconds
<1>2. CASE RegisterStarts(ok)
  BY <1>1, <1>2
  DEF OwnRouteInv, Timed, Ticking, Lasting, Due, RegisterStarts, SaveRoute
<1>3. CASE RegisterTick(ok)
  BY <1>1, <1>3
  DEF OwnRouteInv, Timed, Ticking, Lasting, Due, RegisterTick, SaveRoute
<1>4. CASE RegisterStops(ok)
  BY <1>1, <1>4, Zenon
  DEF OwnRouteInv, Timed, Ticking, Lasting, Due, RegisterStops
<1>. QED
  BY <1>2, <1>3, <1>4, Zenon

LEMMA CleanupInv ==
  ASSUME OwnRouteInv, CleanupRoute
  PROVE  OwnRouteInv'
<1>1. registerInterval' = registerInterval /\ Seconds(maxTTL)' = Seconds(maxTTL)
  BY Zenon DEF CleanupRoute, registerInterval, Seconds
<1>. QED
  BY <1>1 DEF OwnRouteInv, Timed, Ticking, Lasting, Due, CleanupRoute

LEMMA ClockInv ==
  ASSUME OwnRouteInv, ClockTick
  PROVE  OwnRouteInv'
<1>1. registerInterval' = registerInterval /\ Seconds(maxTTL)' = Seconds(maxTTL)
  BY Zenon DEF ClockTick, registerInterval, Seconds
<1>2. CASE register \in {"made", "loop"} /\ now + 1 = nextTick
  BY <1>1, <1>2 DEF OwnRouteInv, Timed, Ticking, Lasting, Due, ClockTick
<1>3. CASE ~(register \in {"made", "loop"} /\ now + 1 = nextTick)
  BY <1>1, <1>3 DEF OwnRouteInv, Timed, Ticking, Lasting, Due, ClockTick
<1>. QED
  BY <1>2, <1>3, Zenon

LEMMA NextInv ==
  ASSUME OwnRouteInv, input \in Inputs, [MainNext]_processVars
  PROVE  OwnRouteInv'
<1>1. CASE UNCHANGED processVars
  <2>1. registerInterval' = registerInterval /\ Seconds(maxTTL)' = Seconds(maxTTL)
    BY <1>1, Zenon DEF processVars, registerInterval, Seconds
  <2>. QED
    BY <1>1, <2>1, Zenon
    DEF OwnRouteInv, Timed, Ticking, Lasting, Due, processVars
<1>2. CASE MainNext
  BY Zenon, <1>2, StepInv, HTTPInv, MembersInv, RegisterInv, CleanupInv,
     ClockInv,
     Zenon
     DEF MainNext
<1>. QED
  BY <1>1, <1>2, Zenon

\* One failed renewal never costs a process its own route (OwnRouteStays), for
\* every max_ttl, every input and every time the group takes to start.
THEOREM OwnRouteAlwaysStays == MainSpec => []OwnRouteStays
<1>1. MainInit => OwnRouteInv /\ input \in Inputs
  BY InitInv, Zenon DEF MainInit
<1>2. OwnRouteInv /\ input \in Inputs /\ [MainNext]_processVars
        => OwnRouteInv' /\ (input \in Inputs)'
  <2>1. input \in Inputs /\ [MainNext]_processVars => (input \in Inputs)'
    BY Zenon
    DEF MainNext, processVars, Step, checkFlags, NewConfigFromBytes,
        InitializeDropsonde,
           buildDatabase, NewStatsdClient, NewAdminServer, NewMetricsTicker,
           NewLockRunner, NewTokenValidator, AddHTTPMembers, AddMembers,
           RegisterStarts, RegisterTick, RegisterStops, CleanupRoute, ClockTick
  <2>. QED
    BY <2>1, NextInv, Zenon
<1>3. OwnRouteInv => OwnRouteStays
  BY DEF OwnRouteInv, Timed, Ticking, Lasting, Due, OwnRouteStays
<1>. QED
  BY <1>1, <1>2, <1>3, PTL DEF MainSpec

-----------------------------------------------------------------------------
(* What main has checked.                                                   *)

\* Where main has loaded the configuration, the database and the validator.
Loaded    == {"dropsonde", "database", "statsd", "admin", "ticker", "locket",
              "uaa", "http", "mtls", "running"}
HasDatabase == {"statsd", "admin", "ticker", "locket", "uaa", "http", "mtls",
              "running"}
Validated == {"http", "mtls", "running"}

Checked ==
  /\ pc \in {"config"} \cup Loaded => input.configPath
  /\ pc \in Loaded => ConfigLoads
  /\ pc \in HasDatabase => NewSqlDB
  /\ pc \in Validated => (~input.devMode => validator = "key")

\* The definitions main evaluates on its input depend on nothing else.
LEMMA SameInput ==
  ASSUME UNCHANGED <<input, server>>
  PROVE  ConfigLoads' = ConfigLoads /\ NewSqlDB' = NewSqlDB
<1>1. ConfigLoads' = ConfigLoads
  BY Zenon DEF ConfigLoads, Unmarshal, Accepts, Needed, GroupsValidate, Parses
<1>2. NewSqlDB' = NewSqlDB
  BY Zenon DEF NewSqlDB, Connects, MySQLMode, PostgresMode, Chain
<1>3. QED
  BY <1>1, <1>2

\* A step of main either stops the process or adds what it has just checked.
LEMMA CheckedMain ==
  ASSUME Checked, NEW ok \in BOOLEAN, NEW issuer \in BOOLEAN, NEW key,
         \/ checkFlags \/ NewConfigFromBytes \/ InitializeDropsonde(ok)
         \/ buildDatabase \/ NewStatsdClient(ok) \/ NewAdminServer
         \/ NewMetricsTicker \/ NewLockRunner(ok)
         \/ NewTokenValidator(issuer, key) \/ AddHTTPMembers \/ AddMembers(ok)
  PROVE  Checked'
<1> USE DEF Step, Loaded, HasDatabase, Validated
<1>1. UNCHANGED <<input, server>>
  BY Zenon
  DEF checkFlags, NewConfigFromBytes, InitializeDropsonde, buildDatabase,
         NewStatsdClient, NewAdminServer, NewMetricsTicker, NewLockRunner,
         NewTokenValidator, AddHTTPMembers, AddMembers
<1>2. CASE checkFlags
  BY <1>1, <1>2, Zenon DEF Checked, checkFlags
<1>3. CASE NewConfigFromBytes
  BY <1>1, <1>3, SameInput, Zenon DEF Checked, NewConfigFromBytes
<1>4. CASE InitializeDropsonde(ok) \/ buildDatabase \/ NewStatsdClient(ok)
  BY <1>1, <1>4, SameInput, Zenon
  DEF Checked, InitializeDropsonde, buildDatabase, NewStatsdClient
<1>5. CASE \/ NewAdminServer \/ NewMetricsTicker \/ NewLockRunner(ok)
           \/ AddHTTPMembers \/ AddMembers(ok)
  BY <1>1, <1>5, SameInput, ZenonT(60)
  DEF Checked, NewAdminServer, NewMetricsTicker, NewLockRunner, AddHTTPMembers,
      AddMembers
<1>6. CASE NewTokenValidator(issuer, key)
  BY <1>1, <1>6, SameInput, Zenon DEF Checked, NewTokenValidator
<1>7. QED
  BY <1>2, <1>3, <1>4, <1>5, <1>6, ZenonT(60)

LEMMA CheckedNext == Checked /\ [MainNext]_processVars => Checked'
<1> SUFFICES ASSUME Checked, [MainNext]_processVars PROVE Checked'
  OBVIOUS
<1>1. ASSUME NEW ok \in BOOLEAN,
             \/ RegisterStarts(ok) \/ RegisterTick(ok) \/ RegisterStops(ok)
             \/ CleanupRoute \/ ClockTick \/ UNCHANGED processVars
      PROVE  Checked'
  <2>1. /\ UNCHANGED <<input, server, maxTTL, validator>>
        /\ pc' = pc \/ pc' = "exited"
    BY <1>1, Zenon
    DEF RegisterStarts, RegisterTick, RegisterStops, CleanupRoute,
                ClockTick, processVars
  <2>2. QED
    BY <2>1, SameInput, Zenon DEF Checked, Loaded, HasDatabase, Validated
<1>2. QED
  BY <1>1, CheckedMain, Zenon DEF MainNext

LEMMA CheckedInvariant == MainSpec => []Checked
<1>1. MainInit => Checked
  BY Zenon DEF MainInit, Checked, Loaded, HasDatabase, Validated
<1>2. QED
  BY <1>1, CheckedNext, PTL DEF MainSpec

\* Whatever main is started with and whichever database server it finds, a
\* process that runs has the database, the validator and the router groups its
\* configuration asks for.
THEOREM AlwaysRunsAsConfigured == MainSpec => []RunsAsConfigured
<1>1. ASSUME NewSqlDB, input.caCert # Unset, ~input.skipSSL
      PROVE  /\ server.ca = input.caCert
             /\ server.hostOK \/ (input.dbType = "mysql" /\ input.skipHostname)
  BY <1>1, Zenon DEF NewSqlDB, Connects, MySQLMode, PostgresMode, Chain
<1>2. ASSUME ConfigLoads, input.failConflict
      PROVE  input.groupPorts \cap input.reserved = {}
  BY <1>2, Zenon DEF ConfigLoads, Accepts, GroupsValidate
<1>3. Checked => RunsAsConfigured
  BY <1>1, <1>2, Zenon
  DEF Checked, Loaded, HasDatabase, Validated, RunsAsConfigured, ConfigValidator
<1>4. QED
  BY <1>3, CheckedInvariant, PTL

-----------------------------------------------------------------------------
(* The ordered group and the lock.                                          *)

N == Len(Members)

RunState  == {"off", "starting", "aborted", "ready", "returned", "failed"}
LockState == {"off", "trying", "held", "stopping", "lost", "released",
              "lostSeen", "releasedSeen"}

TypeOK ==
  /\ group \in [Procs -> {"off", "start", "wait", "stop", "exited", "crashed"}]
  /\ at \in [Procs -> 0..N]
  /\ \A p \in Procs : Alive(p) => at[p] # 0
  /\ run \in [Procs -> [Names -> RunState]]
  /\ mail \in [Procs -> [Names -> SUBSET Signals]]
  /\ exited \in [Procs -> SUBSET Names]
  /\ sigs \in [Procs -> SUBSET Signals]
  /\ cur \in [Procs -> Signals]
  /\ lock \in [Procs -> LockState]
  /\ rel \in [Procs -> {"off", "select", "sending", "sleep"}]
  /\ cancelled \in [Procs -> BOOLEAN]
  /\ registered \in [Procs -> BOOLEAN]

-----------------------------------------------------------------------------
(* The inductive invariant.                                                 *)

\* Member i of process p was never started, or has exited.
Gone(p, i) == run[p][Members[i]] = "off" \/ Exited(p, Members[i])

\* Until the group stops, nobody has a signal and errTrace is empty; the
\* lock-acquirer, which returns only on a signal, is there.
Unsignalled(p) ==
  group[p] \in {"off", "start", "wait"} =>
    /\ \A m \in Names : mail[p][m] = {}
    /\ exited[p] = {}
    /\ ~Exited(p, "lock-acquirer")

\* orderedStart: the members before the current one are ready, those after it
\* have not been started.
InOrder(p) ==
  /\ group[p] = "off" => \A m \in Names : run[p][m] = "off"
  /\ group[p] = "start" => \A i \in 1..N :
       /\ i < at[p] => Ready(p, Members[i])
       /\ i > at[p] => run[p][Members[i]] = "off"
  /\ group[p] = "wait" => at[p] = N

\* stop: the members after the current one are in errTrace, unless they were
\* never started.
InReverse(p) ==
  /\ group[p] \in {"stop", "exited"} => \A i \in 1..N :
       i > at[p] => run[p][Members[i]] = "off" \/ Members[i] \in exited[p]
  /\ group[p] = "exited" => at[p] = 0
  /\ \A m \in exited[p] : Exited(p, m)

\* A member that has been sent a signal is the last one left.
SignalledLast(p) ==
  \A i, j \in 1..N : mail[p][Members[i]] # {} /\ j > i => Gone(p, j)

Ordered(p) == Unsignalled(p) /\ InOrder(p) /\ InReverse(p) /\ SignalledLast(p)

\* What the conn-stopper and the route-register have done when they exit.
Effects(p) ==
  /\ Exited(p, "conn-stopper") => cancelled[p]
  /\ registered[p] => run[p]["route-register"] \in {"ready", "failed"}

\* The lock at each stage: tried for until the acquirer is ready, given up only
\* by the releaser, which exits when the lockGroup has returned.
LockHeld(p) ==
  /\ run[p]["lock-acquirer"] = "ready" \/ run[p]["migration"] # "off" =>
       lock[p] \notin {"off", "trying"}
  /\ run[p]["migration"] \in {"off", "starting"} => run[p]["lock-releaser"] = "off"
  /\ rel[p] # "off" => run[p]["lock-releaser"] = "ready"
  /\ rel[p] = "sleep" \/ Exited(p, "lock-releaser") =>
       lock[p] \in {"lostSeen", "releasedSeen"}
  /\ lock[p] \in {"stopping", "released", "lostSeen", "releasedSeen"} =>
       run[p]["lock-releaser"] # "off"

ProcessInv(p) == Ordered(p) /\ Effects(p) /\ LockHeld(p)

\* A live process that holds the lock is the one locket knows of.
OwnerHolds ==
  \A p \in Procs : Alive(p) /\ lock[p] \in {"held", "stopping"} => owner = p

IInv == (\A p \in Procs : ProcessInv(p)) /\ OwnerHolds

-----------------------------------------------------------------------------
(* The members and their order.                                             *)

LEMMA MemberList ==
  /\ N = 11
  /\ Members[1] = "lock-acquirer" /\ Members[2] = "migration"
  /\ Members[4] = "api-server" /\ Members[5] = "route-register"
  /\ Members[6] = "api-mtls-server" /\ Members[7] = "admin-server"
  /\ Members[8] = "conn-stopper" /\ Members[11] = "lock-releaser"
BY Zenon DEF N, Members

LEMMA MemberNames ==
  /\ \A i \in 1..N : Members[i] \in Names
  /\ {"lock-acquirer", "migration", "route-register", "conn-stopper",
      "lock-releaser"} \subseteq Names
  /\ Servers \subseteq Names
<1>1. \A i \in 1..N : Members[i] \in Names
  BY Zenon DEF Names, N
<1>2. \A k \in {1, 2, 4, 5, 6, 7, 8, 11} : k \in 1..N
  BY MemberList
<1>3. QED
  BY <1>1, <1>2, MemberList, ZenonT(60) DEF Servers

\* No member is listed twice.
LEMMA MemberOnce ==
  ASSUME NEW i \in 1..N, NEW j \in 1..N, Members[i] = Members[j]
  PROVE  i = j
BY MemberList DEF Members

\* An assignment to a field of a process's members, and what it leaves alone.
LEMMA Put ==
  ASSUME NEW S, NEW f \in [Procs -> [Names -> S]], NEW p \in Procs, NEW m \in Names,
         NEW x \in S
  PROVE  LET g == [f EXCEPT ![p][m] = x]
         IN /\ g \in [Procs -> [Names -> S]]
            /\ g[p][m] = x
            /\ \A n \in Names \ {m} : g[p][n] = f[p][n]
            /\ \A q \in Procs \ {p} : g[q] = f[q]
OBVIOUS

-----------------------------------------------------------------------------
(* Types.                                                                   *)

LEMMA TypeInit == Init => TypeOK
BY LifecycleAssumption, MemberNames, MemberList
DEF Init, TypeOK, Alive, RunState, LockState

\* stop moves down the list and remembers who has exited.
LEMMA TypeStopFrom ==
  ASSUME TypeOK, NEW p \in Procs, NEW i \in 0..N, NEW trace \in SUBSET Names,
         NEW s \in Signals, StopFrom(p, i, trace, s),
         sigs' \in [Procs -> SUBSET Signals],
         UNCHANGED <<run, lock, rel, cancelled, registered>>
  PROVE  TypeOK'
<1> DEFINE j == IF i > 0 /\ Members[i] \in trace THEN i - 1 ELSE i
<1>1. j \in 0..N
  BY MemberList
<1>2. /\ at' = [at EXCEPT ![p] = j]
      /\ exited' = [exited EXCEPT ![p] = trace]
      /\ cur' = [cur EXCEPT ![p] = s]
      /\ group' = [group EXCEPT ![p] = IF j = 0 THEN "exited" ELSE "stop"]
      /\ mail' = IF j = 0 THEN mail
                 ELSE [mail EXCEPT ![p][Members[j]] = @ \cup {s}]
  BY Zenon DEF StopFrom
<1> HIDE DEF j
<1>3. mail' \in [Procs -> [Names -> SUBSET Signals]]
  <2>1. CASE j = 0
    BY <1>2, <2>1, Zenon DEF TypeOK
  <2>2. CASE j # 0
    <3>1. Members[j] \in Names
      BY <1>1, <2>2, MemberNames
    <3>2. mail' = [mail EXCEPT ![p][Members[j]] = @ \cup {s}]
      BY <1>2, <2>2, Zenon
    <3>3. mail[p][Members[j]] \cup {s} \in SUBSET Signals
      BY <3>1 DEF TypeOK
    <3>4. QED
      BY <3>1, <3>2, <3>3, Put DEF TypeOK
  <2>3. QED
    BY <2>1, <2>2, Zenon
<1>4. \A q \in Procs : Alive(q)' => at'[q] # 0
  BY <1>1, <1>2, Zenon DEF TypeOK, Alive
<1>5. /\ group' \in [Procs -> {"off", "start", "wait", "stop", "exited", "crashed"}]
      /\ at' \in [Procs -> 0..N]
      /\ exited' \in [Procs -> SUBSET Names]
      /\ cur' \in [Procs -> Signals]
  BY <1>1, <1>2, Zenon DEF TypeOK
<1>6. QED
  BY <1>3, <1>4, <1>5, Zenon DEF TypeOK

LEMMA TypeGroup ==
  ASSUME TypeOK, NEW p \in Procs, Start(p) \/ GroupStep(p)
  PROVE  TypeOK'
<1> USE DEF lockVars, dataVars
<1>1. CASE Start(p)
  <2>1. Members[1] \in Names
    BY MemberList, MemberNames, Zenon
  <2>2. run' \in [Procs -> [Names -> RunState]]
    BY <1>1, <2>1, Zenon DEF Start, TypeOK, RunState
  <2>3. \A q \in Procs : Alive(q)' => at'[q] # 0
    BY <1>1, MemberList DEF Start, TypeOK, Alive
  <2>4. QED
    BY <1>1, <2>2, <2>3, MemberList DEF Start, TypeOK, LockState
<1>2. CASE StartNext(p)
  <2>1. /\ at[p] \in 1..N /\ Alive(p)
        /\ UNCHANGED <<mail, exited, sigs, cur, lock, rel, cancelled, registered>>
    BY <1>2 DEF StartNext, TypeOK, Alive
  <2>2. CASE at[p] < N /\ at' = [at EXCEPT ![p] = @ + 1] /\ UNCHANGED group
             /\ run' = [run EXCEPT ![p][Members[at[p] + 1]] = "starting"]
    <3>1. at[p] + 1 \in 1..N /\ Members[at[p] + 1] \in Names
      BY <2>1, <2>2, MemberNames, MemberList
    <3>2. run' \in [Procs -> [Names -> RunState]]
      BY <2>2, <3>1, Zenon DEF TypeOK, RunState
    <3>3. at' \in [Procs -> 0..N] /\ \A q \in Procs : Alive(q)' => at'[q] # 0
      BY <2>1, <2>2, <3>1 DEF TypeOK, Alive
    <3>4. QED
      BY <2>1, <2>2, <3>2, <3>3, Zenon DEF TypeOK
  <2>3. CASE group' = [group EXCEPT ![p] = "wait"] /\ UNCHANGED <<at, run>>
    BY <2>1, <2>3, Zenon DEF TypeOK, Alive
  <2>4. QED
    BY <1>2, <2>2, <2>3, Zenon DEF StartNext, N
<1>3. CASE MemberExited(p)
  <2>1. at[p] \in 0..N
    BY Zenon DEF TypeOK
  <2>2. PICK i \in 1..at[p] : StopFrom(p, at[p], {Members[i]}, Interrupt)
    BY <1>3, Zenon DEF MemberExited
  <2>3. {Members[i]} \in SUBSET Names
    BY <2>1, MemberNames, MemberList
  <2>4. UNCHANGED <<run, sigs, lock, rel, cancelled, registered>>
    BY <1>3, Zenon DEF MemberExited
  <2>5. sigs' \in [Procs -> SUBSET Signals]
    BY <2>4, Zenon DEF TypeOK
  <2>6. QED
    BY <2>1, <2>2, <2>3, <2>4, <2>5, TypeStopFrom, LifecycleAssumption, Zenon
<1>4. CASE Signalled(p)
  <2>1. at[p] \in 0..N
    BY Zenon DEF TypeOK
  <2>2. PICK s \in sigs[p] : /\ sigs' = [sigs EXCEPT ![p] = @ \ {s}]
                             /\ StopFrom(p, at[p], {}, s)
    BY <1>4, Zenon DEF Signalled
  <2>3. s \in Signals /\ sigs' \in [Procs -> SUBSET Signals]
    BY <2>2, Zenon DEF TypeOK
  <2>4. UNCHANGED <<run, lock, rel, cancelled, registered>>
    BY <1>4, Zenon DEF Signalled
  <2>5. QED
    BY <2>1, <2>2, <2>3, <2>4, TypeStopFrom, Zenon
<1>5. CASE StopNext(p)
  <2>1. at[p] \in 1..N /\ at[p] - 1 \in 0..N
    BY <1>5, MemberList DEF StopNext, TypeOK, Alive
  <2>2. exited[p] \cup {Members[at[p]]} \in SUBSET Names /\ cur[p] \in Signals
    BY <2>1, MemberNames, Zenon DEF TypeOK
  <2>3. UNCHANGED <<run, sigs, lock, rel, cancelled, registered>>
    BY <1>5, Zenon DEF StopNext
  <2>4. sigs' \in [Procs -> SUBSET Signals]
    BY <2>3, Zenon DEF TypeOK
  <2>5. QED
    BY <1>5, <2>1, <2>2, <2>3, <2>4, TypeStopFrom, ZenonT(60) DEF StopNext
<1>6. CASE StopSignalled(p)
  <2>1. at[p] \in 1..N /\ Members[at[p]] \in Names
    BY <1>6, MemberNames DEF StopSignalled, TypeOK, Alive
  <2>2. PICK s \in sigs[p] :
          /\ sigs' = [sigs EXCEPT ![p] = @ \ {s}]
          /\ IF s = cur[p] THEN UNCHANGED <<cur, mail>>
             ELSE /\ cur' = [cur EXCEPT ![p] = s]
                  /\ mail' = [mail EXCEPT ![p][Members[at[p]]] = @ \cup {s}]
    BY <1>6, Zenon DEF StopSignalled
  <2>3. s \in Signals /\ sigs' \in [Procs -> SUBSET Signals]
    BY <2>2, Zenon DEF TypeOK
  <2>4. cur' \in [Procs -> Signals]
    BY <2>2, <2>3, ZenonT(60) DEF TypeOK
  <2>5. mail' \in [Procs -> [Names -> SUBSET Signals]]
    <3>1. mail[p][Members[at[p]]] \cup {s} \in SUBSET Signals
      BY <2>1, <2>3 DEF TypeOK
    <3>2. \/ mail' = mail
          \/ mail' = [mail EXCEPT ![p][Members[at[p]]] = @ \cup {s}]
      BY <2>2, Zenon
    <3>3. mail \in [Procs -> [Names -> SUBSET Signals]]
      BY Zenon DEF TypeOK
    <3>4. CASE mail' = [mail EXCEPT ![p][Members[at[p]]] = @ \cup {s}]
      BY <2>1, <3>1, <3>4, Put DEF TypeOK
    <3>5. QED
      BY <3>2, <3>3, <3>4, Zenon
  <2>6. QED
    BY <1>6, <2>3, <2>4, <2>5, ZenonT(60) DEF StopSignalled, TypeOK, Alive
<1>7. QED
  BY <1>1, <1>2, <1>3, <1>4, <1>5, <1>6, ZenonT(60) DEF GroupStep

LEMMA TypeMember ==
  ASSUME TypeOK, NEW p \in Procs, NEW m \in Names,
         BecomeReady(p, m) \/ Abort(p, m) \/ Stop(p, m) \/ Quit(p, m)
  PROVE  TypeOK'
<1> USE DEF groupVars, lockVars, dataVars
<1>1. UNCHANGED <<group, at, exited, cur, sigs, lock>>
  BY Zenon DEF BecomeReady, Abort, Stop, Quit
<1>2. run' \in [Procs -> [Names -> RunState]]
  <2>1. \E x \in RunState : run' = [run EXCEPT ![p][m] = x]
    BY Zenon DEF BecomeReady, Abort, Stop, Quit, RunState
  <2>2. QED
    BY <2>1, Put DEF TypeOK
<1>3. mail' \in [Procs -> [Names -> SUBSET Signals]]
  <2>1. mail' = mail \/ mail' = [mail EXCEPT ![p][m] = {}]
    BY Zenon DEF BecomeReady, Abort, Stop, Quit
  <2>2. {} \in SUBSET Signals /\ mail \in [Procs -> [Names -> SUBSET Signals]]
    BY Zenon DEF TypeOK
  <2>3. CASE mail' = [mail EXCEPT ![p][m] = {}]
    BY <2>2, <2>3, Put DEF TypeOK
  <2>4. QED
    BY <2>1, <2>2, <2>3, Zenon
<1>4. rel' \in [Procs -> {"off", "select", "sending", "sleep"}]
  <2>1. \/ rel' = rel
        \/ rel' = [rel EXCEPT ![p] = IF m = "lock-releaser" THEN "select" ELSE @]
    BY Zenon DEF BecomeReady, Abort, Stop, Quit
  <2>2. QED
    BY <2>1, ZenonT(60) DEF TypeOK
<1>5. cancelled' \in [Procs -> BOOLEAN]
  BY Zenon DEF BecomeReady, Abort, Stop, Quit, TypeOK
<1>6. registered' \in [Procs -> BOOLEAN]
  BY Zenon DEF BecomeReady, Abort, Stop, Quit, TypeOK
<1>7. \A q \in Procs : Alive(q)' => at'[q] # 0
  BY <1>1, Zenon DEF Alive, TypeOK
<1>8. QED
  BY <1>1, <1>2, <1>3, <1>4, <1>5, <1>6, <1>7, Zenon DEF TypeOK

\* The steps of the lock-acquirer's goroutine, the lock-releaser and locket.
LEMMA TypeLock ==
  ASSUME TypeOK, NEW p \in Procs, LockStep(p) \/ LoseLock(p) \/ Expire(p)
  PROVE  TypeOK'
<1> USE DEF groupVars, dataVars, LockStep
<1>1. UNCHANGED <<group, at, exited, cur, sigs, cancelled, registered>>
  BY Zenon
  DEF Acquire, Release, ReleaserSignalled, ReleaserSends, ReleaserReceives,
               ReleaserReturns, LoseLock, Expire
<1>2. run' \in [Procs -> [Names -> RunState]]
  <2>1. CASE Acquire(p)
    <3>1. run[p]["lock-acquirer"] \in RunState
      BY MemberNames DEF TypeOK
    <3>2. \E x \in RunState : run' = [run EXCEPT ![p]["lock-acquirer"] = x]
      BY <2>1, <3>1, ZenonT(60) DEF Acquire, RunState
    <3>3. QED
      BY <3>2, Put, MemberNames, SMTT(60) DEF TypeOK
  <2>2. CASE ReleaserReturns(p)
    <3>1. \E x \in RunState : run' = [run EXCEPT ![p]["lock-releaser"] = x]
      BY <2>2, Zenon DEF ReleaserReturns, RunState
    <3>2. QED
      BY <3>1, Put, MemberNames DEF TypeOK
  <2>3. CASE run' = run
    BY <2>3, Zenon DEF TypeOK
  <2>4. QED
    BY <2>1, <2>2, <2>3, ZenonT(60)
    DEF Release, ReleaserSignalled, ReleaserSends,
       ReleaserReceives, LoseLock, Expire
<1>3. mail' \in [Procs -> [Names -> SUBSET Signals]]
  <2>1. CASE ReleaserSignalled(p)
    <3>1. mail[p]["lock-releaser"] \in SUBSET Signals
      BY MemberNames DEF TypeOK
    <3>2. \E x \in SUBSET Signals : mail' = [mail EXCEPT ![p]["lock-releaser"] = x]
      BY <2>1, <3>1, Zenon DEF ReleaserSignalled
    <3>3. QED
      BY <3>2, Put, MemberNames DEF TypeOK
  <2>2. CASE mail' = mail
    BY <2>2, ZenonT(60) DEF TypeOK
  <2>3. QED
    BY <2>1, <2>2, ZenonT(60)
    DEF Acquire, Release, ReleaserSends, ReleaserReceives,
       ReleaserReturns, LoseLock, Expire
<1>4. lock' \in [Procs -> LockState]
  BY DEF Acquire, Release, ReleaserSignalled, ReleaserSends, ReleaserReceives,
         ReleaserReturns, LoseLock, Expire, TypeOK, LockState
<1>5. rel' \in [Procs -> {"off", "select", "sending", "sleep"}]
  <2>1. rel' = rel \/ \E x \in {"off", "select", "sending", "sleep"} :
                        rel' = [rel EXCEPT ![p] = x]
    BY Zenon DEF Acquire, Release, ReleaserSignalled, ReleaserSends,
       ReleaserReceives, ReleaserReturns, LoseLock, Expire
  <2>2. QED
    BY <2>1, Zenon DEF TypeOK
<1>6. \A q \in Procs : Alive(q)' => at'[q] # 0
  BY <1>1, Zenon DEF Alive, TypeOK
<1>7. QED
  BY <1>1, <1>2, <1>3, <1>4, <1>5, <1>6, Zenon DEF TypeOK

LEMMA TypeNext == TypeOK /\ [Next]_vars => TypeOK'
<1> SUFFICES ASSUME TypeOK, [Next]_vars PROVE TypeOK'
  OBVIOUS
<1>1. CASE UNCHANGED vars
  BY <1>1, Zenon DEF vars, TypeOK, Alive
<1>2. ASSUME NEW p \in Procs, Crash(p) PROVE TypeOK'
  BY <1>2, Zenon DEF Crash, lockVars, dataVars, TypeOK, Alive
<1>3. ASSUME NEW p \in Procs, NEW s \in Signals, SendSignal(p, s) PROVE TypeOK'
  BY <1>3, Zenon DEF SendSignal, groupVars, lockVars, dataVars, TypeOK, Alive
<1>4. QED
  BY <1>1, <1>2, <1>3, TypeGroup, TypeMember, TypeLock, Zenon
     DEF Next, MemberStep, Mishap

LEMMA TypeCorrect == Spec => []TypeOK
BY TypeInit, TypeNext, PTL DEF Spec

-----------------------------------------------------------------------------
(* The order of the members.                                                *)

\* What a process's invariant looks at.
Untouched(p) ==
  /\ group'[p] = group[p] /\ at'[p] = at[p] /\ exited'[p] = exited[p]
  /\ run'[p] = run[p] /\ mail'[p] = mail[p]
  /\ lock'[p] = lock[p] /\ rel'[p] = rel[p]
  /\ cancelled'[p] = cancelled[p] /\ registered'[p] = registered[p]

LEMMA UntouchedInv ==
  ASSUME NEW p \in Procs, ProcessInv(p), Untouched(p)
  PROVE  ProcessInv(p)'
<1>1. Ordered(p)'
  <2>1. Unsignalled(p)'
    BY Zenon DEF ProcessInv, Ordered, Unsignalled, Exited, Untouched
  <2>2. InOrder(p)'
    BY Zenon DEF ProcessInv, Ordered, InOrder, Ready, Untouched
  <2>3. InReverse(p)'
    BY Zenon DEF ProcessInv, Ordered, InReverse, Gone, Exited, Untouched
  <2>4. SignalledLast(p)'
    BY Zenon DEF ProcessInv, Ordered, SignalledLast, Gone, Exited, Untouched
  <2>. QED
    BY <2>1, <2>2, <2>3, <2>4, Zenon DEF Ordered
<1>2. Effects(p)'
  BY Zenon DEF ProcessInv, Effects, Exited, Untouched
<1>3. LockHeld(p)'
  BY Zenon DEF ProcessInv, LockHeld, Exited, Untouched
<1>4. QED
  BY <1>1, <1>2, <1>3, Zenon DEF ProcessInv

\* Members become ready and exit, receive signals, or the process crashes.
LEMMA OrderedMoves ==
  ASSUME TypeOK, NEW p \in Procs, Ordered(p),
         group'[p] \in {group[p], "crashed"},
         at'[p] = at[p], exited'[p] = exited[p],
         \A m \in Names : mail'[p][m] # {} => mail[p][m] # {},
         \A m \in Names :
           \/ run'[p][m] = run[p][m]
           \/ run[p][m] = "starting" /\ run'[p][m] \in {"ready", "aborted", "returned"}
           \/ run[p][m] = "ready" /\ run'[p][m] \in {"returned", "failed"},
         Exited(p, "lock-acquirer")' =>
           Exited(p, "lock-acquirer") \/ group[p] \notin {"off", "start", "wait"}
  PROVE  Ordered(p)'
<1>1. \A m \in Names : /\ Exited(p, m) => Exited(p, m)'
                       /\ Ready(p, m) => Ready(p, m)'
                       /\ run[p][m] = "off" => run'[p][m] = "off"
  BY Zenon DEF Exited, Ready
<1>2. \A i \in 1..N : Members[i] \in Names
  BY MemberNames, Zenon
<1>3. exited[p] \subseteq Names
  BY Zenon DEF TypeOK
<1>4. Unsignalled(p)'
  BY Zenon DEF Ordered, Unsignalled
<1>5. InOrder(p)'
  BY <1>1, <1>2, Zenon DEF Ordered, InOrder
<1>6. InReverse(p)'
  BY <1>1, <1>2, <1>3, Zenon DEF Ordered, InReverse
<1>7. SignalledLast(p)'
  BY <1>1, <1>2, ZenonT(60) DEF Ordered, SignalledLast, Gone
<1>8. QED
  BY <1>4, <1>5, <1>6, <1>7, Zenon DEF Ordered

\* stop: whoever comes after the member it goes on with is gone.
LEMMA OrderedStopFrom ==
  ASSUME TypeOK, NEW p \in Procs, Ordered(p), NEW i \in 0..N,
         NEW trace \in SUBSET Names, NEW s, StopFrom(p, i, trace, s), UNCHANGED run,
         \A m \in trace : Exited(p, m),
         \A k \in 1..N : k > i => run[p][Members[k]] = "off" \/ Members[k] \in trace
  PROVE  Ordered(p)'
<1> DEFINE j == IF i > 0 /\ Members[i] \in trace THEN i - 1 ELSE i
<1>1. j \in 0..N
  BY MemberList
<1>2. /\ at'[p] = j /\ exited'[p] = trace
      /\ group'[p] = IF j = 0 THEN "exited" ELSE "stop"
      /\ mail' = IF j = 0 THEN mail ELSE [mail EXCEPT ![p][Members[j]] = @ \cup {s}]
  BY ZenonT(60) DEF StopFrom, TypeOK
<1>3. \A k \in 1..N : k > j => run[p][Members[k]] = "off" \/ Members[k] \in trace
  BY MemberList
<1> HIDE DEF j
<1>4. \A k \in 1..N : k > j => Gone(p, k)
  BY <1>3, Zenon DEF Gone
<1>5. \A k \in 1..N : mail'[p][Members[k]] # {} => mail[p][Members[k]] # {} \/ k = j
  <2>1. CASE j = 0
    BY <1>2, <2>1, Zenon
  <2>2. CASE j # 0
    <3>1. j \in 1..N /\ mail' = [mail EXCEPT ![p][Members[j]] = @ \cup {s}]
      BY <1>1, <1>2, <2>2
    <3>2. ASSUME NEW k \in 1..N, k # j PROVE mail'[p][Members[k]] = mail[p][Members[k]]
      <4>1. Members[k] # Members[j] /\ Members[k] \in Names
        BY <3>1, <3>2, MemberOnce, MemberNames, Zenon
      <4>2. QED
        BY <3>1, <4>1, Zenon DEF TypeOK
    <3>3. QED
      BY <3>2, Zenon
  <2>3. QED
    BY <2>1, <2>2, Zenon
<1>6. SignalledLast(p)'
  <2> SUFFICES ASSUME NEW k \in 1..N, NEW l \in 1..N, mail'[p][Members[k]] # {}, l > k
               PROVE  Gone(p, l)
    BY Zenon DEF SignalledLast, Gone, Exited
  <2>1. CASE mail[p][Members[k]] # {}
    BY <2>1, Zenon DEF Ordered, SignalledLast
  <2>2. CASE k = j
    BY <1>4, <2>2, Zenon
  <2>3. QED
    BY <1>5, <2>1, <2>2, Zenon
<1>7. Unsignalled(p)' /\ InOrder(p)'
  BY <1>2, Zenon DEF Unsignalled, InOrder
<1>8. InReverse(p)'
  BY <1>2, <1>3, Zenon DEF InReverse, Exited
<1>9. QED
  BY <1>6, <1>7, <1>8, Zenon DEF Ordered

\* Steps of the group that start no member leave the rest alone.
LEMMA GroupEffects ==
  ASSUME NEW p \in Procs, Effects(p), LockHeld(p),
         UNCHANGED <<run, lock, rel, cancelled, registered>>
  PROVE  Effects(p)' /\ LockHeld(p)'
BY Zenon DEF Effects, LockHeld, Exited

LEMMA StopInv ==
  ASSUME TypeOK, NEW p \in Procs, ProcessInv(p),
         MemberExited(p) \/ Signalled(p) \/ StopNext(p) \/ StopSignalled(p)
  PROVE  ProcessInv(p)'
<1> USE DEF lockVars, dataVars
<1>1. Ordered(p) /\ Effects(p) /\ LockHeld(p) /\ at[p] \in 0..N
  BY Zenon DEF ProcessInv, TypeOK
<1>2. UNCHANGED <<run, lock, rel, cancelled, registered>>
  BY ZenonT(60) DEF MemberExited, Signalled, StopNext, StopSignalled
<1>3. ASSUME group[p] \in {"start", "wait"}
      PROVE  \A k \in 1..N : k > at[p] => run[p][Members[k]] = "off"
  BY <1>1, <1>3, MemberList, SMTT(60) DEF Ordered, InOrder
<1>4. CASE MemberExited(p)
  <2>1. PICK i \in 1..at[p] : /\ Exited(p, Members[i])
                              /\ StopFrom(p, at[p], {Members[i]}, Interrupt)
    BY <1>4, Zenon DEF MemberExited
  <2>2. {Members[i]} \in SUBSET Names
    BY <1>1, MemberNames, MemberList, SMTT(60)
  <2>3. group[p] \in {"start", "wait"}
    BY <1>4, SMTT(60) DEF MemberExited
  <2>4. QED
    BY ZenonT(60), <1>1, <1>2, <1>3, <2>1, <2>2, <2>3, OrderedStopFrom,
       GroupEffects,
       SMTT(60) DEF ProcessInv
<1>5. CASE Signalled(p)
  <2>1. PICK s \in sigs[p] : StopFrom(p, at[p], {}, s)
    BY <1>5, Zenon DEF Signalled
  <2>2. group[p] \in {"start", "wait"}
    BY <1>5, Zenon DEF Signalled
  <2>3. QED
    BY <1>1, <1>2, <1>3, <2>1, <2>2, OrderedStopFrom, GroupEffects, SMTT(60),
       SMTT(60) DEF ProcessInv
<1>6. CASE StopNext(p)
  <2> DEFINE trace == exited[p] \cup {Members[at[p]]}
  <2>1. /\ group[p] = "stop" /\ Exited(p, Members[at[p]])
        /\ StopFrom(p, at[p] - 1, trace, cur[p])
    BY <1>6, ZenonT(60) DEF StopNext
  <2>2. at[p] \in 1..N /\ at[p] - 1 \in 0..N
    BY <2>1, MemberList DEF TypeOK, Alive
  <2>3. trace \in SUBSET Names
    BY <2>2, MemberNames, Zenon DEF TypeOK
  <2>4. \A m \in trace : Exited(p, m)
    BY <1>1, <2>1, Zenon DEF Ordered, InReverse
  <2>5. ASSUME NEW k \in 1..N, k > at[p] - 1
        PROVE  run[p][Members[k]] = "off" \/ Members[k] \in trace
    <3>1. k = at[p] \/ k > at[p]
      BY <2>2, <2>5, MemberList, SMTT(60)
    <3>2. QED
      BY <1>1, <2>1, <3>1, Zenon DEF Ordered, InReverse
  <2> HIDE DEF trace
  <2>6. Ordered(p)'
    BY <1>1, <1>2, <2>1, <2>2, <2>3, <2>4, <2>5, OrderedStopFrom, ZenonT(60)
  <2>7. QED
    BY <1>1, <1>2, <2>6, GroupEffects, Zenon DEF ProcessInv
<1>7. CASE StopSignalled(p)
  <2>1. /\ group[p] = "stop" /\ UNCHANGED <<group, at, exited>>
        /\ mail' = mail \/ \E s : mail' = [mail EXCEPT ![p][Members[at[p]]] = @ \cup {s}]
    BY <1>7, ZenonT(60) DEF StopSignalled
  <2>2. at[p] \in 1..N
    BY <2>1 DEF TypeOK, Alive
  <2>3. \A k \in 1..N : k > at[p] => Gone(p, k)
    BY <1>1, <2>1, ZenonT(60) DEF Ordered, InReverse, Gone
  <2>4. ASSUME NEW k \in 1..N, k # at[p] PROVE mail'[p][Members[k]] = mail[p][Members[k]]
    <3>1. Members[k] # Members[at[p]] /\ Members[k] \in Names
      BY <2>2, <2>4, MemberOnce, MemberNames, Zenon
    <3>2. QED
      BY <2>1, <3>1 DEF TypeOK
  <2>5. SignalledLast(p)'
    <3> SUFFICES ASSUME NEW k \in 1..N, NEW l \in 1..N, mail'[p][Members[k]] # {}, l > k
                 PROVE  Gone(p, l)
      BY <1>2, Zenon DEF SignalledLast, Gone, Exited
    <3>1. CASE k = at[p]
      BY <2>3, <3>1, Zenon
    <3>2. CASE k # at[p]
      BY <1>1, <2>4, <3>2, Zenon DEF Ordered, SignalledLast
    <3>3. QED
      BY <3>1, <3>2, Zenon
  <2>6. Unsignalled(p)' /\ InOrder(p)' /\ InReverse(p)'
    BY <1>1, <1>2, <2>1, Zenon
    DEF Ordered, Unsignalled, InOrder, InReverse, Exited
  <2>7. QED
    BY <1>1, <1>2, <2>5, <2>6, GroupEffects, Zenon DEF ProcessInv, Ordered
<1>8. QED
  BY <1>4, <1>5, <1>6, <1>7, Zenon

LEMMA StartInv ==
  ASSUME TypeOK, NEW p \in Procs, ProcessInv(p), Start(p)
  PROVE  ProcessInv(p)'
<1> USE DEF dataVars
<1>1. /\ group[p] = "off" /\ group'[p] = "start" /\ at'[p] = 1
      /\ lock'[p] = "trying"
      /\ UNCHANGED <<mail, exited, rel, cancelled, registered>>
  BY Zenon DEF Start, TypeOK
<1>2. \A m \in Names : run[p][m] = "off"
  BY <1>1, Zenon DEF ProcessInv, Ordered, InOrder
<1>3. /\ run'[p]["lock-acquirer"] = "starting"
      /\ \A m \in Names \ {"lock-acquirer"} : run'[p][m] = "off"
  <2>1. run' = [run EXCEPT ![p]["lock-acquirer"] = "starting"]
    BY MemberList, Zenon DEF Start
  <2>2. QED
    BY <1>2, <2>1, MemberNames, ZenonT(60) DEF TypeOK
<1>4. \A i \in 1..N : i > 1 => Members[i] \in Names \ {"lock-acquirer"}
  <2>1. 1 \in 1..N
    BY MemberList, SMTT(60)
  <2>2. QED
    BY <2>1, MemberList, MemberNames, MemberOnce
<1>5. Unsignalled(p)'
  BY <1>1, <1>3, ZenonT(60) DEF ProcessInv, Ordered, Unsignalled, Exited
<1>6. InOrder(p)'
  BY <1>1, <1>3, <1>4 DEF InOrder
<1>7. InReverse(p)' /\ SignalledLast(p)'
  BY <1>1, <1>5, MemberNames, Zenon DEF Unsignalled, InReverse, SignalledLast
<1>8. Effects(p)' /\ LockHeld(p)'
  BY <1>1, <1>2, <1>3, MemberNames, ZenonT(60)
  DEF ProcessInv, Effects, LockHeld, Exited
<1>9. QED
  BY <1>5, <1>6, <1>7, <1>8, Zenon DEF ProcessInv, Ordered

LEMMA StartNextInv ==
  ASSUME TypeOK, NEW p \in Procs, ProcessInv(p), StartNext(p)
  PROVE  ProcessInv(p)'
<1> USE DEF lockVars, dataVars
<1>1. /\ group[p] = "start" /\ at[p] \in 1..N /\ Ready(p, Members[at[p]])
      /\ UNCHANGED <<mail, exited, lock, rel, cancelled, registered>>
  BY DEF StartNext, TypeOK, Alive
<1>2. Unsignalled(p) /\ InOrder(p) /\ Effects(p) /\ LockHeld(p)
  BY Zenon DEF ProcessInv, Ordered
<1>3. CASE at[p] = N /\ group' = [group EXCEPT ![p] = "wait"] /\ UNCHANGED <<at, run>>
  <2>1. group'[p] = "wait"
    BY <1>3, Zenon DEF TypeOK
  <2>2. Ordered(p)'
    BY <1>1, <1>3, <2>1, Zenon DEF ProcessInv, Ordered, Unsignalled, InOrder,
       InReverse,
                            SignalledLast, Gone, Exited
  <2>3. QED
    BY <1>1, <1>2, <1>3, <2>2, GroupEffects, Zenon DEF ProcessInv
<1>4. CASE at[p] < N /\ at' = [at EXCEPT ![p] = @ + 1] /\ UNCHANGED group
           /\ run' = [run EXCEPT ![p][Members[at[p] + 1]] = "starting"]
  <2> DEFINE k == at[p] + 1
  <2>1. k \in 1..N /\ k # 1 /\ Members[k] \in Names
    BY <1>1, <1>4, MemberNames, MemberList
  <2>2. at'[p] = k /\ group'[p] = "start"
    BY <1>1, <1>4, Zenon DEF TypeOK
  <2>3. /\ run'[p][Members[k]] = "starting"
        /\ \A m \in Names \ {Members[k]} : run'[p][m] = run[p][m]
    BY <1>4, <2>1, ZenonT(60) DEF TypeOK
  <2>4. run[p][Members[k]] = "off"
    BY <1>1, <1>2, <2>1, SMTT(60) DEF InOrder
  <2>5. \A i \in 1..N : i # k => run'[p][Members[i]] = run[p][Members[i]]
    BY <2>1, <2>3, MemberOnce, MemberNames, ZenonT(60)
  <2>6. \A i \in 1..N : i < k => i < at[p] \/ i = at[p]
    BY <1>1, MemberList, SMTT(60)
  <2>7. \A i \in 1..N : i > k => i > at[p]
    BY <1>1, MemberList, SMTT(60)
  <2>8. \A i \in 1..N : i < k => i # k
    BY <2>1, MemberList
  <2>9. \A i \in 1..N : i > k => i # k
    BY <2>1, MemberList, SMTT(60)
  <2> HIDE DEF k
  <2>10. InOrder(p)'
    BY <1>1, <1>2, <2>2, <2>5, <2>6, <2>7, <2>8, <2>9, SMTT(60)
    DEF InOrder, Ready
  <2>11. Members[k] # "lock-acquirer"
    <3>1. 1 \in 1..N
      BY MemberList, SMTT(60)
    <3>2. QED
      BY <2>1, <3>1, MemberOnce, MemberList, Zenon
  <2>12. Unsignalled(p)'
    BY <1>1, <1>2, <2>2, <2>3, <2>11, MemberNames, ZenonT(60)
    DEF Unsignalled, Exited
  <2>13. InReverse(p)' /\ SignalledLast(p)'
    BY <1>1, <1>2, <2>2, MemberNames, Zenon
    DEF Unsignalled, InReverse, SignalledLast
  <2>14. Effects(p)'
    BY <1>1, <1>2, <2>3, <2>4, MemberNames, Zenon DEF Effects, Exited
  <2>15. run[p]["lock-acquirer"] = "ready"
    <3>1. 1 \in 1..N /\ (1 < at[p] \/ 1 = at[p])
      BY <1>1, MemberList, SMTT(60)
    <3>2. Ready(p, "lock-acquirer")
      BY <1>1, <1>2, <3>1, MemberList, SMTT(60) DEF InOrder
    <3>3. QED
      BY <1>1, <1>2, <3>2, ZenonT(60) DEF Unsignalled, Ready, Exited
  <2>16. Members[k] = "lock-releaser" => run[p]["migration"] \notin {"off", "starting"}
    <3> SUFFICES ASSUME Members[k] = "lock-releaser"
                 PROVE  Ready(p, "migration")
      BY Zenon DEF Ready
    <3>1. 11 \in 1..N /\ 2 \in 1..N
      BY MemberList
    <3>2. k = 11
      BY <2>1, <3>1, MemberOnce, MemberList, ZenonT(60)
    <3>3. 2 < at[p]
      BY <1>1, <3>2, SMTT(60) DEF k
    <3>4. QED
      BY <1>1, <1>2, <3>1, <3>3, MemberList, Zenon DEF InOrder
  <2>17. LockHeld(p)'
    <3>1. Members[k] = "migration" => run[p]["lock-releaser"] = "off"
      BY <1>2, <2>4, Zenon DEF LockHeld
    <3>2. QED
      BY ZenonT(60), <1>1, <1>2, <2>3, <2>4, <2>15, <2>16, <3>1, MemberNames,
         SMTT(60) DEF LockHeld, Exited
  <2>18. QED
    BY <2>10, <2>12, <2>13, <2>14, <2>17, ZenonT(60) DEF ProcessInv, Ordered
<1>5. QED
  BY <1>3, <1>4, Zenon DEF StartNext, N

-----------------------------------------------------------------------------
(* Members, lock and environment.                                           *)

\* The members that change state: where from, where to, and with what effect.
LEMMA ReadyInv ==
  ASSUME TypeOK, NEW p \in Procs, ProcessInv(p), NEW m \in Names, BecomeReady(p, m)
  PROVE  ProcessInv(p)'
<1> USE DEF groupVars
<1>1. /\ m # "lock-acquirer" /\ run[p][m] = "starting"
      /\ UNCHANGED <<group, at, exited, mail, lock, cancelled>>
  BY Zenon DEF BecomeReady
<1>2. /\ run'[p][m] = "ready"
      /\ \A n \in Names \ {m} : run'[p][n] = run[p][n]
  BY Zenon DEF BecomeReady, TypeOK
<1>3. rel'[p] = IF m = "lock-releaser" THEN "select" ELSE rel[p]
  BY Zenon DEF BecomeReady, TypeOK
<1>4. registered'[p] => registered[p] \/ m = "route-register"
  BY ZenonT(60) DEF BecomeReady, TypeOK
<1>5. Ordered(p)'
  BY <1>1, <1>2, OrderedMoves, MemberNames, Zenon DEF ProcessInv, Exited
<1>6. Effects(p)'
  BY <1>1, <1>2, <1>4, MemberNames, ZenonT(60) DEF ProcessInv, Effects, Exited
<1>7. LockHeld(p)'
  BY <1>1, <1>2, <1>3, MemberNames, Zenon DEF ProcessInv, LockHeld, Exited
<1>8. QED
  BY <1>5, <1>6, <1>7, Zenon DEF ProcessInv

LEMMA AbortInv ==
  ASSUME TypeOK, NEW p \in Procs, ProcessInv(p), NEW m \in Names,
         Abort(p, m) \/ Quit(p, m)
  PROVE  ProcessInv(p)'
<1> USE DEF groupVars, lockVars, dataVars
<1>1. UNCHANGED <<group, at, exited, mail, lock, rel, cancelled, registered>>
  BY ZenonT(60) DEF Abort, Quit
<1>2. PICK x : /\ run' = [run EXCEPT ![p][m] = x]
               /\ \/ run[p][m] = "starting" /\ x = "aborted"
                  \/ run[p][m] = "ready" /\ m \in Servers /\ x = "failed"
                  \/ run[p][m] = "ready" /\ m = "metrics" /\ x = "returned"
  BY Zenon DEF Abort, Quit
<1>3. run'[p][m] = x /\ \A n \in Names \ {m} : run'[p][n] = run[p][n]
  BY <1>2, Zenon DEF TypeOK
<1>4. m \notin {"lock-acquirer", "conn-stopper", "lock-releaser"}
  BY Zenon DEF Abort, Quit, Abortable, Servers
<1>5. m = "route-register" => x = "aborted" /\ run[p][m] = "starting"
  BY <1>2, Zenon DEF Servers
<1>6. Ordered(p)'
  BY <1>1, <1>2, <1>3, <1>4, OrderedMoves, MemberNames, Zenon
  DEF ProcessInv, Exited
<1>7. Effects(p)'
  BY <1>1, <1>3, <1>4, <1>5, MemberNames, Zenon DEF ProcessInv, Effects, Exited
<1>8. LockHeld(p)'
  BY <1>1, <1>2, <1>3, <1>4, MemberNames, Zenon DEF ProcessInv, LockHeld, Exited
<1>9. QED
  BY <1>6, <1>7, <1>8, Zenon DEF ProcessInv

\* A member receives the signal, which only a group that stops has sent.
LEMMA StoppedInv ==
  ASSUME TypeOK, NEW p \in Procs, ProcessInv(p), NEW m \in Names, Stop(p, m)
  PROVE  ProcessInv(p)'
<1> USE DEF groupVars, lockVars
<1>1. /\ m # "lock-releaser" /\ mail[p][m] # {} /\ Listening(p, m)
      /\ UNCHANGED <<group, at, exited, lock, rel>>
  BY Zenon DEF Stop
<1>2. mail' = [mail EXCEPT ![p][m] = {}]
  BY Zenon DEF Stop
<1>3. \A n \in Names : mail'[p][n] # {} => mail[p][n] # {}
  BY <1>2, Zenon DEF TypeOK
<1>4. group[p] \notin {"off", "start", "wait"}
  BY <1>1, Zenon DEF ProcessInv, Ordered, Unsignalled
<1>5. PICK x \in {"returned", "failed"} :
        /\ run' = [run EXCEPT ![p][m] = x]
        /\ x = "failed" => m = "route-register"
  BY Zenon DEF Stop
<1>6. run'[p][m] = x /\ \A n \in Names \ {m} : run'[p][n] = run[p][n]
  BY <1>5, Zenon DEF TypeOK
<1>7. /\ run[p][m] = "ready" \/ (m = "lock-acquirer" /\ run[p][m] = "starting")
  BY <1>1, Zenon DEF Listening
<1>8. x = "failed" => run[p][m] = "ready"
  BY <1>5, <1>7, Zenon
<1>9. cancelled'[p] <=> cancelled[p] \/ m = "conn-stopper"
  BY Zenon DEF Stop, TypeOK
<1>10. registered'[p] => registered[p] /\ (m = "route-register" => x = "failed")
  <2>1. CASE /\ run' = [run EXCEPT ![p][m] = "returned"]
             /\ registered' = [registered EXCEPT ![p] = @ /\ m # "route-register"]
    BY <2>1, Zenon DEF TypeOK
  <2>2. CASE run' = [run EXCEPT ![p][m] = "failed"] /\ UNCHANGED registered
    <3>1. x = "failed"
      BY <1>6, <2>2, ZenonT(60) DEF TypeOK
    <3>2. QED
      BY <2>2, <3>1, Zenon
  <2>3. QED
    BY <2>1, <2>2, Zenon DEF Stop
<1>11. Ordered(p)'
  BY <1>1, <1>3, <1>4, <1>6, <1>7, <1>8, OrderedMoves, Zenon DEF ProcessInv
<1>12. Effects(p)'
  BY <1>6, <1>9, <1>10, MemberNames, ZenonT(60) DEF ProcessInv, Effects, Exited
<1>13. LockHeld(p)'
  BY <1>1, <1>6, <1>7, MemberNames, Zenon DEF ProcessInv, LockHeld, Exited
<1>14. QED
  BY <1>11, <1>12, <1>13, Zenon DEF ProcessInv

\* The goroutine of the lock-acquirer, the loop of the lock-releaser.
LEMMA LockInv ==
  ASSUME TypeOK, NEW p \in Procs, ProcessInv(p), LockStep(p) \/ LoseLock(p) \/ Expire(p)
  PROVE  ProcessInv(p)'
<1> USE DEF groupVars, dataVars
<1>1. UNCHANGED <<group, at, exited, cancelled, registered>>
  BY Zenon DEF LockStep, Acquire, Release, ReleaserSignalled, ReleaserSends,
     ReleaserReceives, ReleaserReturns, LoseLock, Expire
<1>2. Ordered(p) /\ Effects(p) /\ LockHeld(p)
  BY Zenon DEF ProcessInv
<1>3. CASE Acquire(p)
  <2>1. /\ lock[p] = "trying" /\ lock'[p] = "held" /\ UNCHANGED <<mail, rel>>
    BY <1>3, Zenon DEF Acquire, TypeOK
  <2>2. /\ \A n \in Names \ {"lock-acquirer"} : run'[p][n] = run[p][n]
        /\ \/ run'[p]["lock-acquirer"] = run[p]["lock-acquirer"]
           \/ /\ run[p]["lock-acquirer"] = "starting"
              /\ run'[p]["lock-acquirer"] = "ready"
    BY <1>3, MemberNames, Zenon DEF Acquire, TypeOK
  <2>3. Ordered(p)'
    BY <1>1, <1>2, <2>1, <2>2, OrderedMoves, ZenonT(60) DEF Exited
  <2>4. Effects(p)'
    BY <1>1, <1>2, <2>2, MemberNames, ZenonT(60) DEF Effects, Exited
  <2>5. LockHeld(p)'
    BY <1>2, <2>1, <2>2, MemberNames, Zenon DEF LockHeld, Exited
  <2>6. QED
    BY <2>3, <2>4, <2>5, Zenon DEF ProcessInv
<1>4. CASE ReleaserReturns(p)
  <2>1. /\ rel[p] = "sleep" /\ rel'[p] = "off" /\ UNCHANGED <<mail, lock>>
    BY <1>4, Zenon DEF ReleaserReturns, TypeOK
  <2>2. /\ \A n \in Names \ {"lock-releaser"} : run'[p][n] = run[p][n]
        /\ run[p]["lock-releaser"] = "ready"
        /\ run'[p]["lock-releaser"] \in {"returned", "failed"}
    BY <1>2, <1>4, <2>1, MemberNames, Zenon
    DEF ReleaserReturns, TypeOK, LockHeld
  <2>3. Ordered(p)'
    BY <1>1, <1>2, <2>1, <2>2, OrderedMoves, MemberNames, Zenon DEF Exited
  <2>4. Effects(p)'
    BY <1>1, <1>2, <2>2, MemberNames, Zenon DEF Effects, Exited
  <2>5. LockHeld(p)'
    BY <1>2, <2>1, <2>2, MemberNames, Zenon DEF LockHeld, Exited
  <2>6. QED
    BY <2>3, <2>4, <2>5, Zenon DEF ProcessInv
<1>5. CASE \/ Release(p) \/ ReleaserSignalled(p) \/ ReleaserSends(p)
           \/ ReleaserReceives(p) \/ LoseLock(p) \/ Expire(p)
  <2>1. UNCHANGED run
    BY <1>5, Zenon
    DEF Release, ReleaserSignalled, ReleaserSends, ReleaserReceives,
       LoseLock, Expire
  <2>2. \A n \in Names : mail'[p][n] # {} => mail[p][n] # {}
    <3>1. CASE ReleaserSignalled(p)
      BY <3>1, MemberNames, SMTT(60) DEF ReleaserSignalled, TypeOK
    <3>2. CASE mail' = mail
      BY <3>2, Zenon
    <3>3. QED
      BY <1>5, <3>1, <3>2, ZenonT(60)
      DEF Release, ReleaserSends, ReleaserReceives,
         LoseLock, Expire
  <2>3. Ordered(p)'
    BY <1>1, <1>2, <2>1, <2>2, OrderedMoves, ZenonT(60) DEF Exited
  <2>4. Effects(p)'
    BY <1>1, <1>2, <2>1, Zenon DEF Effects, Exited
  <2>5. LockHeld(p)'
    <3>1. \/ lock[p] \in {"held", "stopping"} /\ lock'[p] = "lost" /\ rel'[p] = rel[p]
          \/ lock[p] = "stopping" /\ lock'[p] = "released" /\ rel'[p] = rel[p]
          \/ lock'[p] = lock[p] /\ rel[p] = "select" /\ rel'[p] = "sending"
          \/ /\ rel[p] = "sending" /\ rel'[p] = "select"
             /\ lock[p] \in {"held", "stopping"} /\ lock'[p] = "stopping"
          \/ /\ rel[p] = "select" /\ rel'[p] = "sleep"
             /\ lock[p] \in {"lost", "released"}
             /\ lock'[p] \in {"lostSeen", "releasedSeen"}
          \/ lock'[p] = lock[p] /\ rel'[p] = rel[p]
      BY <1>5 DEF Release, ReleaserSignalled, ReleaserSends, ReleaserReceives,
         LoseLock, Expire, TypeOK
    <3>2. QED
      BY <1>2, <2>1, <3>1, ZenonT(60) DEF LockHeld, Exited
  <2>6. QED
    BY <2>3, <2>4, <2>5, Zenon DEF ProcessInv
<1>6. QED
  BY <1>3, <1>4, <1>5, Zenon DEF LockStep

LEMMA EnvironmentInv ==
  ASSUME TypeOK, NEW p \in Procs, ProcessInv(p),
         Crash(p) \/ \E s \in Signals : SendSignal(p, s)
  PROVE  ProcessInv(p)'
<1> USE DEF groupVars, lockVars, dataVars
<1>1. UNCHANGED <<at, exited, run, mail, lock, rel, cancelled, registered>>
  BY ZenonT(60) DEF Crash, SendSignal
<1>2. group'[p] \in {group[p], "crashed"}
  BY Zenon DEF Crash, SendSignal, TypeOK
<1>3. Ordered(p)'
  BY <1>1, <1>2, OrderedMoves, Zenon DEF ProcessInv, Exited
<1>4. QED
  BY <1>1, <1>3, GroupEffects, Zenon DEF ProcessInv

-----------------------------------------------------------------------------
(* All processes.                                                           *)

\* A step of one process, as Next has them.
ProcessStep(p) ==
  \/ Start(p) \/ GroupStep(p) \/ MemberStep(p) \/ LockStep(p) \/ Expire(p)
  \/ Mishap(p)

LEMMA OwnStep ==
  ASSUME TypeOK, NEW p \in Procs, ProcessInv(p), ProcessStep(p)
  PROVE  ProcessInv(p)'
BY ZenonT(60), StopInv, StartInv, StartNextInv, ReadyInv, AbortInv, StoppedInv,
   LockInv,
   EnvironmentInv
DEF ProcessStep, GroupStep, MemberStep, Mishap

\* The other processes do not notice.
LEMMA OthersUntouched ==
  ASSUME TypeOK, NEW p \in Procs, ProcessStep(p), NEW q \in Procs \ {p}
  PROVE  Untouched(q)
<1> USE DEF Untouched, groupVars, lockVars, dataVars
<1>1. CASE Start(p)
  BY <1>1, Zenon DEF Start, TypeOK
<1>2. CASE StartNext(p)
  BY <1>2, Zenon DEF StartNext, TypeOK
<1>3. ASSUME NEW i, NEW trace, NEW s, StopFrom(p, i, trace, s)
      PROVE  /\ group'[q] = group[q] /\ at'[q] = at[q] /\ exited'[q] = exited[q]
             /\ mail'[q] = mail[q]
  BY <1>3, Zenon DEF StopFrom, TypeOK
<1>4. CASE MemberExited(p) \/ Signalled(p) \/ StopNext(p)
  BY <1>3, <1>4, ZenonT(60) DEF MemberExited, Signalled, StopNext
<1>5. CASE StopSignalled(p)
  BY <1>5, ZenonT(60) DEF StopSignalled, TypeOK
<1>6. ASSUME NEW m \in Names,
             BecomeReady(p, m) \/ Stop(p, m) \/ Abort(p, m) \/ Quit(p, m)
      PROVE  Untouched(q)
  BY <1>6, SMTT(60) DEF BecomeReady, Stop, Abort, Quit, TypeOK
<1>7. CASE LockStep(p) \/ LoseLock(p) \/ Expire(p)
  BY <1>7 DEF LockStep, Acquire, Release, ReleaserSignalled, ReleaserSends,
     ReleaserReceives, ReleaserReturns, LoseLock, Expire, TypeOK
<1>8. CASE Crash(p) \/ \E s \in Signals : SendSignal(p, s)
  BY <1>8, Zenon DEF Crash, SendSignal, TypeOK
<1>9. QED
  BY <1>1, <1>2, <1>4, <1>5, <1>6, <1>7, <1>8, ZenonT(60)
  DEF ProcessStep, GroupStep, MemberStep, Mishap

\* A process that is alive and has not been told to give up the lock it holds.
Holds(p) == Alive(p) /\ lock[p] \in {"held", "stopping"}

\* Only a request that finds no owner makes a process hold the lock, and only a
\* process that no longer holds it stops being the owner.
LEMMA OwnerMoves ==
  ASSUME TypeOK, NEW p \in Procs, ProcessStep(p)
  PROVE  \/ owner' = owner /\ (Holds(p)' => Holds(p))
         \/ owner = None /\ owner' = p
         \/ owner = p /\ owner' = None /\ ~Holds(p)'
<1> USE DEF groupVars, lockVars, dataVars, Holds, Alive
<1>1. CASE Start(p)
  BY <1>1, Zenon DEF Start, TypeOK
<1>2. CASE GroupStep(p)
  <2>1. owner' = owner /\ lock' = lock
    BY <1>2, ZenonT(60)
    DEF GroupStep, StartNext, MemberExited, Signalled, StopNext,
       StopSignalled
  <2>2. Alive(p)
    BY <1>2, Zenon DEF GroupStep, StartNext, MemberExited, Signalled, StopNext,
       StopSignalled
  <2>3. QED
    BY <2>1, <2>2, Zenon
<1>3. ASSUME NEW m \in Names,
             BecomeReady(p, m) \/ Stop(p, m) \/ Abort(p, m) \/ Quit(p, m)
      PROVE  owner' = owner /\ (Holds(p)' => Holds(p))
  <2>1. owner' = owner /\ lock' = lock /\ group' = group
    BY <1>3, ZenonT(60) DEF BecomeReady, Stop, Abort, Quit
  <2>2. QED
    BY <2>1, Zenon
<1>4. CASE LockStep(p) \/ LoseLock(p) \/ Expire(p)
  BY <1>4, Zenon
  DEF LockStep, Acquire, Release, ReleaserSignalled, ReleaserSends,
     ReleaserReceives, ReleaserReturns, LoseLock, Expire, TypeOK
<1>5. CASE Crash(p) \/ \E s \in Signals : SendSignal(p, s)
  BY <1>5, Zenon DEF Crash, SendSignal, TypeOK
<1>6. QED
  BY <1>1, <1>2, <1>3, <1>4, <1>5, ZenonT(60)
  DEF ProcessStep, MemberStep, Mishap

LEMMA InvInit == Init => IInv
<1> SUFFICES ASSUME Init PROVE IInv
  BY Zenon
<1>1. ASSUME NEW p \in Procs PROVE ProcessInv(p)
  <2>1. /\ group[p] = "off" /\ at[p] = 0 /\ exited[p] = {} /\ lock[p] = "off"
        /\ rel[p] = "off"
        /\ \A m \in Names : run[p][m] = "off" /\ mail[p][m] = {}
    BY Zenon DEF Init
  <2>2. ~cancelled[p] /\ ~registered[p]
    BY ZenonT(60) DEF Init
  <2>3. Ordered(p)
    BY <2>1, MemberNames, Zenon DEF Ordered, Unsignalled, InOrder, InReverse,
       SignalledLast,
       Exited
  <2>4. QED
    BY <2>1, <2>2, <2>3, MemberNames, Zenon
       DEF ProcessInv, Effects, LockHeld, Exited
<1>2. OwnerHolds
  BY Zenon DEF Init, OwnerHolds
<1>3. QED
  BY <1>1, <1>2, Zenon DEF IInv

LEMMA InvNext == TypeOK /\ IInv /\ [Next]_vars => IInv'
<1> SUFFICES ASSUME TypeOK, IInv, [Next]_vars PROVE IInv'
  OBVIOUS
<1>1. CASE UNCHANGED vars
  <2>1. ASSUME NEW p \in Procs PROVE ProcessInv(p)'
    BY <1>1, UntouchedInv, Zenon DEF vars, Untouched, IInv
  <2>2. OwnerHolds'
    BY <1>1, Zenon DEF vars, OwnerHolds, Alive, IInv
  <2>3. QED
    BY <2>1, <2>2, Zenon DEF IInv
<1>2. CASE Next
  <2>1. PICK p \in Procs : ProcessStep(p)
    BY <1>2, Zenon DEF Next, ProcessStep
  <2>2. ASSUME NEW q \in Procs PROVE ProcessInv(q)'
    BY <2>1, OwnStep, OthersUntouched, UntouchedInv, Zenon DEF IInv
  <2>3. \A q \in Procs : Holds(q) => owner = q
    BY Zenon DEF IInv, OwnerHolds, Holds
  <2>4. ASSUME NEW q \in Procs, Holds(q)' PROVE owner' = q
    <3>1. CASE q = p
      BY <2>1, <2>3, <2>4, <3>1, OwnerMoves, Zenon
    <3>2. CASE q # p
      <4>1. Holds(q)
        BY <2>1, <2>4, <3>2, OthersUntouched, Zenon DEF Untouched, Holds, Alive
      <4>2. QED
        BY <2>1, <2>3, <3>2, <4>1, OwnerMoves, LifecycleAssumption, Zenon
    <3>3. QED
      BY <3>1, <3>2, Zenon
  <2>5. QED
    BY <2>2, <2>4, Zenon DEF IInv, OwnerHolds, Holds
<1>3. QED
  BY <1>1, <1>2, Zenon

LEMMA InvCorrect == Spec => [](TypeOK /\ IInv)
BY TypeInit, TypeNext, InvInit, InvNext, PTL DEF Spec

-----------------------------------------------------------------------------
(* The theorems.                                                            *)

\* main's order of members, whatever ends them: when a server is told to stop, the
\* conn-stopper, which comes after it, has exited and so called CancelWatches.
THEOREM AlwaysStreamsCancelledFirst == Spec => []StreamsCancelledFirst
<1>1. TypeOK /\ IInv => StreamsCancelledFirst
  <2> SUFFICES ASSUME IInv, NEW p \in Procs, NEW m \in Servers,
                      mail[p][m] # {}, run[p]["conn-stopper"] # "off"
               PROVE  cancelled[p]
    BY Zenon DEF StreamsCancelledFirst
  <2>1. PICK i \in 1..7 : m = Members[i]
    BY MemberList, SMTT(60) DEF Servers
  <2>2. Gone(p, 8)
    BY <2>1, MemberList, SMTT(60) DEF IInv, ProcessInv, Ordered, SignalledLast
  <2>3. Exited(p, "conn-stopper")
    BY <2>2, MemberList, Zenon DEF Gone
  <2>4. QED
    BY <2>3, Zenon DEF IInv, ProcessInv, Effects
<1>2. QED
  BY <1>1, InvCorrect, PTL

\* The lock-releaser is the last member: a process that has started it and tells a
\* server to stop no longer holds the lock, and has waited for another to take it.
THEOREM AlwaysReleasedFirst == Spec => []ReleasedBeforeServersStop
<1>1. TypeOK /\ IInv => ReleasedBeforeServersStop
  <2> SUFFICES ASSUME IInv, NEW p \in Procs, NEW m \in Servers,
                      mail[p][m] # {}, run[p]["lock-releaser"] # "off"
               PROVE  lock[p] \in {"lostSeen", "releasedSeen"}
    BY Zenon DEF ReleasedBeforeServersStop
  <2>1. PICK i \in 1..7 : m = Members[i]
    BY MemberList, SMTT(60) DEF Servers
  <2>2. Gone(p, 11)
    BY <2>1, MemberList DEF IInv, ProcessInv, Ordered, SignalledLast
  <2>3. Exited(p, "lock-releaser")
    BY <2>2, MemberList, Zenon DEF Gone
  <2>4. QED
    BY <2>3, Zenon DEF IInv, ProcessInv, LockHeld
<1>2. QED
  BY <1>1, InvCorrect, PTL

\* RouteRegister.Run: a group that has exited waited for every member it started;
\* one whose own route is still there has the route-register's error in its trace.
THEOREM CleanExitsUnregister == Spec => []CleanExitUnregisters
<1>1. TypeOK /\ IInv => CleanExitUnregisters
  <2> SUFFICES ASSUME IInv, NEW p \in Procs, group[p] = "exited", registered[p]
               PROVE  Failed(p)
    BY ZenonT(60) DEF CleanExitUnregisters
  <2>1. /\ run[p]["route-register"] \in {"ready", "failed"}
    BY ZenonT(60) DEF IInv, ProcessInv, Effects
  <2>2. Members[5] = "route-register" /\ 5 \in 1..N /\ at[p] = 0
    BY MemberList, SMTT(60) DEF IInv, ProcessInv, Ordered, InReverse
  <2>3. "route-register" \in exited[p]
    BY <2>1, <2>2, SMTT(60) DEF IInv, ProcessInv, Ordered, InReverse
  <2>4. run[p]["route-register"] = "failed"
    BY <2>1, <2>3, Zenon DEF IInv, ProcessInv, Ordered, InReverse, Exited
  <2>5. QED
    BY <2>3, <2>4, Zenon DEF Failed
<1>2. QED
  BY <1>1, InvCorrect, PTL

\* The lock-acquirer comes before the migration and the lock-releaser after it: a
\* process that migrates holds the lock or has lost it, and only one is its owner.
THEOREM MigrationsExclude == Spec => []MigrationExclusive
<1>1. TypeOK /\ IInv => MigrationExclusive
  <2>1. ASSUME TypeOK, IInv, NEW p \in Procs, Migrating(p), lock[p] # "lost"
        PROVE  owner = p
    <3>1. lock[p] \in LockState
      BY <2>1, Zenon DEF TypeOK
    <3>2. lock[p] = "held"
      BY <2>1, <3>1, Zenon DEF IInv, ProcessInv, LockHeld, Migrating, LockState
    <3>3. QED
      BY <2>1, <3>2, Zenon DEF IInv, OwnerHolds, Migrating
  <2>2. QED
    BY <2>1, Zenon DEF MigrationExclusive
<1>2. QED
  BY <1>1, InvCorrect, PTL

=============================================================================
