-------------------------------- MODULE Startup -------------------------------
(***************************************************************************)
(* How a routing-api process starts (cmd/routing-api/main.go): the flags,   *)
(* the configuration file, its validation and defaults, the connections to *)
(* the database, UAA and locket, and the members of the process group; and  *)
(* how, once it runs, it keeps its own route registered                    *)
(* (helpers.RouteRegister).  An input holds the flags and the file a        *)
(* process is started with.  Durations are in half seconds, because main    *)
(* truncates max_ttl to whole seconds; the clock is in seconds.             *)
(***************************************************************************)
EXTENDS Naturals, Sequences

CONSTANTS
  Inputs,       \* the flags and configuration files processes are started with
  DBServers,    \* the database servers a process may find
  DefaultTTL,   \* the default of max_ttl (2 minutes)
  MaxTime,      \* bound: seconds a behaviour lasts
  Unset         \* not set

Seconds(d) == d \div 2   \* int(d.Seconds())

ASSUME StartupAssumption ==
  /\ \A i \in Inputs : i.maxTTL \in Nat /\ i.metricsInterval \in Nat \cup {Unset}
  /\ DefaultTTL \in Nat /\ Seconds(DefaultTTL) >= 2
  /\ MaxTime \in Nat

VARIABLES
  input,        \* what the process was started with
  server,       \* the database server it finds
  pc,           \* where main is
  maxTTL,       \* cfg.MaxTTL once processed
  reserved,     \* models.ReservedSystemComponentPorts
  failConflict, \* models.FailOnRouterPortConflicts
  validator,    \* the token validator: "noop", "key", or Unset
  now,          \* the clock
  ttl,          \* the TTL of the process's own route
  nextTick,     \* when the register's ticker fires next
  tick,         \* the ticker's channel holds a tick
  register,     \* where RouteRegister.Run is
  row,          \* the own route is in the database
  expiresAt,    \* its expires_at
  failed        \* failed registrations since the last successful one

mainVars == <<input, server, pc, maxTTL, reserved, failConflict, validator>>
rowVars  == <<row, expiresAt, failed>>
processVars == <<mainVars, rowVars, now, ttl, nextTick, tick, register>>

(* Definitions named ...Faulty are variants with a plausible mistake; no      *)
(* specification uses them.                                                  *)

-----------------------------------------------------------------------------
(* The configuration                                                        *)

\* What validate asks for, in its order, before it looks at the router groups.
Required == <<"system_domain", "log_guid", "token_endpoint", "oauth_port",
              "uuid", "admin_port", "listen_port", "mtls_listen_port">>

\* The token endpoint and its port are needed unless authentication is disabled.
Needed == {Required[k] : k \in 1..Len(Required)}
            \ (IF input.devMode THEN {"token_endpoint", "oauth_port"} ELSE {})

\* RouterGroups.Validate against the package's current reserved ports.
GroupsValidate(reservedPorts, fail) ==
  /\ input.groupsOK
  /\ fail => input.groupPorts \cap reservedPorts = {}

\* yaml.Unmarshal, ReservablePorts included: an int, a string or a list of ints.
Unmarshal == input.file = "yaml" /\ input.portsAs \in {"int", "string", "ints"}

GroupsFirstFaulty ==
  /\ input.missing \cap Needed = {}
  /\ "locket_address" \notin input.missing
  /\ GroupsValidate(reserved, failConflict)

\* validate accepts the configuration; the package variables are set by then.
Accepts ==
  /\ input.missing \cap Needed = {}
  /\ "locket_address" \notin input.missing
  /\ GroupsValidate(input.reserved, input.failConflict)

\* The interval strings parse as durations.
Parses == input.metricsInterval # Unset /\ input.flushInterval # Unset

\* process: the default of max_ttl.
TTLOrDefault == IF input.maxTTL = 0 THEN DefaultTTL ELSE input.maxTTL

\* NewConfigFromFile returns a configuration.
ConfigLoads == Unmarshal /\ Accepts /\ Parses

\* cmd/config-validator, run with the same file and devMode: its exit status.
ConfigValidator == IF input.configPath /\ ConfigLoads THEN 0 ELSE 1

-----------------------------------------------------------------------------
(* The database connection                                                  *)

\* MySQLConnectionStringBuilder.Build: which TLS configuration it registers.
MySQLMode ==
  IF input.skipSSL THEN "encrypted"
  ELSE IF input.caCert # Unset
       THEN IF input.skipHostname THEN "verify-ca" ELSE "verify-full"
  ELSE "plain"

\* ConnectionString for postgres: its sslmode.
PostgresMode ==
  IF input.caCert = Unset THEN "plain"
  ELSE IF input.skipSSL THEN "encrypted"
  ELSE "verify-full"

\* VerifyCertificatesIgnoreHostname: the chain leads to the configured CA.
Chain == server.ca = input.caCert

\* gorm.Open reaches the server (external: the drivers' TLS modes).
Connects(mode) ==
  CASE mode = "plain"       -> server.plain
    [] mode = "encrypted"   -> server.ca # Unset
    [] mode = "verify-ca"   -> server.ca # Unset /\ Chain
    [] mode = "verify-full" -> server.ca # Unset /\ Chain /\ server.hostOK

\* NewSqlDB returns a database.
NewSqlDB ==
  \/ input.dbType = "mysql" /\ Connects(MySQLMode)
  \/ input.dbType = "postgres" /\ Connects(PostgresMode)

-----------------------------------------------------------------------------
(* The HTTP routers                                                         *)

Routes ==
  {"UpsertRoute", "Delete", "List", "EventStream", "ListRouterGroups",
   "UpdateRouterGroup", "CreateRouterGroup", "DeleteRouterGroup",
   "UpsertTcpRouteMapping", "DeleteTcpRouteMapping", "ListTcpRouteMapping",
   "TcpRouteEventStream"}

\* The handler apiHandler gives each route.
actions == [r \in Routes |->
  CASE r \in {"UpsertRoute", "Delete", "List"} -> "routesHandler"
    [] r \in {"EventStream", "TcpRouteEventStream"} -> "eventStreamHandler"
    [] r \in {"ListRouterGroups", "UpdateRouterGroup", "CreateRouterGroup",
              "DeleteRouterGroup"} -> "routerGroupsHandler"
    [] OTHER -> "tcpMappingsHandler"]

AdminRoutes == {"LockRouterGroupReads", "UnlockRouterGroupReads",
                "LockRouterGroupWrites", "UnlockRouterGroupWrites"}

adminActions == [r \in AdminRoutes |-> "rglHandler"]

\* rata.NewRouter fails when a route has no handler (external).
NewRouter(routes, handlers) == routes \subseteq DOMAIN handlers

-----------------------------------------------------------------------------
(* main                                                                     *)

MainInit ==
  /\ input \in Inputs
  /\ server \in DBServers
  /\ pc = "flags"
  /\ maxTTL = 0
  /\ reserved = {} /\ failConflict = FALSE
  /\ validator = Unset
  /\ now = 0
  /\ ttl = 0 /\ nextTick = 0 /\ tick = FALSE
  /\ register = "off"
  /\ row = FALSE /\ expiresAt = 0 /\ failed = 0

registerVars == <<now, ttl, nextTick, tick, register, rowVars>>

\* main moves on from one step to the next, or exits with status 1.
Step(from, to, ok) ==
  /\ pc = from
  /\ pc' = IF ok THEN to ELSE "exited"
  /\ UNCHANGED <<input, server, registerVars>>

checkFlags ==
  /\ Step("flags", "config", input.configPath /\ input.ip)
  /\ UNCHANGED <<maxTTL, reserved, failConflict, validator>>

\* NewConfigFromFile: validate stores the reserved ports before the groups are
\* looked at, and they stay stored when a later check fails.
NewConfigFromBytes ==
  /\ Step("config", "dropsonde", ConfigLoads)
  /\ IF Unmarshal /\ input.missing \cap Needed = {}
     THEN reserved' = input.reserved /\ failConflict' = input.failConflict
     ELSE UNCHANGED <<reserved, failConflict>>
  /\ maxTTL' = IF ConfigLoads THEN TTLOrDefault ELSE maxTTL
  /\ UNCHANGED validator

\* dropsonde.Initialize may fail; a debug server that fails is only logged.
InitializeDropsonde(ok) ==
  /\ Step("dropsonde", "database", ok)
  /\ UNCHANGED <<maxTTL, reserved, failConflict, validator>>

buildDatabase ==
  /\ Step("database", "statsd", NewSqlDB)
  /\ UNCHANGED <<maxTTL, reserved, failConflict, validator>>

NewStatsdClient(ok) ==
  /\ Step("statsd", "admin", ok)
  /\ UNCHANGED <<maxTTL, reserved, failConflict, validator>>

NewAdminServer ==
  /\ Step("admin", "ticker", NewRouter(AdminRoutes, adminActions))
  /\ UNCHANGED <<maxTTL, reserved, failConflict, validator>>

\* time.NewTicker panics unless the interval is positive.
NewMetricsTicker ==
  /\ pc = "ticker"
  /\ pc' = IF input.metricsInterval > 0 THEN "locket" ELSE "panicked"
  /\ UNCHANGED <<input, server, maxTTL, reserved, failConflict, validator,
                 registerVars>>

\* logger.Fatal panics when the locket client cannot be made.
NewLockRunner(ok) ==
  /\ pc = "locket"
  /\ pc' = IF ok THEN "uaa" ELSE "panicked"
  /\ UNCHANGED <<input, server, maxTTL, reserved, failConflict, validator,
                 registerVars>>

\* NewAPI: UAA must be reached over TLS and the CA file, if any, must load.
NewAPI == "oauth_port" \notin input.missing /\ input.uaaCerts \in {Unset, "pem"}

\* NewTokenValidator: devMode asks nothing; otherwise UAA must name its issuer
\* and serve a PEM key.
NewTokenValidator(issuer, key) ==
  LET ok == input.devMode \/ (NewAPI /\ issuer /\ key = "pem")
  IN /\ Step("uaa", "http", ok)
     /\ validator' = IF input.devMode THEN "noop" ELSE IF ok THEN "key" ELSE Unset
     /\ UNCHANGED <<maxTTL, reserved, failConflict>>

apiHandler == NewRouter(Routes, actions)

registerIntervalWholeFaulty == Seconds(maxTTL)

registerInterval == Seconds(maxTTL) \div 2

\* constructRouteRegister: the ticker starts here, long before Run.
constructRouteRegister ==
  /\ ttl' = Seconds(maxTTL)
  /\ nextTick' = now + registerInterval
  /\ register' = "made"

\* The API over HTTP, when enabled, and the register of its route.
AddHTTPMembers ==
  /\ pc = "http"
  /\ IF ~input.httpEnabled
     THEN pc' = "mtls" /\ UNCHANGED <<ttl, nextTick, register>>
     ELSE IF ~apiHandler
     THEN pc' = "exited" /\ UNCHANGED <<ttl, nextTick, register>>
     ELSE IF registerInterval = 0
     THEN pc' = "panicked" /\ UNCHANGED <<ttl, nextTick, register>>
     ELSE /\ pc' = "mtls"
          /\ constructRouteRegister
  /\ UNCHANGED <<input, server, maxTTL, reserved, failConflict, validator,
                 now, tick, rowVars>>

\* The mTLS server, whose certificates must load (logger.Fatal panics otherwise),
\* completes the members; the group is invoked.
AddMembers(ok) ==
  /\ pc = "mtls"
  /\ pc' = IF ~ok THEN "panicked" ELSE IF apiHandler THEN "running" ELSE "exited"
  /\ UNCHANGED <<input, server, maxTTL, reserved, failConflict, validator,
                 registerVars>>

-----------------------------------------------------------------------------
(* The process's own route                                                  *)

\* SaveRoute of the own route: an upsert that renews expires_at, or an error.
SaveRoute(ok) ==
  IF ok
  THEN row' = TRUE /\ expiresAt' = now + ttl /\ failed' = 0
  ELSE failed' = failed + 1 /\ UNCHANGED <<row, expiresAt>>

\* Run starts once the members before it are ready, which may be much later;
\* a failing first save makes the process stop.
RegisterStarts(ok) ==
  /\ pc = "running" /\ register = "made"
  /\ SaveRoute(ok)
  /\ register' = IF ok THEN "loop" ELSE "returned"
  /\ pc' = IF ok THEN pc ELSE "exited"
  /\ UNCHANGED <<input, server, maxTTL, reserved, failConflict, validator,
                 now, ttl, nextTick, tick>>

\* A tick renews the route; an error is logged.
RegisterTick(ok) ==
  /\ register = "loop" /\ tick
  /\ SaveRoute(ok)
  /\ tick' = FALSE
  /\ UNCHANGED <<mainVars, now, ttl, nextTick, register>>

\* A signal deletes the route; Run returns whether that worked or not.
RegisterStops(ok) ==
  /\ register = "loop"
  /\ register' = "returned"
  /\ row' = IF ok THEN FALSE ELSE row
  /\ pc' = "exited"
  /\ UNCHANGED <<input, server, maxTTL, reserved, failConflict, validator,
                 now, ttl, nextTick, tick, expiresAt, failed>>

\* A pruner, of this or of another process, removes expired rows.
CleanupRoute ==
  /\ row /\ expiresAt < now - 1
  /\ row' = FALSE
  /\ UNCHANGED <<mainVars, now, ttl, nextTick, tick, register, expiresAt, failed>>

\* A second passes.  The ticker drops a tick nobody has received; the loop
\* receives a tick within the second it fires in.
ClockTick ==
  /\ pc = "running" /\ now < MaxTime
  /\ register = "loop" => ~tick
  /\ now' = now + 1
  /\ IF register \in {"made", "loop"} /\ now + 1 = nextTick
     THEN tick' = TRUE /\ nextTick' = nextTick + registerInterval
     ELSE UNCHANGED <<tick, nextTick>>
  /\ UNCHANGED <<mainVars, ttl, register, rowVars>>

MainNext ==
  \/ checkFlags
  \/ NewConfigFromBytes
  \/ \E ok \in BOOLEAN : InitializeDropsonde(ok)
  \/ buildDatabase
  \/ \E ok \in BOOLEAN : NewStatsdClient(ok)
  \/ NewAdminServer
  \/ NewMetricsTicker
  \/ \E ok \in BOOLEAN : NewLockRunner(ok)
  \/ \E issuer \in BOOLEAN, key \in {"pem", "garbled", Unset} :
       NewTokenValidator(issuer, key)
  \/ AddHTTPMembers
  \/ \E ok \in BOOLEAN : AddMembers(ok)
  \/ \E ok \in BOOLEAN : RegisterStarts(ok)
  \/ \E ok \in BOOLEAN : RegisterTick(ok)
  \/ \E ok \in BOOLEAN : RegisterStops(ok)
  \/ CleanupRoute
  \/ ClockTick

MainSpec == MainInit /\ [][MainNext]_processVars

-----------------------------------------------------------------------------

\* A process that runs its group has a file config-validator accepts and what
\* that file asks for: a database server the configured CA vouches for unless
\* validation is switched off, a UAA key unless devMode is on, and router groups
\* that, when conflicts are to fail, leave the reserved ports alone.
RunsAsConfigured ==
  pc = "running" =>
    /\ ConfigValidator = 0
    /\ (input.caCert # Unset /\ ~input.skipSSL) =>
         /\ server.ca = input.caCert
         /\ server.hostOK \/ (input.dbType = "mysql" /\ input.skipHostname)
    /\ ~input.devMode => validator = "key"
    /\ input.failConflict => input.groupPorts \cap input.reserved = {}

\* While the process registers its own route, one failed renewal never costs
\* it: the row is not pruned before the next attempt, and it is listed as long
\* as renewals succeed.  main's half-TTL interval, RouteRegister.Run's loop and
\* the pruner's one second of slack together guarantee this.
OwnRouteStays ==
  register = "loop" =>
    /\ failed <= 1 => row
    /\ failed = 0 => expiresAt > now

=============================================================================
