------------------------------- MODULE MCStartup ------------------------------
(* An instance of Startup: a working input and the inputs that differ from   *)
(* it in the flags, a part of the file, the database options or the TTL.     *)
EXTENDS Startup, FiniteSets

Working ==
  [configPath |-> TRUE, ip |-> TRUE, devMode |-> FALSE, file |-> "yaml",
   missing |-> {}, portsAs |-> "string", groupsOK |-> TRUE,
   groupPorts |-> {1}, reserved |-> {2}, failConflict |-> TRUE,
   metricsInterval |-> 1, flushInterval |-> 1, maxTTL |-> 0,
   dbType |-> "mysql", caCert |-> Unset, skipSSL |-> FALSE,
   skipHostname |-> FALSE, uaaCerts |-> Unset,
   httpEnabled |-> TRUE]

FlagInputs ==
  {[Working EXCEPT !.configPath = c, !.ip = i, !.file = f] :
     c \in BOOLEAN, i \in BOOLEAN, f \in {"yaml", "garbled"}}

ConfigInputs ==
  {[Working EXCEPT !.missing = m, !.devMode = d, !.uaaCerts = u] :
     m \in {{}, {"locket_address"}} \cup {{Required[k]} : k \in 1..Len(Required)},
     d \in BOOLEAN, u \in {Unset, "pem", "garbled"}}

GroupInputs ==
  {[Working EXCEPT !.portsAs = p, !.groupsOK = g, !.reserved = r,
                   !.failConflict = f] :
     p \in {"int", "ints", "strings"}, g \in BOOLEAN, r \in {{1}, {2}},
     f \in BOOLEAN}

DatabaseInputs ==
  {[Working EXCEPT !.dbType = t, !.caCert = c, !.skipSSL = s,
                   !.skipHostname = h] :
     t \in {"mysql", "postgres", "other"}, c \in {Unset, "ca1"},
     s \in BOOLEAN, h \in BOOLEAN}

IntervalInputs ==
  {[Working EXCEPT !.maxTTL = t, !.metricsInterval = m, !.flushInterval = f,
                   !.httpEnabled = e] :
     t \in 0..10, m \in {Unset, 0, 1}, f \in {Unset, 1}, e \in BOOLEAN}

MCInputs == FlagInputs \cup ConfigInputs \cup GroupInputs \cup DatabaseInputs
              \cup IntervalInputs

\* A plain server, and TLS servers with the right or another CA or host name.
MCDBServers ==
  {[plain |-> TRUE, ca |-> Unset, hostOK |-> FALSE]}
    \cup [plain : {FALSE}, ca : {"ca1", "ca2"}, hostOK : BOOLEAN]
    \cup {[plain |-> TRUE, ca |-> "ca1", hostOK |-> TRUE]}

=============================================================================
