------------------------------- MODULE Lifecycle ------------------------------
(***************************************************************************)
(* The life of routing-api processes (cmd/routing-api/main.go): the ordered *)
(* group that starts the members one after the other and stops them in     *)
(* reverse order, the locket lock that lets one process at a time become   *)
(* active, and the releaser that hands the lock over before the servers    *)
(* stop.  Process.Signal never blocks, so a signal sent to a member waits  *)
(* in mail until the member receives it or exits.                          *)
(***************************************************************************)
EXTENDS Naturals, Sequences, FiniteSets

CONSTANTS
  Procs,         \* routing-api processes
  Signals,       \* the signals a process is sent: os.Interrupt and SIGTERM
  Interrupt,     \* os.Interrupt, the group's termination signal
  Disturbable,   \* bound: the processes mishaps happen to
  MaxDisturbed,  \* bound: signals, crashes, failing members and lost locks
  None           \* the lock has no owner

ASSUME LifecycleAssumption ==
  /\ Interrupt \in Signals
  /\ None \notin Procs
  /\ MaxDisturbed \in Nat

(* Definitions named ...Faulty are variants with a plausible mistake; no      *)
(* specification uses them.                                                  *)

ServersLastFaulty ==
  <<"lock-acquirer", "migration", "seed-router-groups", "conn-stopper",
    "api-server", "route-register", "api-mtls-server", "admin-server",
    "metrics", "sql-route-pruner", "lock-releaser">>

ReleaserSecondFaulty ==
  <<"lock-acquirer", "lock-releaser", "migration", "seed-router-groups",
    "api-server", "route-register", "api-mtls-server", "admin-server",
    "conn-stopper", "metrics", "sql-route-pruner">>

\* The members, in the order main appends them (HTTP and SQL enabled).
Members ==
  <<"lock-acquirer", "migration", "seed-router-groups", "api-server",
    "route-register", "api-mtls-server", "admin-server", "conn-stopper",
    "metrics", "sql-route-pruner", "lock-releaser">>

Names == {Members[i] : i \in 1..Len(Members)}
Servers == {"api-server", "api-mtls-server", "admin-server"}
\* Members whose Run may return an error before it is ready.
Abortable == Servers \cup {"migration", "seed-router-groups", "route-register"}

VARIABLES
  group,       \* group[p]: where orderedGroup.Run is: "off", "start", "wait",
               \* "stop", "exited" or "crashed"
  at,          \* at[p]: the member it is starting or stopping
  run,         \* run[p][m]: where member m's Run is: "off", "starting", "aborted",
               \* "ready", "returned" or "failed"
  mail,        \* mail[p][m]: signals sent to m and not received
  exited,      \* exited[p]: members with an ExitEvent in errTrace
  sigs,        \* sigs[p]: OS signals the group has not received
  cur,         \* cur[p]: the signal stop passes on
  lock,        \* lock[p]: where the goroutine of the lock-acquirer is: "off",
               \* "trying", "held", "stopping", or returned: "lost", "released" and,
               \* once the releaser has received it, "lostSeen", "releasedSeen"
  rel,         \* rel[p]: where the loop of the lock-releaser is: "off", "select",
               \* "sending" or "sleep"
  owner,       \* the owner of the lock, as locket knows it
  cancelled,   \* cancelled[p]: CancelWatches has been called
  registered,  \* registered[p]: the process's own route is in the database
  disturbed    \* disturbances so far

vars == <<group, at, run, mail, exited, sigs, cur, lock, rel, owner,
          cancelled, registered, disturbed>>
groupVars == <<group, at, exited, cur>>
lockVars  == <<lock, rel, owner>>
dataVars  == <<cancelled, registered>>

Init ==
  /\ group = [p \in Procs |-> "off"]
  /\ at = [p \in Procs |-> 0]
  /\ run = [p \in Procs |-> [m \in Names |-> "off"]]
  /\ mail = [p \in Procs |-> [m \in Names |-> {}]]
  /\ exited = [p \in Procs |-> {}]
  /\ sigs = [p \in Procs |-> {}]
  /\ cur = [p \in Procs |-> Interrupt]
  /\ lock = [p \in Procs |-> "off"]
  /\ rel = [p \in Procs |-> "off"]
  /\ owner = None
  /\ cancelled = [p \in Procs |-> FALSE]
  /\ registered = [p \in Procs |-> FALSE]
  /\ disturbed = 0

Alive(p) == group[p] \in {"start", "wait", "stop"}
Exited(p, m) == run[p][m] \in {"aborted", "returned", "failed"}
Ready(p, m) == run[p][m] \in {"ready", "returned", "failed"}

Disturb ==
  /\ disturbed < MaxDisturbed
  /\ disturbed' = disturbed + 1

-----------------------------------------------------------------------------
(* orderedGroup                                                             *)

\* main starts the group, and the lock-acquirer its goroutine.
Start(p) ==
  /\ group[p] = "off"
  /\ group' = [group EXCEPT ![p] = "start"]
  /\ at' = [at EXCEPT ![p] = 1]
  /\ run' = [run EXCEPT ![p][Members[1]] = "starting"]
  /\ lock' = [lock EXCEPT ![p] = "trying"]
  /\ UNCHANGED <<mail, exited, sigs, cur, rel, owner, dataVars, disturbed>>

\* orderedStart: the member is ready; the next one is started, if any.
StartNext(p) ==
  /\ group[p] = "start"
  /\ Ready(p, Members[at[p]])
  /\ \/ /\ at[p] < Len(Members)
        /\ at' = [at EXCEPT ![p] = @ + 1]
        /\ run' = [run EXCEPT ![p][Members[at[p] + 1]] = "starting"]
        /\ UNCHANGED group
     \/ /\ at[p] = Len(Members)
        /\ group' = [group EXCEPT ![p] = "wait"]
        /\ UNCHANGED <<at, run>>
  /\ UNCHANGED <<mail, exited, sigs, cur, lockVars, dataVars, disturbed>>

\* stop: signal the last started member from i down that has not exited
\* according to the trace, or return.
StopFrom(p, i, trace, s) ==
  LET j == IF i > 0 /\ Members[i] \in trace THEN i - 1 ELSE i IN
  /\ at' = [at EXCEPT ![p] = j]
  /\ exited' = [exited EXCEPT ![p] = trace]
  /\ cur' = [cur EXCEPT ![p] = s]
  /\ group' = [group EXCEPT ![p] = IF j = 0 THEN "exited" ELSE "stop"]
  /\ mail' = IF j = 0 THEN mail
             ELSE [mail EXCEPT ![p][Members[j]] = @ \cup {s}]

\* orderedStart, waitForSignal: a started member has exited.
MemberExited(p) ==
  /\ group[p] \in {"start", "wait"}
  /\ \E i \in 1..at[p] :
       /\ Exited(p, Members[i])
       /\ StopFrom(p, at[p], {Members[i]}, Interrupt)
  /\ UNCHANGED <<run, sigs, lockVars, dataVars, disturbed>>

\* orderedStart, waitForSignal: a signal arrives.
Signalled(p) ==
  /\ group[p] \in {"start", "wait"}
  /\ \E s \in sigs[p] :
       /\ sigs' = [sigs EXCEPT ![p] = @ \ {s}]
       /\ StopFrom(p, at[p], {}, s)
  /\ UNCHANGED <<run, lockVars, dataVars, disturbed>>

\* stop: the member it waits for has exited.
StopNext(p) ==
  /\ group[p] = "stop"
  /\ Exited(p, Members[at[p]])
  /\ StopFrom(p, at[p] - 1, exited[p] \cup {Members[at[p]]}, cur[p])
  /\ UNCHANGED <<run, sigs, lockVars, dataVars, disturbed>>

\* stop: another signal arrives; a different one is passed on.
StopSignalled(p) ==
  /\ group[p] = "stop"
  /\ \E s \in sigs[p] :
       /\ sigs' = [sigs EXCEPT ![p] = @ \ {s}]
       /\ IF s = cur[p] THEN UNCHANGED <<cur, mail>>
          ELSE /\ cur' = [cur EXCEPT ![p] = s]
               /\ mail' = [mail EXCEPT ![p][Members[at[p]]] = @ \cup {s}]
  /\ UNCHANGED <<group, at, exited, run, lockVars, dataVars, disturbed>>

-----------------------------------------------------------------------------
(* The members.                                                             *)

\* A member has done its work and closes its ready channel.  The route-register
\* has saved the process's own route by then.
BecomeReady(p, m) ==
  /\ Alive(p)
  /\ m # "lock-acquirer"
  /\ run[p][m] = "starting"
  /\ run' = [run EXCEPT ![p][m] = "ready"]
  /\ registered' = [registered EXCEPT ![p] = @ \/ m = "route-register"]
  /\ rel' = [rel EXCEPT ![p] = IF m = "lock-releaser" THEN "select" ELSE @]
  /\ UNCHANGED <<groupVars, mail, sigs, lock, owner, cancelled, disturbed>>

\* Migrations, seeding, registration or a listener fail.
Abort(p, m) ==
  /\ Alive(p)
  /\ m \in Abortable
  /\ run[p][m] = "starting"
  /\ Disturb
  /\ run' = [run EXCEPT ![p][m] = "aborted"]
  /\ UNCHANGED <<groupVars, mail, sigs, lockVars, dataVars>>

ListeningLateFaulty(p, m) == run[p][m] = "ready"

\* Members receive signals once they are ready, the lock-acquirer at once.
Listening(p, m) ==
  run[p][m] \in IF m = "lock-acquirer" THEN {"starting", "ready"} ELSE {"ready"}

StopSilentFaulty(p, m) ==
  /\ Alive(p)
  /\ m # "lock-releaser"
  /\ mail[p][m] # {}
  /\ Listening(p, m)
  /\ mail' = [mail EXCEPT ![p][m] = {}]
  /\ run' = [run EXCEPT ![p][m] = "returned"]
  /\ cancelled' = [cancelled EXCEPT ![p] = @ \/ m = "conn-stopper"]
  /\ UNCHANGED <<groupVars, sigs, lockVars, registered, disturbed>>

\* A member receives a signal and returns.  The conn-stopper cancels the
\* watches first, and the route-register deletes the process's own route; when
\* that fails it returns the error.
Stop(p, m) ==
  /\ Alive(p)
  /\ m # "lock-releaser"
  /\ mail[p][m] # {}
  /\ Listening(p, m)
  /\ mail' = [mail EXCEPT ![p][m] = {}]
  /\ \/ /\ run' = [run EXCEPT ![p][m] = "returned"]
        /\ registered' = [registered EXCEPT ![p] = @ /\ m # "route-register"]
        /\ UNCHANGED disturbed
     \/ /\ m = "route-register"
        /\ p \in Disturbable
        /\ Disturb
        /\ run' = [run EXCEPT ![p][m] = "failed"]
        /\ UNCHANGED registered
  /\ cancelled' = [cancelled EXCEPT ![p] = @ \/ m = "conn-stopper"]
  /\ UNCHANGED <<groupVars, sigs, lockVars>>

\* A server's Serve fails; or the metrics reporter, cut off from the event hub
\* as a slow consumer, reads nil from its closed error channel and returns it.
Quit(p, m) ==
  /\ Alive(p)
  /\ run[p][m] = "ready"
  /\ Disturb
  /\ \/ /\ m \in Servers
        /\ run' = [run EXCEPT ![p][m] = "failed"]
     \/ /\ m = "metrics"
        /\ run' = [run EXCEPT ![p][m] = "returned"]
  /\ UNCHANGED <<groupVars, mail, sigs, lockVars, dataVars>>

-----------------------------------------------------------------------------
(* The lock: the goroutine of initializeLockAcquirer, which runs the        *)
(* lockGroup with releaseLock as its signals, and locket.                   *)

AcquireAnywayFaulty(p) ==
  /\ Alive(p)
  /\ lock[p] = "trying"
  /\ owner' = p
  /\ lock' = [lock EXCEPT ![p] = "held"]
  /\ run' = [run EXCEPT ![p]["lock-acquirer"] =
               IF @ = "starting" THEN "ready" ELSE @]
  /\ UNCHANGED <<groupVars, mail, sigs, rel, dataVars, disturbed>>

\* A Lock request succeeds and the acquirer's ready channel is closed.
Acquire(p) ==
  /\ Alive(p)
  /\ lock[p] = "trying"
  /\ owner = None
  /\ owner' = p
  /\ lock' = [lock EXCEPT ![p] = "held"]
  /\ run' = [run EXCEPT ![p]["lock-acquirer"] =
               IF @ = "starting" THEN "ready" ELSE @]
  /\ UNCHANGED <<groupVars, mail, sigs, rel, dataVars, disturbed>>

\* A Lock request fails although the lock was acquired: lockRunner.Run returns
\* an error, and with it the lockGroup.
LoseLock(p) ==
  /\ Alive(p)
  /\ lock[p] \in {"held", "stopping"}
  /\ Disturb
  /\ lock' = [lock EXCEPT ![p] = "lost"]
  /\ UNCHANGED <<groupVars, run, mail, sigs, rel, owner, dataVars>>

\* lockRunner.Run receives the signal: a Release request, which may fail.
Release(p) ==
  /\ Alive(p)
  /\ lock[p] = "stopping"
  /\ owner' \in {owner, IF owner = p THEN None ELSE owner}
  /\ lock' = [lock EXCEPT ![p] = "released"]
  /\ UNCHANGED <<groupVars, run, mail, sigs, rel, dataVars, disturbed>>

\* External: locket drops a lock whose owner no longer renews it.
Expire(p) ==
  /\ owner = p
  /\ ~Alive(p) \/ lock[p] \notin {"held", "stopping"}
  /\ owner' = None
  /\ UNCHANGED <<groupVars, run, mail, sigs, lock, rel, dataVars, disturbed>>

-----------------------------------------------------------------------------
(* initializeLockReleaser                                                   *)

\* A signal is received ...
ReleaserSignalled(p) ==
  /\ Alive(p)
  /\ rel[p] = "select"
  /\ \E s \in mail[p]["lock-releaser"] :
       mail' = [mail EXCEPT ![p]["lock-releaser"] = @ \ {s}]
  /\ rel' = [rel EXCEPT ![p] = "sending"]
  /\ UNCHANGED <<groupVars, run, sigs, lock, owner, dataVars, disturbed>>

\* ... and passed to the lockGroup, which receives it only until it returns.
ReleaserSends(p) ==
  /\ Alive(p)
  /\ rel[p] = "sending"
  /\ lock[p] \in {"held", "stopping"}
  /\ lock' = [lock EXCEPT ![p] = "stopping"]
  /\ rel' = [rel EXCEPT ![p] = "select"]
  /\ UNCHANGED <<groupVars, run, mail, sigs, owner, dataVars, disturbed>>

ReleaserIgnoresLossFaulty(p) ==
  /\ Alive(p)
  /\ rel[p] = "select"
  /\ lock[p] = "released"
  /\ lock' = [lock EXCEPT ![p] = "releasedSeen"]
  /\ rel' = [rel EXCEPT ![p] = "sleep"]
  /\ UNCHANGED <<groupVars, run, mail, sigs, owner, dataVars, disturbed>>

\* The lockGroup's error is received from lockErrChan.
ReleaserReceives(p) ==
  /\ Alive(p)
  /\ rel[p] = "select"
  /\ lock[p] \in {"lost", "released"}
  /\ lock' = [lock EXCEPT ![p] =
                IF @ = "lost" THEN "lostSeen" ELSE "releasedSeen"]
  /\ rel' = [rel EXCEPT ![p] = "sleep"]
  /\ UNCHANGED <<groupVars, run, mail, sigs, owner, dataVars, disturbed>>

\* The time given to another process to grab the lock is over.
ReleaserReturns(p) ==
  /\ Alive(p)
  /\ rel[p] = "sleep"
  /\ rel' = [rel EXCEPT ![p] = "off"]
  /\ run' = [run EXCEPT ![p]["lock-releaser"] =
               IF lock[p] = "lostSeen" THEN "failed" ELSE "returned"]
  /\ UNCHANGED <<groupVars, mail, sigs, lock, owner, dataVars, disturbed>>

-----------------------------------------------------------------------------
(* The environment.                                                         *)

SendSignal(p, s) ==
  /\ Alive(p)
  /\ s \notin sigs[p]
  /\ Disturb
  /\ sigs' = [sigs EXCEPT ![p] = @ \cup {s}]
  /\ UNCHANGED <<groupVars, run, mail, lockVars, dataVars>>

Crash(p) ==
  /\ Alive(p)
  /\ Disturb
  /\ group' = [group EXCEPT ![p] = "crashed"]
  /\ UNCHANGED <<at, exited, cur, run, mail, sigs, lockVars, dataVars>>

GroupStep(p) ==
  \/ StartNext(p) \/ MemberExited(p) \/ Signalled(p)
  \/ StopNext(p) \/ StopSignalled(p)

MemberStep(p) == \E m \in Names : BecomeReady(p, m) \/ Stop(p, m)

LockStep(p) ==
  \/ Acquire(p) \/ Release(p) \/ ReleaserSignalled(p) \/ ReleaserSends(p)
  \/ ReleaserReceives(p) \/ ReleaserReturns(p)

Mishap(p) ==
  \/ LoseLock(p) \/ Crash(p)
  \/ \E m \in Names : Abort(p, m) \/ Quit(p, m)
  \/ \E s \in Signals : SendSignal(p, s)

Next ==
  \E p \in Procs :
    \/ Start(p) \/ GroupStep(p) \/ MemberStep(p) \/ LockStep(p) \/ Expire(p)
    \/ p \in Disturbable /\ Mishap(p)

Spec == Init /\ [][Next]_vars

\* Goroutines that can run do, and locket expires locks.
Fairness ==
  \A p \in Procs :
    /\ WF_vars(GroupStep(p) \/ MemberStep(p) \/ LockStep(p))
    /\ WF_vars(Expire(p))

FairSpec == Spec /\ Fairness

-----------------------------------------------------------------------------
(* Properties.                                                              *)

\* The exit code is 1: stop has recorded an error.
Failed(p) == \E m \in exited[p] : run[p][m] \in {"aborted", "failed"}

Migrating(p) == Alive(p) /\ run[p]["migration"] = "starting"

\* main's order of members: when a server is told to stop, CancelWatches has
\* ended the event streams its Shutdown would otherwise wait for, if the process
\* came as far as to start the conn-stopper.
StreamsCancelledFirst ==
  \A p \in Procs : \A m \in Servers :
    mail[p][m] # {} /\ run[p]["conn-stopper"] # "off" => cancelled[p]

\* initializeLockReleaser comes last: a process that has become active gives up
\* the lock, and waits for another process to take it, before its servers stop.
ReleasedBeforeServersStop ==
  \A p \in Procs : \A m \in Servers :
    mail[p][m] # {} /\ run[p]["lock-releaser"] # "off" =>
      lock[p] \in {"lostSeen", "releasedSeen"}

\* RouteRegister.Run: a process that exits without an error has deleted its own
\* route, whichever member or signal ended it.
CleanExitUnregisters ==
  \A p \in Procs : group[p] = "exited" /\ ~Failed(p) => ~registered[p]

\* The lock-acquirer comes before the migration: as long as no process loses
\* the lock it was granted, no two processes migrate the database at once.
MigrationExclusive ==
  \A p, q \in Procs :
    p # q /\ Migrating(p) /\ Migrating(q) => "lost" \in {lock[p], lock[q]}

\* initializeLockReleaser sends a signal on releaseLock after the lockGroup, its
\* only receiver, has returned: the send blocks for ever.
Stuck(p) == rel[p] = "sending" /\ lock[p] \in {"lost", "released"}

\* orderedGroup.stop, for whatever the members are doing: a process that is sent
\* signals exits, unless the lock-releaser took one up as the lockGroup returned.
SignalEndsProcess ==
  \A p \in Procs : sigs[p] # {} ~> ~Alive(p) \/ Stuck(p)

\* "the locking server becomes unreachable after grabbing the lock ... exits"
\* (cmd/routing-api/locket_test.go), again unless a signal came at that moment.
LostLockExits ==
  \A p \in Procs : lock[p] = "lost" ~> ~Alive(p) \/ Stuck(p)

=============================================================================
