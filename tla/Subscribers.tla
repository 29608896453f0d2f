------------------------------ MODULE Subscribers -----------------------------
(***************************************************************************)
(* Who consumes the events: the metrics reporter of the process            *)
(* (metrics/metrics.go) and a client's event source (client.go,            *)
(* event_source.go, on top of the vendored go-sse).  The reporter's watch   *)
(* is what Watch promises, a queue that may be cut off; of the client's     *)
(* streams only the connections count, since EventStream shows what goes    *)
(* over one.  HTTP and TCP routes are two such instances.                   *)
(*                                                                         *)
(* The table is its number of listed rows and of rows that have expired     *)
(* and are not pruned yet.  A row is changed first and its event published  *)
(* later, so events of different changes may be published in any order.    *)
(***************************************************************************)
EXTENDS Integers, Sequences, FiniteSets

CONSTANTS
  Conns,       \* connections of the client the server may know at a time
  MaxRetries,  \* RetryParams.MaxRetries; 0 means retry for ever
  MaxRows,     \* bound: rows in the table
  MaxChanges,  \* bound: changes of the table
  MaxFaults,   \* bound: lost statsd packets, failed reads, broken connections
  None         \* no connection

ASSUME SubscribersAssumption ==
  /\ IsFiniteSet(Conns)
  /\ {MaxRetries, MaxRows, MaxChanges, MaxFaults} \subseteq Nat
  /\ None \notin Conns

VARIABLES
  inbox,       \* events accepted for the reporter and not received
  watch,       \* the reporter's watch: "none", "open" or "ended"
  listed,      \* rows ReadRoutes returns
  expired,     \* rows past expires_at that are not pruned
  pending,     \* pending[t]: events of type t not yet published
  reporter,    \* where MetricsReporter.Run is
  routes,      \* statsd's total_http_routes
  subs,        \* statsd's total_http_subscriptions
  streams,     \* streams[c]: where the handler of connection c is
  early,       \* streams that were open at the reporter's reset
  source,      \* where the client's event source is
  conn,        \* source.currentReadCloser
  retries,     \* connectionRetries
  closed,      \* source.closed: Close has been called
  hungUp,      \* open streams whose connection the client's side has closed
  changes,     \* changes so far
  faults       \* faults so far

watchVars  == <<inbox, watch>>
tableVars  == <<listed, expired, pending, changes>>
statVars   == <<routes, subs>>
clientVars == <<source, conn, retries, closed, hungUp>>
consumerVars == <<watchVars, tableVars, statVars, clientVars, reporter, streams, early,
          faults>>

EventType == {"Create", "Update", "Delete", "Expire"}

ConsumersInit ==
  /\ inbox = <<>> /\ watch = "none"
  /\ listed = 0 /\ expired = 0
  /\ pending = [t \in EventType |-> 0]
  /\ reporter = "off"
  /\ routes = 0 /\ subs = 0
  /\ streams = [c \in Conns |-> "none"]
  /\ early = 0
  /\ source = "none" /\ conn = None /\ retries = 0 /\ closed = FALSE
  /\ hungUp = {}
  /\ changes = 0 /\ faults = 0

\* The streams a handler is serving or deciding about.
Open == {c \in Conns : streams[c] \in {"arrived", "open"}}

Fault == faults < MaxFaults /\ faults' = faults + 1

(* Definitions named ...Faulty are variants with a plausible mistake; no      *)
(* specification uses them.                                                  *)

-----------------------------------------------------------------------------
(* The table and its events                                                 *)

\* A row of the table changes and its event is due.
Change(t, dListed, dExpired) ==
  /\ changes < MaxChanges
  /\ changes' = changes + 1
  /\ listed + dListed \in 0..MaxRows
  /\ expired + dExpired \in 0..MaxRows
  /\ listed' = listed + dListed
  /\ expired' = expired + dExpired
  /\ pending' = [pending EXCEPT ![t] = @ + 1]
  /\ UNCHANGED <<watchVars, statVars, clientVars, reporter, streams, early,
                 faults>>

CreateRow == Change("Create", 1, 0)
DeleteRow == Change("Delete", -1, 0) \/ Change("Delete", 0, -1)
UpdateRow == (listed > 0 /\ Change("Update", 0, 0)) \/ Change("Update", 1, -1)
PruneRow  == Change("Expire", 0, -1)

\* expires_at passes; nothing is announced until the row is pruned.
RowExpires ==
  /\ changes < MaxChanges
  /\ listed > 0
  /\ changes' = changes + 1
  /\ listed' = listed - 1 /\ expired' = expired + 1
  /\ UNCHANGED <<watchVars, statVars, clientVars, reporter, streams, early,
                 pending, faults>>

\* emitEvent: the hub offers the event to the reporter, or cuts it off when its
\* buffer is full.
Emit(t) ==
  /\ pending[t] > 0
  /\ pending' = [pending EXCEPT ![t] = @ - 1]
  /\ IF watch = "open"
     THEN \/ inbox' = Append(inbox, t) /\ UNCHANGED watch
          \/ watch' = "ended" /\ UNCHANGED inbox
     ELSE UNCHANGED watchVars
  /\ UNCHANGED <<statVars, clientVars, listed, expired, changes, reporter,
                 streams, early, faults>>

\* CancelWatches.
CancelWatches ==
  /\ watch = "open"
  /\ watch' = "ended"
  /\ UNCHANGED <<inbox, tableVars, statVars, clientVars, reporter, streams, early,
                 faults>>

-----------------------------------------------------------------------------
(* MetricsReporter.Run                                                      *)

\* The reporter starts watching; the API servers already run.
WatchAll ==
  /\ reporter = "off"
  /\ reporter' = "reset"
  /\ watch' = "open"
  /\ UNCHANGED <<inbox, tableVars, statVars, clientVars, streams, early, faults>>

\* It sets the subscription gauge to 0, whatever was counted before.
ResetSubscriptions ==
  /\ reporter = "reset"
  /\ reporter' = "select"
  /\ subs' = 0
  /\ early' = Cardinality(Open)
  /\ UNCHANGED <<watchVars, tableVars, clientVars, routes, streams, faults>>

\* getStatsEventType.
statsDelta(t) ==
  CASE t = "Create" -> 1
    [] t \in {"Expire", "Delete"} -> -1
    [] OTHER -> 0

\* An event moves the gauge; the delta may get lost on its way to statsd.
ReportEvent ==
  /\ reporter = "select"
  /\ inbox # <<>>
  /\ inbox' = Tail(inbox)
  /\ \/ routes' = routes + statsDelta(Head(inbox)) /\ UNCHANGED faults
     \/ Fault /\ UNCHANGED routes
  /\ UNCHANGED <<watch, tableVars, clientVars, reporter, subs, streams, early>>

\* How many routes ReadRoutes returns; with an error it returns none.
ReadRoutes(failed) == IF failed THEN 0 ELSE listed

ReportTotalsDeltaFaulty ==
  /\ reporter = "select"
  /\ UNCHANGED consumerVars

\* The ticker: gauges are set to what the table holds.  An error of ReadRoutes
\* is dropped and counts as no routes.
ReportTotals ==
  /\ reporter = "select"
  /\ \/ routes' = ReadRoutes(FALSE) /\ UNCHANGED faults
     \/ routes' = ReadRoutes(TRUE) /\ Fault
     \/ Fault /\ UNCHANGED routes
  /\ UNCHANGED <<watchVars, tableVars, clientVars, reporter, subs, streams,
                 early>>

\* The hub closed the reporter's source: its error channel is closed, and Run
\* returns nil.  Until then the closed event channel yields deltas of 0.
ReporterCut ==
  /\ reporter = "select"
  /\ watch = "ended" /\ inbox = <<>>
  /\ reporter' = "returned"
  /\ UNCHANGED <<watchVars, tableVars, statVars, clientVars, streams, early, faults>>

-----------------------------------------------------------------------------
(* EventStream: the handler counts its stream                               *)

\* A request arrives over connection c and is counted.
Arrive(c) ==
  /\ streams' = [streams EXCEPT ![c] = "arrived"]
  /\ subs' = subs + 1

\* The token is valid and the watch starts; the response begins.
StartStream(c) ==
  /\ streams[c] = "arrived"
  /\ streams' = [streams EXCEPT ![c] = "open"]
  /\ UNCHANGED <<watchVars, tableVars, statVars, clientVars, reporter, early,
                 faults>>

\* The token is not valid: 401, and the deferred decrement.
RefuseStream(c) ==
  /\ streams[c] = "arrived"
  /\ streams' = [streams EXCEPT ![c] = "refused"]
  /\ subs' = subs - 1
  /\ UNCHANGED <<watchVars, tableVars, clientVars, reporter, routes, early,
                 faults>>

LeaveUncountedFaulty(c) ==
  /\ streams[c] = "open"
  /\ c \in hungUp
  /\ streams' = [streams EXCEPT ![c] = "none"]
  /\ hungUp' = hungUp \ {c}
  /\ UNCHANGED <<watchVars, tableVars, statVars, reporter, early, faults, source,
                 conn, retries, closed>>

\* The client is gone: the handler leaves its loop.
LeaveStream(c) ==
  /\ streams[c] = "open"
  /\ c \in hungUp
  /\ streams' = [streams EXCEPT ![c] = "none"]
  /\ hungUp' = hungUp \ {c}
  /\ subs' = subs - 1
  /\ UNCHANGED <<watchVars, tableVars, reporter, routes, early, faults, source,
                 conn, retries, closed>>

\* The watch ends, because the client was too slow or the process stops.
EndStream(c) ==
  /\ streams[c] = "open" /\ c \notin hungUp
  /\ streams' = [streams EXCEPT ![c] = "over"]
  /\ subs' = subs - 1
  /\ UNCHANGED <<watchVars, tableVars, clientVars, reporter, routes, early,
                 faults>>

-----------------------------------------------------------------------------
(* The client's event source                                                *)

\* doSubscribe: Connect begins; the caller has no source to close yet.
doSubscribe ==
  /\ source = "none"
  /\ source' = "subscribing"
  /\ UNCHANGED <<watchVars, tableVars, statVars, reporter, streams, early,
                 faults, conn, retries, closed, hungUp>>

\* The client's side of connection c is closed, which an open stream notices.
LetGo(c) ==
  IF streams[c] = "open"
  THEN hungUp' = hungUp \cup {c} /\ UNCHANGED streams
  ELSE streams' = [streams EXCEPT ![c] = "none"] /\ UNCHANGED hungUp

\* Connecting, inside Connect or inside Next.
Connecting == source \in {"subscribing", "connecting"}

\* The caller of Connect gets no source; the caller of Next gets an error.
Failing == IF source = "subscribing" THEN "failed" ELSE "over"

\* The wait before another attempt.
Waiting == IF source = "subscribing" THEN "subscribeWait" ELSE "wait"

\* establishConnection sends a request (external: go-sse).
SendRequest ==
  /\ Connecting /\ conn = None
  /\ \E c \in Conns : streams[c] = "none"
  /\ conn' = CHOOSE c \in Conns : streams[c] = "none"
  /\ Arrive(conn')
  /\ UNCHANGED <<watchVars, tableVars, reporter, routes, early, faults,
                 source, retries, closed, hungUp>>

\* shouldRetry (external: go-sse).
shouldRetry(n) == MaxRetries = 0 \/ n <= MaxRetries

\* The request fails before it reaches the server and is retried, with a limit;
\* a 5xx answer from a proxy is retried without one (external: go-sse).
ConnectFails ==
  /\ Connecting /\ conn = None
  /\ Fault
  /\ \/ /\ retries' = retries + 1
        /\ source' = IF shouldRetry(retries + 1) THEN Waiting ELSE Failing
     \/ source' = Waiting /\ UNCHANGED retries
  /\ UNCHANGED <<watchVars, tableVars, statVars, reporter, streams, early,
                 conn, closed, hungUp>>

\* Any other answer fails: 401 is the "unauthorized" error of doSubscribe.
Refused ==
  /\ Connecting /\ conn # None
  /\ streams[conn] = "refused"
  /\ source' = Failing
  /\ conn' = None
  /\ LetGo(conn)
  /\ UNCHANGED <<watchVars, tableVars, statVars, reporter, early, faults, retries,
                 closed>>

\* The response arrives.  Connect returns the source; ensureReadCloser lets go
\* of the connection when Close was called meanwhile (external: go-sse).
Connected ==
  /\ Connecting /\ conn # None
  /\ streams[conn] \in {"open", "over"}
  /\ retries' = 0
  /\ IF closed
     THEN source' = "over" /\ LetGo(conn) /\ conn' = None
     ELSE /\ source' = IF source = "subscribing" THEN "idle" ELSE "reading"
          /\ UNCHANGED <<hungUp, streams, conn>>
  /\ UNCHANGED <<watchVars, tableVars, statVars, reporter, early, faults, closed>>

\* eventSource.Next is called: it reads, connects again, or finds the source
\* closed.
CallNext ==
  /\ source = "idle"
  /\ source' = IF closed THEN "over" ELSE IF conn = None THEN "connecting"
               ELSE "reading"
  /\ UNCHANGED <<watchVars, tableVars, statVars, reporter, streams, early,
                 faults, conn, retries, closed, hungUp>>

\* An event arrives; convertRawEvent hands its action and route to the caller, or
\* an error when they do not parse.
NextReturns ==
  /\ source = "reading"
  /\ conn # None
  /\ source' = "idle"
  /\ UNCHANGED <<watchVars, tableVars, statVars, reporter, streams, early,
                 faults, conn, retries, closed, hungUp>>

\* The server ended the stream: io.EOF, and go-sse does not connect again.
NextEOF ==
  /\ source = "reading"
  /\ conn # None
  /\ streams[conn] = "over"
  /\ source' = "over"
  /\ UNCHANGED <<watchVars, tableVars, statVars, reporter, streams, early,
                 faults, conn, retries, closed, hungUp>>

\* The connection breaks, or was closed: go-sse lets go of it and waits.
ReadFails ==
  /\ source = "reading"
  /\ \/ conn # None /\ Fault /\ LetGo(conn)
     \/ conn = None /\ UNCHANGED <<faults, hungUp, streams>>
  /\ source' = "wait"
  /\ conn' = None
  /\ UNCHANGED <<watchVars, tableVars, statVars, reporter, early, retries, closed>>

\* waitForRetry: the interval passes, or the source is closed (external: go-sse).
RetryConnect ==
  /\ source \in {"wait", "subscribeWait"}
  /\ source' = IF source = "wait" THEN "connecting" ELSE "subscribing"
  /\ UNCHANGED <<watchVars, tableVars, statVars, reporter, streams, early,
                 faults, conn, retries, closed, hungUp>>

WaitClosed ==
  /\ source = "wait" /\ closed
  /\ source' = "over"
  /\ UNCHANGED <<watchVars, tableVars, statVars, reporter, streams, early,
                 faults, conn, retries, closed, hungUp>>

\* The caller holds a source: Connect has returned one.
Held == source \in {"idle", "reading", "connecting", "wait", "over"}

CloseKeepsReaderFaulty ==
  /\ Held /\ ~closed
  /\ closed' = TRUE
  /\ UNCHANGED <<watchVars, tableVars, statVars, reporter, streams, early,
                 faults, source, conn, retries, hungUp>>

\* eventSource.Close: the source is closed and its connection, if it has one
\* whose response it reads, let go.
doClose ==
  /\ Held /\ ~closed
  /\ closed' = TRUE
  /\ IF conn # None /\ source # "connecting"
     THEN LetGo(conn) /\ conn' = None
     ELSE UNCHANGED <<hungUp, streams, conn>>
  /\ UNCHANGED <<watchVars, tableVars, statVars, reporter, early, faults, source,
                 retries>>

-----------------------------------------------------------------------------

TableStep == CreateRow \/ DeleteRow \/ UpdateRow \/ PruneRow \/ RowExpires
ReporterStep == WatchAll \/ ResetSubscriptions \/ ReportEvent \/ ReporterCut
StreamStep(c) == StartStream(c) \/ RefuseStream(c) \/ LeaveStream(c)
SourceStep ==
  \/ SendRequest \/ ConnectFails \/ Refused \/ Connected
  \/ NextReturns \/ NextEOF \/ ReadFails \/ RetryConnect \/ WaitClosed

ConsumersNext ==
  \/ TableStep
  \/ \E t \in EventType : Emit(t)
  \/ CancelWatches
  \/ ReporterStep
  \/ ReportTotals
  \/ \E c \in Conns : StreamStep(c) \/ EndStream(c)
  \/ doSubscribe
  \/ SourceStep
  \/ CallNext
  \/ doClose

ConsumersSpec == ConsumersInit /\ [][ConsumersNext]_consumerVars

\* Handlers publish what they changed, the reporter and the streams' handlers
\* run, the ticker fires, and the client's goroutine runs.  A closed source is
\* seen at the latest after finitely many retries, because its channel is ready
\* as soon as the wait begins.
Fairness ==
  /\ WF_consumerVars(\E t \in EventType : Emit(t))
  /\ WF_consumerVars(ReporterStep)
  /\ WF_consumerVars(ReportTotals)
  /\ WF_consumerVars(\E c \in Conns : StreamStep(c))
  /\ WF_consumerVars(SourceStep)
  /\ SF_consumerVars(WaitClosed)

FairConsumersSpec == ConsumersSpec /\ Fairness

-----------------------------------------------------------------------------

\* As long as the handlers' deltas reach statsd, the subscription gauge is the
\* number of open streams less those that were open when the reporter reset it.
\* The servers start before the reporter, so there may be some, and then the
\* gauge stays too low for ever, even negative; it is never too high.
SubscriptionsCounted == subs = Cardinality(Open) - early

\* Every connection a handler of the server still knows is the one the event
\* source reads from, or has been hung up, which its handler will notice; and a
\* closed source keeps none except while a request of it is on its way.
ConnectionsAccounted ==
  /\ \A c \in Conns : streams[c] # "none" => c = conn \/ c \in hungUp
  /\ closed /\ source # "connecting" => conn = None

\* Once the table stops changing, a running reporter's route gauge settles on
\* the number of listed routes, whatever deltas were lost, came late or were
\* counted twice: the ticker's absolute value wins in the end.
RouteGaugeSettles ==
  (<>[](reporter = "select")) => <>[](routes = listed)

\* After Close, a Next in progress returns, whatever it was doing, and in the
\* end the server serves none of the client's connections.
ClosedSourceLetsGo ==
  closed ~> source \in {"idle", "over"} /\ Open = {}

=============================================================================
