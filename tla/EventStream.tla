------------------------------ MODULE EventStream -----------------------------
(***************************************************************************)
(* The event stream: the non-blocking eventhub.Hub of SqlDB, the goroutine *)
(* WatchChanges starts for every watcher, and the HTTP handler that copies *)
(* events to its client (handlers/event_stream_handler.go).  The hub for   *)
(* HTTP routes and the hub for TCP routes are two such instances.          *)
(*                                                                         *)
(* hub.lock is held through the whole of Subscribe, Emit and Close, and    *)
(* source.lock through every change of a source, so each is one step.      *)
(* events is an unbuffered channel: a send and its receive are one step.   *)
(* errors has room for one error, which is only used before it is closed.  *)
(***************************************************************************)
EXTENDS Naturals, Sequences

CONSTANTS
  Watchers,    \* requests for an event stream, each made once
  BufferSize,  \* events a source holds (1024 in NewSqlDB)
  MaxEvents    \* bound: events emitted

ASSUME StreamAssumption ==
  /\ BufferSize \in Nat \ {0}
  /\ MaxEvents \in Nat

VARIABLES
  emitted,     \* number of events emitted; event n is the n-th of them
  closed,      \* hub.closed
  subs,        \* hub.subscribers
  buf,         \* buf[w]: source.events
  srcClosed,   \* srcClosed[w]: source.closed
  disp,        \* disp[w]: where dispatchWatchEvents is
  hand,        \* hand[w]: the event it is sending
  handler,     \* handler[w]: where handleEventStream is
  conn,        \* conn[w]: the client has not closed the connection
  last         \* last[w]: the last event the handler received

vars == <<emitted, closed, subs, buf, srcClosed, disp, hand, handler, conn, last>>
hubVars == <<emitted, closed, subs>>

\* "refused": WatchChanges could not subscribe and both channels are closed.
DispPc == {"none", "next", "send", "closeErrors", "closeEvents", "done", "refused"}
HandlerPc == {"none", "select", "write", "returned", "left"}

TypeOK ==
  /\ emitted \in Nat
  /\ closed \in BOOLEAN
  /\ subs \subseteq Watchers
  /\ buf \in [Watchers -> Seq(Nat)]
  /\ srcClosed \in [Watchers -> BOOLEAN]
  /\ disp \in [Watchers -> DispPc]
  /\ hand \in [Watchers -> Nat]
  /\ handler \in [Watchers -> HandlerPc]
  /\ conn \in [Watchers -> BOOLEAN]
  /\ last \in [Watchers -> Nat]
  /\ \A w \in Watchers : Len(buf[w]) <= BufferSize

Init ==
  /\ emitted = 0
  /\ closed = FALSE
  /\ subs = {}
  /\ buf = [w \in Watchers |-> <<>>]
  /\ srcClosed = [w \in Watchers |-> FALSE]
  /\ disp = [w \in Watchers |-> "none"]
  /\ hand = [w \in Watchers |-> 0]
  /\ handler = [w \in Watchers |-> "none"]
  /\ conn = [w \in Watchers |-> TRUE]
  /\ last = [w \in Watchers |-> 0]

-----------------------------------------------------------------------------
(* The hub.  Definitions named ...Faulty are variants with a plausible      *)
(* mistake; no specification uses them.                                     *)

\* source.send finds no room in the channel.
Full(w) == Len(buf[w]) = BufferSize

EmitKeepsSlowFaulty ==
  /\ emitted < MaxEvents
  /\ emitted' = emitted + 1
  /\ buf' = [w \in Watchers |->
               IF w \in subs /\ ~srcClosed[w] /\ ~Full(w)
               THEN Append(buf[w], emitted + 1) ELSE buf[w]]
  /\ UNCHANGED <<closed, subs, srcClosed, disp, hand, handler, conn, last>>

\* hub.Emit: every subscriber is sent the event.  A source that is closed is
\* dropped; a source that is full is closed and dropped.
Emit ==
  LET fed == {w \in subs : ~srcClosed[w] /\ ~Full(w)} IN
  /\ emitted < MaxEvents
  /\ emitted' = emitted + 1
  /\ buf' = [w \in Watchers |->
               IF w \in fed THEN Append(buf[w], emitted + 1) ELSE buf[w]]
  /\ srcClosed' = [w \in Watchers |-> srcClosed[w] \/ w \in subs \ fed]
  /\ subs' = fed
  /\ UNCHANGED <<closed, disp, hand, handler, conn, last>>

CancelForgetsFaulty ==
  /\ ~closed
  /\ closed' = TRUE
  /\ subs' = {}
  /\ UNCHANGED <<emitted, buf, srcClosed, disp, hand, handler, conn, last>>

\* CancelWatches, hub.Close: every subscriber's source is closed and forgotten.
\* A second call changes nothing.
CancelWatches ==
  /\ ~closed
  /\ closed' = TRUE
  /\ srcClosed' = [w \in Watchers |-> srcClosed[w] \/ w \in subs]
  /\ subs' = {}
  /\ UNCHANGED <<emitted, buf, disp, hand, handler, conn, last>>

-----------------------------------------------------------------------------
(* WatchChanges and dispatchWatchEvents.                                    *)

\* A request arrives; handleEventStream calls WatchChanges.
WatchChanges(w) ==
  /\ handler[w] = "none"
  /\ handler' = [handler EXCEPT ![w] = "select"]
  /\ \/ /\ ~closed
        /\ subs' = subs \cup {w}
        /\ disp' = [disp EXCEPT ![w] = "next"]
     \/ /\ closed
        /\ disp' = [disp EXCEPT ![w] = "refused"]
        /\ UNCHANGED subs
  /\ last' = [last EXCEPT ![w] = emitted]
  /\ UNCHANGED <<emitted, closed, buf, srcClosed, hand, conn>>

\* sub.Next returns an event; a closed source still yields what it holds.
NextEvent(w) ==
  /\ disp[w] = "next"
  /\ buf[w] # <<>>
  /\ hand' = [hand EXCEPT ![w] = Head(buf[w])]
  /\ buf' = [buf EXCEPT ![w] = Tail(@)]
  /\ disp' = [disp EXCEPT ![w] = "send"]
  /\ UNCHANGED <<hubVars, srcClosed, handler, conn, last>>

\* sub.Next returns ErrReadFromClosedSource: the goroutine returns.
NextClosed(w) ==
  /\ disp[w] = "next"
  /\ buf[w] = <<>>
  /\ srcClosed[w]
  /\ disp' = [disp EXCEPT ![w] = "closeErrors"]
  /\ UNCHANGED <<hubVars, buf, srcClosed, hand, handler, conn, last>>

\* The deferred closes, the last deferred first.
CloseErrors(w) ==
  /\ disp[w] = "closeErrors"
  /\ disp' = [disp EXCEPT ![w] = "closeEvents"]
  /\ UNCHANGED <<hubVars, buf, srcClosed, hand, handler, conn, last>>

CloseEvents(w) ==
  /\ disp[w] = "closeEvents"
  /\ disp' = [disp EXCEPT ![w] = "done"]
  /\ UNCHANGED <<hubVars, buf, srcClosed, hand, handler, conn, last>>

ErrorsClosed(w) == disp[w] \in {"closeEvents", "done", "refused"}
EventsClosed(w) == disp[w] \in {"done", "refused"}

-----------------------------------------------------------------------------
(* handleEventStream: the select over events, errors and the connection.    *)

\* An event arrives, to be written to the client.
ReceiveEvent(w) ==
  /\ handler[w] = "select"
  /\ disp[w] = "send"
  /\ last' = [last EXCEPT ![w] = hand[w]]
  /\ hand' = [hand EXCEPT ![w] = 0]
  /\ disp' = [disp EXCEPT ![w] = "next"]
  /\ handler' = [handler EXCEPT ![w] = "write"]
  /\ UNCHANGED <<hubVars, buf, srcClosed, conn>>

\* Write and Flush return; the server sets no write timeout, so they block while
\* the client does not read.  When the write fails, the break leaves the select,
\* not the loop: either way the loop goes on.
WriteEvent(w) ==
  /\ handler[w] = "write"
  /\ handler' = [handler EXCEPT ![w] = "select"]
  /\ UNCHANGED <<hubVars, buf, srcClosed, disp, hand, conn, last>>

\* errors yields an error or, being closed, nil: the handler returns.
WatchError(w) ==
  /\ handler[w] = "select"
  /\ ErrorsClosed(w)
  /\ handler' = [handler EXCEPT ![w] = "returned"]
  /\ UNCHANGED <<hubVars, buf, srcClosed, disp, hand, conn, last>>

\* events, being closed, yields the zero Event, whose type is InvalidEvent: the
\* handler returns.
InvalidEvent(w) ==
  /\ handler[w] = "select"
  /\ EventsClosed(w)
  /\ handler' = [handler EXCEPT ![w] = "returned"]
  /\ UNCHANGED <<hubVars, buf, srcClosed, disp, hand, conn, last>>

LeaveNoCancelFaulty(w) ==
  /\ handler[w] = "select"
  /\ ~conn[w]
  /\ handler' = [handler EXCEPT ![w] = "left"]
  /\ UNCHANGED <<hubVars, buf, srcClosed, disp, hand, conn, last>>

\* The request's context is done: cancelFunc closes the source (the cancelFunc
\* of a refused watch does nothing) and the handler returns.
ConnectionClosed(w) ==
  /\ handler[w] = "select"
  /\ ~conn[w]
  /\ srcClosed' = [srcClosed EXCEPT ![w] = @ \/ disp[w] # "refused"]
  /\ handler' = [handler EXCEPT ![w] = "left"]
  /\ UNCHANGED <<hubVars, buf, disp, hand, conn, last>>

\* The client goes away.
Disconnect(w) ==
  /\ handler[w] \in {"select", "write"}
  /\ conn[w]
  /\ conn' = [conn EXCEPT ![w] = FALSE]
  /\ UNCHANGED <<hubVars, buf, srcClosed, disp, hand, handler, last>>

Dispatch(w) ==
  NextEvent(w) \/ NextClosed(w) \/ CloseErrors(w) \/ CloseEvents(w)

Handle(w) ==
  ReceiveEvent(w) \/ WatchError(w) \/ InvalidEvent(w) \/ ConnectionClosed(w)

Next ==
  \/ Emit
  \/ CancelWatches
  \/ \E w \in Watchers :
       WatchChanges(w) \/ Dispatch(w) \/ Handle(w) \/ WriteEvent(w) \/ Disconnect(w)

Spec == Init /\ [][Next]_vars

\* Goroutines that can run do, and a write to a closed connection returns; one to
\* an open connection may block for ever.  Clients, emitters and the shutdown are
\* free.
Fairness ==
  \A w \in Watchers :
    WF_vars(Dispatch(w)) /\ WF_vars(Handle(w)) /\ WF_vars(~conn[w] /\ WriteEvent(w))

FairSpec == Spec /\ Fairness

-----------------------------------------------------------------------------
(* Properties.                                                              *)

\* The number of events taken from w's source and not yet received.
Held(w) == IF disp[w] = "send" THEN 1 ELSE 0

NoGapAt(w) ==
  /\ disp[w] = "send" => hand[w] = last[w] + 1
  /\ \A i \in 1..Len(buf[w]) : buf[w][i] = last[w] + Held(w) + i
  /\ w \in subs /\ ~srcClosed[w] => last[w] + Held(w) + Len(buf[w]) = emitted

\* Emit, dispatchWatchEvents and the handler together: a subscriber never skips
\* and never repeats an event, and as long as the hub feeds it, all events
\* emitted since it subscribed have reached it or are on their way.
NoGap == \A w \in Watchers : NoGapAt(w)

\* dispatchWatchEvents: a stream the server ends is ended only after the handler
\* has received everything its source accepted.
DrainedBeforeEnd ==
  \A w \in Watchers :
    handler[w] = "returned" => disp[w] # "send" /\ buf[w] = <<>>

\* The stream a client sees: WatchChanges and the handler implement Watch.
status == [w \in Watchers |->
  CASE handler[w] = "none"     -> "none"
    [] handler[w] = "left"     -> "gone"
    [] handler[w] = "returned" -> "finished"
    [] OTHER -> IF srcClosed[w] \/ disp[w] = "refused" THEN "ended" ELSE "open"]

accepted == [w \in Watchers |-> last[w] + Held(w) + Len(buf[w])]

Abstract == INSTANCE Watch WITH published <- emitted, received <- last

\* The refinement: every step of the hub, the goroutines and the handlers is a
\* step of Watch or invisible to it.
ImplementsWatch == Abstract!Spec

Streaming(w) == handler[w] \in {"select", "write"}

\* The handler is in Write, and its client neither reads nor goes away.
Blocked(w) == handler[w] = "write" /\ conn[w]

\* CancelWatches, called when the process stops: every open stream ends, except
\* one whose client has stopped reading for good.
ShutdownEndsStreams ==
  \A w \in Watchers : closed /\ Streaming(w) ~> ~Streaming(w) \/ []Blocked(w)

=============================================================================
