--------------------------- MODULE EventStreamProofs --------------------------
(***************************************************************************)
(* The event stream for any number of watchers, any buffer size and any    *)
(* number of events: no gap, nothing lost when the server ends a stream,   *)
(* and the implementation of Watch.                                        *)
(***************************************************************************)
EXTENDS EventStream, SequenceTheorems, TLAPS

\* A source starts with nothing buffered.
LEMMA NothingBuffered == <<>> \in Seq(Nat) /\ Len(<<>>) = 0
BY EmptySeq

LEMMA TypeInit == Init => TypeOK
<1> SUFFICES ASSUME Init PROVE TypeOK
  OBVIOUS
<1>1. \A w \in Watchers : buf[w] = <<>>
  BY Zenon DEF Init
<1>2. \A w \in Watchers : buf[w] \in Seq(Nat) /\ Len(buf[w]) <= BufferSize
  <2>1. \A w \in Watchers : buf[w] \in Seq(Nat) /\ Len(buf[w]) = 0
    BY <1>1, NothingBuffered, Zenon
  <2>2. 0 <= BufferSize
    BY StreamAssumption DEF StreamAssumption
  <2> QED
    BY <2>1, <2>2, Zenon
<1>3. buf \in [Watchers -> Seq(Nat)]
  BY <1>2, Zenon DEF Init
<1> QED
  BY <1>2, <1>3, Zenon DEF Init, TypeOK, DispPc, HandlerPc

LEMMA TypeNext == TypeOK /\ [Next]_vars => TypeOK'
<1> SUFFICES ASSUME TypeOK, [Next]_vars PROVE TypeOK'
  OBVIOUS
<1> USE StreamAssumption DEF StreamAssumption, TypeOK, DispPc, HandlerPc
<1>1. CASE Emit
  BY <1>1 DEF Emit, Full
<1>2. CASE CancelWatches
  BY <1>2 DEF CancelWatches
<1>3. ASSUME NEW w \in Watchers, WatchChanges(w) PROVE TypeOK'
  BY <1>3, Zenon DEF WatchChanges
<1>4. ASSUME NEW w \in Watchers, Dispatch(w) PROVE TypeOK'
  <2>1. CASE NextEvent(w)
    BY <2>1, SMTT(60) DEF NextEvent, hubVars
  <2>2. CASE NextClosed(w)
    BY <2>2, Zenon DEF NextClosed, hubVars
  <2>3. CASE CloseErrors(w)
    BY <2>3, Zenon DEF CloseErrors, hubVars
  <2>4. CASE CloseEvents(w)
    BY <2>4, Zenon DEF CloseEvents, hubVars
  <2> QED
    BY <1>4, <2>1, <2>2, <2>3, <2>4, Zenon DEF Dispatch
<1>5. ASSUME NEW w \in Watchers, Handle(w) PROVE TypeOK'
  <2>1. CASE ReceiveEvent(w)
    BY <2>1, Zenon DEF ReceiveEvent, hubVars
  <2>2. CASE WatchError(w)
    BY <2>2, Zenon DEF WatchError, hubVars
  <2>3. CASE InvalidEvent(w)
    BY <2>3, Zenon DEF InvalidEvent, hubVars
  <2>4. CASE ConnectionClosed(w)
    BY <2>4, Zenon DEF ConnectionClosed, hubVars
  <2> QED
    BY <1>5, <2>1, <2>2, <2>3, <2>4, Zenon DEF Handle
<1>6. ASSUME NEW w \in Watchers, WriteEvent(w) \/ Disconnect(w) PROVE TypeOK'
  BY <1>6, Zenon DEF WriteEvent, Disconnect, hubVars
<1>7. CASE UNCHANGED vars
  BY <1>7 DEF vars
<1> QED
  BY <1>1, <1>2, <1>3, <1>4, <1>5, <1>6, <1>7, Zenon DEF Next

\* Type correctness of the hub, the dispatching goroutines and the handlers.
THEOREM TypeCorrect == Spec => []TypeOK
BY TypeInit, TypeNext, PTL DEF Spec

-----------------------------------------------------------------------------
(* What ties the goroutine of a watcher to its source and its handler.      *)

Wired(w) ==
  /\ handler[w] = "none" <=> disp[w] = "none"
  /\ disp[w] \in {"none", "refused"} => w \notin subs /\ ~srcClosed[w]
  /\ disp[w] \in {"closeErrors", "closeEvents", "done"} => srcClosed[w]
  /\ disp[w] \in {"next", "send"} /\ ~srcClosed[w] => w \in subs
  /\ disp[w] \notin {"next", "send"} => buf[w] = <<>>
  /\ handler[w] = "returned" => ErrorsClosed(w)
  /\ handler[w] = "left" => srcClosed[w] \/ disp[w] = "refused"

StreamInv ==
  /\ TypeOK
  /\ NoGap
  /\ \A w \in Watchers : Wired(w)

LEMMA StreamInit == Init => StreamInv
<1> SUFFICES ASSUME Init PROVE StreamInv
  OBVIOUS
<1>1. TypeOK
  BY TypeInit
<1>2. NoGap
  <2> SUFFICES ASSUME NEW w \in Watchers
               PROVE  NoGapAt(w)
    BY Zenon DEF NoGap
  <2>1. buf[w] = <<>> /\ disp[w] # "send" /\ w \notin subs
    BY DEF Init
  <2>2. Len(buf[w]) = 0
    BY <2>1, NothingBuffered, Zenon
  <2>3. 1..Len(buf[w]) = {}
    BY <2>2
  <2> QED
    BY <2>1, <2>3, Zenon DEF NoGapAt
<1>3. \A w \in Watchers : Wired(w)
  BY ZenonT(60) DEF Init, Wired, ErrorsClosed
<1> QED
  BY <1>1, <1>2, <1>3, Zenon DEF StreamInv

LEMMA WiredNext == StreamInv /\ [Next]_vars => (\A w \in Watchers : Wired(w))'
<1> SUFFICES ASSUME StreamInv, [Next]_vars, NEW v \in Watchers PROVE Wired(v)'
  OBVIOUS
<1> USE DEF StreamInv, TypeOK, Wired, ErrorsClosed
<1>1. CASE Emit
  BY <1>1, Zenon DEF Emit, DispPc
<1>2. CASE CancelWatches
  BY <1>2, Zenon DEF CancelWatches
<1>3. ASSUME NEW w \in Watchers, WatchChanges(w) PROVE Wired(v)'
  BY <1>3, SMTT(60) DEF WatchChanges
<1>4. ASSUME NEW w \in Watchers, Dispatch(w) PROVE Wired(v)'
  <2>1. CASE NextEvent(w)
    BY <2>1, Zenon DEF NextEvent, hubVars
  <2>2. CASE NextClosed(w)
    BY <2>2, Zenon DEF NextClosed, hubVars
  <2>3. CASE CloseErrors(w)
    BY <2>3, Zenon DEF CloseErrors, hubVars
  <2>4. CASE CloseEvents(w)
    BY <2>4, Zenon DEF CloseEvents, hubVars
  <2> QED
    BY <1>4, <2>1, <2>2, <2>3, <2>4 DEF Dispatch
<1>5. ASSUME NEW w \in Watchers, Handle(w) PROVE Wired(v)'
  <2>1. CASE ReceiveEvent(w)
    BY <2>1, Zenon DEF ReceiveEvent, hubVars
  <2>2. CASE WatchError(w)
    BY <2>2, Zenon DEF WatchError, hubVars
  <2>3. CASE InvalidEvent(w)
    BY <2>3 DEF InvalidEvent, EventsClosed, hubVars
  <2>4. CASE ConnectionClosed(w)
    BY <2>4, ZenonT(60) DEF ConnectionClosed, hubVars
  <2> QED
    BY <1>5, <2>1, <2>2, <2>3, <2>4, Zenon DEF Handle
<1>6. ASSUME NEW w \in Watchers, WriteEvent(w) \/ Disconnect(w) PROVE Wired(v)'
  BY <1>6, Zenon DEF WriteEvent, Disconnect, hubVars
<1>7. CASE UNCHANGED vars
  BY <1>7 DEF vars
<1> QED
  BY <1>1, <1>2, <1>3, <1>4, <1>5, <1>6, <1>7, Zenon DEF Next

\* A run of consecutive events, with the next one appended or the first removed.
LEMMA AppendedRun ==
  ASSUME NEW s \in Seq(Nat), NEW b \in Nat, NEW e \in Nat,
         \A i \in 1..Len(s) : s[i] = b + i,
         e = b + Len(s) + 1
  PROVE  /\ Len(Append(s, e)) = Len(s) + 1
         /\ \A i \in 1..Len(Append(s, e)) : Append(s, e)[i] = b + i
<1>1. /\ Len(Append(s, e)) = Len(s) + 1
      /\ \A i \in 1..Len(s) : Append(s, e)[i] = s[i]
      /\ Append(s, e)[Len(s) + 1] = e
  BY AppendProperties
<1>2. Len(s) \in Nat
  OBVIOUS
<1>3. ASSUME NEW i \in 1..(Len(s) + 1) PROVE Append(s, e)[i] = b + i
  <2>1. CASE i = Len(s) + 1
    BY <1>1, <1>2, <2>1
  <2>2. CASE i # Len(s) + 1
    BY <1>1, <1>2, <2>2
  <2> QED
    BY <2>1, <2>2, Zenon
<1> QED
  BY <1>1, <1>3, Zenon

LEMMA RunTail ==
  ASSUME NEW s \in Seq(Nat), NEW b \in Nat, s # <<>>,
         \A i \in 1..Len(s) : s[i] = b + i
  PROVE  /\ Head(s) = b + 1
         /\ Len(Tail(s)) = Len(s) - 1
         /\ Len(s) \in Nat
         /\ \A i \in 1..Len(Tail(s)) : Tail(s)[i] = b + 1 + i
<1>1. /\ Len(s) \in Nat \ {0}
      /\ Len(Tail(s)) = Len(s) - 1
      /\ \A i \in 1..Len(Tail(s)) : Tail(s)[i] = s[i + 1]
  BY HeadTailProperties, EmptySeq
<1>2. Head(s) = s[1]
  OBVIOUS
<1> QED
  BY <1>1, <1>2

LEMMA NoGapNext == StreamInv /\ [Next]_vars => NoGap'
<1> SUFFICES ASSUME StreamInv, [Next]_vars, NEW v \in Watchers
             PROVE  NoGapAt(v)'
  BY Zenon DEF NoGap
<1> USE DEF StreamInv, TypeOK, NoGap, NoGapAt, Held
<1>1. CASE Emit
  <2>1. CASE v \in subs /\ ~srcClosed[v] /\ ~Full(v)
    <3>1. /\ buf'[v] = Append(buf[v], emitted + 1)
          /\ emitted' = emitted + 1
          /\ disp'[v] = disp[v] /\ last'[v] = last[v] /\ hand'[v] = hand[v]
      BY <1>1, <2>1, Zenon DEF Emit
    <3> DEFINE b == last[v] + Held(v)
               s == buf[v]
    <3>2. /\ s \in Seq(Nat) /\ b \in Nat /\ emitted + 1 \in Nat
          /\ \A i \in 1..Len(s) : s[i] = b + i
          /\ emitted + 1 = b + Len(s) + 1
      BY <2>1
    <3>3. Held(v)' = Held(v) /\ Len(s) \in Nat
      BY <3>1, <3>2
    <3>4. /\ Len(Append(s, emitted + 1)) = Len(s) + 1
          /\ \A i \in 1..Len(Append(s, emitted + 1)) :
               Append(s, emitted + 1)[i] = b + i
      <4> HIDE DEF b, s, StreamInv, TypeOK, NoGap, NoGapAt
      <4> QED
        BY <3>2, AppendedRun, Zenon
    <3>5. disp'[v] = "send" => hand'[v] = last'[v] + 1
      BY <3>1, Zenon
    <3>6. \A i \in 1..Len(buf'[v]) : buf'[v][i] = last'[v] + Held(v)' + i
      <4> HIDE DEF StreamInv, TypeOK, NoGap, NoGapAt, Held
      <4> QED
        BY <3>1, <3>3, <3>4, Zenon
    <3>7. last'[v] + Held(v)' + Len(buf'[v]) = emitted'
      <4> HIDE DEF StreamInv, TypeOK, NoGap, NoGapAt, Held, b
      <4>1. last'[v] + Held(v)' = b
        BY <3>1, <3>3, Zenon DEF b
      <4> QED
        BY <3>1, <3>2, <3>3, <3>4, <4>1
    <3> QED
      BY <3>5, <3>6, <3>7, Zenon DEF NoGapAt
  <2>2. CASE ~(v \in subs /\ ~srcClosed[v] /\ ~Full(v))
    <3>1. /\ buf'[v] = buf[v] /\ v \notin subs'
          /\ disp'[v] = disp[v] /\ last'[v] = last[v] /\ hand'[v] = hand[v]
      BY <1>1, <2>2, Zenon DEF Emit
    <3> QED
      BY <3>1, Zenon
  <2> QED
    BY <2>1, <2>2, Zenon
<1>2. CASE CancelWatches
  BY <1>2, Zenon DEF CancelWatches
<1>3. ASSUME NEW w \in Watchers, WatchChanges(w) PROVE NoGapAt(v)'
  BY <1>3, NothingBuffered, SMTT(60) DEF WatchChanges, Wired
<1>4. ASSUME NEW w \in Watchers, Dispatch(w) PROVE NoGapAt(v)'
  <2>1. CASE NextEvent(w)
    <3>1. CASE v = w
      <4>1. /\ buf'[v] = Tail(buf[v]) /\ hand'[v] = Head(buf[v])
            /\ disp[v] = "next" /\ disp'[v] = "send"
            /\ UNCHANGED <<last, subs, srcClosed, emitted>>
            /\ buf[v] # <<>>
        BY <2>1, <3>1 DEF NextEvent, hubVars
      <4> DEFINE b == last[v]
                 s == buf[v]
      <4>2. /\ s \in Seq(Nat) /\ b \in Nat /\ s # <<>>
            /\ \A i \in 1..Len(s) : s[i] = b + i
        <5>1. s # <<>>
          BY <4>1, Zenon
        <5>2. Held(v) = 0
          BY <4>1, Zenon
        <5>3. s \in Seq(Nat) /\ b \in Nat
          OBVIOUS
        <5>4. \A i \in 1..Len(s) : s[i] = b + 0 + i
          <6> HIDE DEF Held
          <6> QED
            BY <5>2, Zenon
        <5> QED
          BY <5>1, <5>3, <5>4
      <4>3. /\ Head(s) = b + 1
            /\ Len(Tail(s)) = Len(s) - 1
            /\ Len(s) \in Nat
            /\ \A i \in 1..Len(Tail(s)) : Tail(s)[i] = b + 1 + i
        <5> HIDE DEF b, s, StreamInv, TypeOK, NoGap, NoGapAt
        <5> QED
          BY <4>2, RunTail, Zenon
      <4>4. v \in subs /\ ~srcClosed[v] => b + Len(s) = emitted
        <5>1. Held(v) = 0
          BY <4>1
        <5>2. v \in subs /\ ~srcClosed[v] => b + Held(v) + Len(s) = emitted
          <6> HIDE DEF Held
          <6> QED
            BY Zenon
        <5> HIDE DEF Held, StreamInv, TypeOK, b, s
        <5> QED
          BY <5>1, <5>2, <4>2
      <4>5. Held(v)' = 1
        BY <4>1, Zenon
      <4>6. \A i \in 1..Len(buf'[v]) : buf'[v][i] = last'[v] + Held(v)' + i
        <5> HIDE DEF StreamInv, TypeOK, NoGap, NoGapAt, Held
        <5> QED
          BY <4>1, <4>3, <4>5, Zenon
      <4>7. v \in subs' /\ ~srcClosed'[v] =>
              last'[v] + Held(v)' + Len(buf'[v]) = emitted'
        <5> HIDE DEF StreamInv, TypeOK, NoGap, NoGapAt, Held, s
        <5> QED
          BY <4>1, <4>2, <4>3, <4>4, <4>5 DEF s
      <4>8. hand'[v] = last'[v] + 1
        BY <4>1, <4>3, Zenon
      <4> HIDE DEF StreamInv, TypeOK, NoGap, Held
      <4> QED
        BY <4>6, <4>7, <4>8, Zenon DEF NoGapAt
    <3>2. CASE v # w
      BY <2>1, <3>2, Zenon DEF NextEvent, hubVars
    <3> QED
      BY <3>1, <3>2, Zenon
  <2>2. CASE NextClosed(w)
    BY <2>2, Zenon DEF NextClosed, hubVars
  <2>3. CASE CloseErrors(w)
    BY <2>3, Zenon DEF CloseErrors, hubVars
  <2>4. CASE CloseEvents(w)
    BY <2>4, Zenon DEF CloseEvents, hubVars
  <2> QED
    BY <1>4, <2>1, <2>2, <2>3, <2>4, Zenon DEF Dispatch
<1>5. ASSUME NEW w \in Watchers, Handle(w) PROVE NoGapAt(v)'
  <2>1. CASE ReceiveEvent(w)
    BY <2>1 DEF ReceiveEvent, hubVars
  <2>2. CASE WatchError(w)
    BY <2>2, Zenon DEF WatchError, hubVars
  <2>3. CASE InvalidEvent(w)
    BY <2>3, Zenon DEF InvalidEvent, hubVars
  <2>4. CASE ConnectionClosed(w)
    BY <2>4, Zenon DEF ConnectionClosed, hubVars
  <2> QED
    BY <1>5, <2>1, <2>2, <2>3, <2>4, Zenon DEF Handle
<1>6. ASSUME NEW w \in Watchers, WriteEvent(w) \/ Disconnect(w) PROVE NoGapAt(v)'
  <2>1. CASE WriteEvent(w)
    BY <2>1, Zenon DEF WriteEvent, hubVars
  <2>2. CASE Disconnect(w)
    BY <2>2, Zenon DEF Disconnect, hubVars
  <2> QED
    BY <1>6, <2>1, <2>2
<1>7. CASE UNCHANGED vars
  BY <1>7, Zenon DEF vars
<1> QED
  BY <1>1, <1>2, <1>3, <1>4, <1>5, <1>6, <1>7, Zenon DEF Next

LEMMA StreamInvariant == Spec => []StreamInv
<1>1. StreamInv /\ [Next]_vars => StreamInv'
  BY TypeNext, NoGapNext, WiredNext, Zenon DEF StreamInv
<1> QED
  BY StreamInit, <1>1, PTL DEF Spec

\* No watcher skips or repeats an event between hub.Emit and its handler.
THEOREM NoGapAlways == Spec => []NoGap
<1>1. StreamInv => NoGap
  BY DEF StreamInv
<1> QED
  BY StreamInvariant, <1>1, PTL

\* dispatchWatchEvents drains a closed source before it closes the channels
\* that make handleEventStream return.
THEOREM DrainedBeforeEndAlways == Spec => []DrainedBeforeEnd
<1>1. StreamInv => DrainedBeforeEnd
  BY Zenon DEF StreamInv, Wired, ErrorsClosed, DrainedBeforeEnd
<1> QED
  BY StreamInvariant, <1>1, PTL

-----------------------------------------------------------------------------
(* The implementation of Watch.                                             *)

LEMMA WatchInit == Init => Abstract!Init
<1> SUFFICES ASSUME Init PROVE Abstract!Init
  OBVIOUS
<1>1. \A w \in Watchers : buf[w] = <<>> /\ last[w] = 0 /\ Held(w) = 0
  BY Zenon DEF Init, Held
<1>2. \A w \in Watchers : Len(buf[w]) = 0
  BY <1>1, NothingBuffered, Zenon
<1>3. accepted = [w \in Watchers |-> 0]
  BY <1>1, <1>2 DEF accepted
<1>4. status = [w \in Watchers |-> "none"]
  BY Zenon DEF Init, status
<1> QED
  BY <1>3, <1>4 DEF Init, Abstract!Init

\* What a step that touches one watcher leaves alone.
Abs == <<emitted, status, last, accepted>>

LEMMA WatchNext == StreamInv /\ StreamInv' /\ [Next]_vars => [Abstract!Next]_Abs
<1> SUFFICES ASSUME StreamInv, StreamInv', [Next]_vars
             PROVE  [Abstract!Next]_Abs
  OBVIOUS
<1> USE DEF StreamInv, TypeOK
<1>1. CASE Emit
  <2> DEFINE open == {w \in Watchers : status[w] = "open"}
             fed == {w \in subs : ~srcClosed[w] /\ ~Full(w)}
  <2>1. \A w \in Watchers : w \in fed => status[w] = "open"
    BY Zenon DEF status, Wired, ErrorsClosed, DispPc, HandlerPc
  <2>2. status' = [w \in Watchers |-> IF w \in open \ fed THEN "ended" ELSE status[w]]
    BY <1>1, Zenon DEF Emit, status, Wired, ErrorsClosed, DispPc, HandlerPc
  <2>3. accepted' = [w \in Watchers |->
            IF status[w] = "open" /\ w \notin open \ fed THEN emitted + 1
            ELSE accepted[w]]
    <3>1. \A w \in Watchers : w \in fed => accepted'[w] = emitted + 1
      BY <1>1, Zenon DEF Emit, accepted, NoGap, NoGapAt
    <3>2. \A w \in Watchers : w \notin fed => accepted'[w] = accepted[w]
      BY <1>1, Zenon DEF Emit, accepted, Held
    <3> QED
      BY <2>1, <3>1, <3>2, Zenon DEF accepted
  <2>4. Abstract!Publish
    BY <1>1, <2>2, <2>3, Zenon DEF Emit, Abstract!Publish
  <2> QED
    BY <2>4, Zenon DEF Abstract!Next
<1>2. CASE CancelWatches
  <2>1. status' = [w \in Watchers |->
                     IF status[w] = "open" THEN "ended" ELSE status[w]]
    BY <1>2, ZenonT(60) DEF CancelWatches, status, Wired, ErrorsClosed, DispPc, HandlerPc
  <2>2. accepted' = accepted
    BY <1>2 DEF CancelWatches, accepted, Held
  <2> QED
    BY <1>2, <2>1, <2>2, Zenon DEF CancelWatches, Abstract!Shutdown, Abstract!Next
<1>3. ASSUME NEW w \in Watchers, WatchChanges(w) PROVE Abstract!Subscribe(w)
  <2>1. status[w] = "none"
    BY <1>3, Zenon DEF WatchChanges, status
  <2>2. \E s \in {"open", "ended"} : status' = [status EXCEPT ![w] = s]
    <3>1. CASE closed
      <4>1. status' = [status EXCEPT ![w] = "ended"]
        BY <1>3, <3>1, ZenonT(60) DEF WatchChanges, status
      <4> QED
        BY <4>1
    <3>2. CASE ~closed
      <4>1. status' = [status EXCEPT ![w] = "open"]
        BY <1>3, <3>2, ZenonT(60) DEF WatchChanges, status, Wired
      <4> QED
        BY <4>1
    <3> QED
      BY <3>1, <3>2, Zenon
  <2>3. accepted' = [accepted EXCEPT ![w] = emitted]
    <3>1. Len(buf[w]) = 0
      BY <1>3, NothingBuffered DEF WatchChanges, Wired
    <3>2. accepted'[w] = emitted
      BY <1>3, <3>1 DEF WatchChanges, accepted, Held
    <3>3. \A v \in Watchers \ {w} : accepted'[v] = accepted[v]
      BY <1>3, ZenonT(60) DEF WatchChanges, accepted, Held
    <3> QED
      BY <3>2, <3>3, Zenon DEF accepted
  <2> QED
    BY <1>3, <2>1, <2>2, <2>3, Zenon DEF WatchChanges, Abstract!Subscribe
<1>4. ASSUME NEW w \in Watchers, Dispatch(w) PROVE UNCHANGED Abs
  <2>1. CASE NextEvent(w)
    <3>1. status' = status
      BY <2>1, Zenon DEF NextEvent, status
    <3>2. Len(Tail(buf[w])) = Len(buf[w]) - 1 /\ Len(buf[w]) \in Nat
      BY <2>1, HeadTailProperties DEF NextEvent
    <3>3. accepted' = accepted
      BY <2>1, <3>2, SMTT(60) DEF NextEvent, accepted, Held
    <3> QED
      BY <2>1, <3>1, <3>3, Zenon DEF NextEvent, Abs, hubVars
  <2>2. CASE NextClosed(w)
    BY <2>2, Zenon DEF NextClosed, Abs, hubVars, status, accepted, Held
  <2>3. CASE CloseErrors(w)
    BY <2>3, Zenon DEF CloseErrors, Abs, hubVars, status, accepted, Held
  <2>4. CASE CloseEvents(w)
    BY <2>4, Zenon DEF CloseEvents, Abs, hubVars, status, accepted, Held
  <2> QED
    BY <1>4, <2>1, <2>2, <2>3, <2>4 DEF Dispatch
<1>5. ASSUME NEW w \in Watchers, Handle(w)
      PROVE  Abstract!Deliver(w) \/ Abstract!Finish(w) \/ Abstract!Leave(w)
  <2>1. CASE ReceiveEvent(w)
    <3>1. status' = status /\ status[w] \in {"open", "ended"}
      BY <2>1, Zenon DEF ReceiveEvent, status
    <3>2. accepted' = accepted /\ last[w] < accepted[w]
      BY <2>1, SMTT(60) DEF ReceiveEvent, accepted, Held, NoGap, NoGapAt
    <3>3. last' = [last EXCEPT ![w] = last[w] + 1]
      BY <2>1, Zenon DEF ReceiveEvent, NoGap, NoGapAt
    <3> QED
      BY <2>1, <3>1, <3>2, <3>3, Zenon DEF ReceiveEvent, hubVars, Abstract!Deliver
  <2>2. CASE WatchError(w) \/ InvalidEvent(w)
    <3> USE DEF WatchError, InvalidEvent, ErrorsClosed, EventsClosed
    <3>1. status[w] = "ended" /\ status' = [status EXCEPT ![w] = "finished"]
      <4>1. status[w] = "ended"
        BY <2>2 DEF status, Wired
      <4>2. status'[w] = "finished" /\ \A v \in Watchers \ {w} : status'[v] = status[v]
        BY <2>2, ZenonT(60) DEF status
      <4> QED
        BY <4>1, <4>2, ZenonT(60) DEF status
    <3>2. accepted' = accepted
      BY <2>2, Zenon DEF accepted, Held
    <3>3. buf[w] = <<>> /\ Held(w) = 0
      BY <2>2, Zenon DEF Held, Wired
    <3>4. accepted[w] = last[w]
      BY <3>3, NothingBuffered, SMTT(60) DEF accepted
    <3> QED
      BY <2>2, <3>1, <3>2, <3>4, Zenon DEF hubVars, Abstract!Finish
  <2>3. CASE ConnectionClosed(w)
    <3>1. status[w] \in {"open", "ended"} /\ status' = [status EXCEPT ![w] = "gone"]
      BY <2>3, Zenon DEF ConnectionClosed, status
    <3>2. accepted' = accepted
      BY <2>3, Zenon DEF ConnectionClosed, accepted, Held
    <3> QED
      BY <2>3, <3>1, <3>2, Zenon DEF ConnectionClosed, hubVars, Abstract!Leave
  <2> QED
    BY <1>5, <2>1, <2>2, <2>3, Zenon DEF Handle
<1>6. ASSUME NEW w \in Watchers, WriteEvent(w) \/ Disconnect(w)
      PROVE  UNCHANGED Abs
  BY <1>6, Zenon DEF WriteEvent, Disconnect, Abs, hubVars, status, accepted, Held
<1>7. CASE UNCHANGED vars
  BY <1>7 DEF vars, Abs, status, accepted, Held
<1> QED
  BY <1>1, <1>2, <1>3, <1>4, <1>5, <1>6, <1>7, Zenon DEF Next, Abstract!Next

\* The hub, the goroutines and the handlers implement Watch: a client receives
\* what is published since it subscribed, in order, and all of it before the
\* server ends its stream.
THEOREM Implementation == Spec => ImplementsWatch
<1>1. Spec => [][Abstract!Next]_Abs
  BY StreamInvariant, WatchNext, PTL DEF Spec
<1>2. Spec => Abstract!Init
  BY WatchInit DEF Spec
<1> QED
  BY <1>1, <1>2, PTL DEF ImplementsWatch, Abstract!Spec, Abstract!vars, Abs

=============================================================================
