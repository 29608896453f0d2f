-------------------------------- MODULE Watch ---------------------------------
(***************************************************************************)
(* What WatchChanges and the event-stream endpoints promise a subscriber,  *)
(* without hubs, buffers, channels or goroutines: it receives the events   *)
(* published since it subscribed, in order and without a gap, and a stream *)
(* the server ends is ended only after everything accepted for it has been *)
(* received.  A subscriber may be cut off at any publication.              *)
(* Events are numbered in the order of publication.                        *)
(***************************************************************************)
EXTENDS Naturals

CONSTANTS Watchers

VARIABLES
  published,   \* number of events published
  status,      \* status[w]: "none", "open", "ended", "finished" or "gone"
  received,    \* received[w]: the last event w received
  accepted     \* accepted[w]: the last event accepted for w

vars == <<published, status, received, accepted>>

Init ==
  /\ published = 0
  /\ status = [w \in Watchers |-> "none"]
  /\ received = [w \in Watchers |-> 0]
  /\ accepted = [w \in Watchers |-> 0]

\* A subscriber gets what is published from now on; after a shutdown its
\* stream is over as soon as it begins.
Subscribe(w) ==
  /\ status[w] = "none"
  /\ \E s \in {"open", "ended"} : status' = [status EXCEPT ![w] = s]
  /\ received' = [received EXCEPT ![w] = published]
  /\ accepted' = [accepted EXCEPT ![w] = published]
  /\ UNCHANGED published

\* Every open stream either accepts the event or ends.
Publish ==
  /\ published' = published + 1
  /\ \E cut \in SUBSET {w \in Watchers : status[w] = "open"} :
       /\ status' = [w \in Watchers |-> IF w \in cut THEN "ended" ELSE status[w]]
       /\ accepted' = [w \in Watchers |->
            IF status[w] = "open" /\ w \notin cut THEN published + 1
            ELSE accepted[w]]
  /\ UNCHANGED received

Deliver(w) ==
  /\ status[w] \in {"open", "ended"}
  /\ received[w] < accepted[w]
  /\ received' = [received EXCEPT ![w] = @ + 1]
  /\ UNCHANGED <<published, status, accepted>>

\* CancelWatches ends every open stream.
Shutdown ==
  /\ status' = [w \in Watchers |->
                  IF status[w] = "open" THEN "ended" ELSE status[w]]
  /\ UNCHANGED <<published, received, accepted>>

\* The server closes the connection.
Finish(w) ==
  /\ status[w] = "ended"
  /\ received[w] = accepted[w]
  /\ status' = [status EXCEPT ![w] = "finished"]
  /\ UNCHANGED <<published, received, accepted>>

\* The client closed the connection.
Leave(w) ==
  /\ status[w] \in {"open", "ended"}
  /\ status' = [status EXCEPT ![w] = "gone"]
  /\ UNCHANGED <<published, received, accepted>>

Next ==
  \/ Publish \/ Shutdown
  \/ \E w \in Watchers : Subscribe(w) \/ Deliver(w) \/ Finish(w) \/ Leave(w)

Spec == Init /\ [][Next]_vars

=============================================================================
