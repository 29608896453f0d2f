---------------------------- MODULE PortReservation ---------------------------
(***************************************************************************)
(* ReservePort of client.go: clients look for a port that no router group  *)
(* has and write it to a group of theirs.  Each HTTP request is one step   *)
(* (RouterGroups models what happens within it), and each iteration of the *)
(* two loops over uint16 ports is one.  Groups without ports are of        *)
(* type http, the others of type tcp.                                      *)
(***************************************************************************)
EXTENDS Ports

CONSTANTS
  Clients,     \* callers of ReservePort
  Names,       \* names of router groups
  Wishes,      \* port range texts clients ask for
  Initial,     \* router groups to begin with: functions like groups
  MaxFails,    \* bound: failed requests and deleted groups
  Absent       \* there is no group of that name

ASSUME ReservationAssumption ==
  /\ Wishes \subseteq Seq(Seq(Int))
  /\ Initial \subseteq [Names -> Seq(Seq(Int)) \cup {Absent}]
  /\ MaxFails \in Nat

VARIABLES
  groups,      \* groups[n]: the reservable ports of group n, or Absent
  pc,          \* pc[c]: where ReservePort is: "idle", "list", "fill", "filling",
               \* "scan", "lookup", "update", "create", or "gone" when the group
               \* to be updated has been deleted since the lookup
  wish,        \* wish[c]: [name, start, end]
  range,       \* range[c]: the range being looped over
  rest,        \* rest[c]: the ranges of the groups listed, not yet in portSet
  portSet,     \* portSet[c]
  p,           \* p[c]: the loop variable
  result,      \* result[c]: the port ReservePort returned, or NaN
  fails

vars == <<groups, pc, wish, range, rest, portSet, p, result, fails>>
localVars == <<wish, range, rest, portSet, p>>

Init ==
  /\ groups \in Initial
  /\ pc = [c \in Clients |-> "idle"]
  /\ wish = [c \in Clients |-> [name |-> "", start |-> 0, end |-> 0]]
  /\ range = [c \in Clients |-> [start |-> 0, end |-> 0]]
  /\ rest = [c \in Clients |-> {}]
  /\ portSet = [c \in Clients |-> {}]
  /\ p = [c \in Clients |-> 0]
  /\ result = [c \in Clients |-> NaN]
  /\ fails = 0

-----------------------------------------------------------------------------
(* ReservePort.  Definitions named ...Faulty are variants with a plausible  *)
(* mistake; no specification uses them.                                     *)

Goto(c, l) == pc' = [pc EXCEPT ![c] = l]

Return(c, r) ==
  /\ Goto(c, "idle")
  /\ result' = [result EXCEPT ![c] = r]

\* The wish parses to one range of more than one port.
ReservePort(c, n, text) ==
  /\ pc[c] = "idle"
  /\ ParseOK(text)
  /\ Len(text) = 1
  /\ LET r == Parse(text)[1] IN
       /\ r.start # r.end
       /\ wish' = [wish EXCEPT ![c] = [name |-> n, start |-> r.start, end |-> r.end]]
  /\ Goto(c, "list")
  /\ result' = [result EXCEPT ![c] = NaN]
  /\ UNCHANGED <<groups, range, rest, portSet, p, fails>>

Present == {n \in Names : groups[n] # Absent}

\* What the database answers; a failed read gives the empty group, as a name that
\* is not there does.
ReadRouterGroupByName(n, failed) ==
  [group |-> IF failed THEN Absent ELSE groups[n], err |-> failed]

ReadRouterGroups(failed) ==
  [groups |-> IF failed THEN {} ELSE {groups[n] : n \in Present}, err |-> failed]

\* GET /routing/v1/router_groups, with a name or, for "", without.  The empty
\* group is looked for before the error is.
ListRouterGroups(name, failed) ==
  LET rg  == ReadRouterGroupByName(name, failed)
      all == ReadRouterGroups(failed)
  IN IF name # ""
     THEN IF rg.group = Absent THEN [code |-> 404, groups |-> {}]
          ELSE [code |-> 200, groups |-> {rg.group}]
     ELSE IF all.err THEN [code |-> 503, groups |-> {}]
          ELSE [code |-> 200, groups |-> all.groups]

\* Whether a read of the database or the request itself fails.
MayFail(failed) ==
  /\ failed => fails < MaxFails
  /\ fails' = IF failed THEN fails + 1 ELSE fails

\* RouterGroups: the groups, whose ports all have to parse; the empty text of a
\* group without ports does not.
ListGroups(c) ==
  /\ pc[c] = "list"
  /\ \E failed \in BOOLEAN :
       LET answer == ListRouterGroups("", failed) IN
       /\ MayFail(failed)
       /\ IF answer.code = 200 /\ \A t \in answer.groups : t # <<>> /\ ParseOK(t)
          THEN /\ rest' = [rest EXCEPT ![c] =
                    UNION {{Parse(t)[i] : i \in 1..Len(t)} : t \in answer.groups}]
               /\ portSet' = [portSet EXCEPT ![c] = {}]
               /\ Goto(c, "fill")
               /\ UNCHANGED result
          ELSE Return(c, NaN) /\ UNCHANGED <<rest, portSet>>
  /\ UNCHANGED <<groups, wish, range, p>>

\* uint16 increment
Inc(n) == (n + 1) % 2^Width

InRangeStrictFaulty(c, r) == p[c] < r.end
InRangeAlwaysFaulty(c, r) == p[c] <= PortMax

\* The condition of both loops: the port has not passed the end of the range.
InRange(c, r) == p[c] <= r.end

\* getNextAvailablePort begins the loop over another range of the groups.
FillRange(c, r) ==
  /\ pc[c] = "fill"
  /\ r \in rest[c]
  /\ p' = [p EXCEPT ![c] = r.start]
  /\ range' = [range EXCEPT ![c] = r]
  /\ rest' = [rest EXCEPT ![c] = @ \ {r}]
  /\ Goto(c, "filling")
  /\ UNCHANGED <<groups, wish, portSet, result, fails>>

\* for p := groupStart; p <= groupEnd; p++ { portSet[p] = true }
Fill(c) ==
  /\ pc[c] = "filling"
  /\ IF InRange(c, range[c])
     THEN /\ portSet' = [portSet EXCEPT ![c] = @ \cup {p[c]}]
          /\ p' = [p EXCEPT ![c] = Inc(@)]
          /\ UNCHANGED pc
     ELSE Goto(c, "fill") /\ UNCHANGED <<portSet, p>>
  /\ UNCHANGED <<groups, wish, range, rest, result, fails>>

ScanRange(c) ==
  /\ pc[c] = "fill"
  /\ rest[c] = {}
  /\ p' = [p EXCEPT ![c] = wish[c].start]
  /\ range' = [range EXCEPT ![c] = [start |-> wish[c].start, end |-> wish[c].end]]
  /\ Goto(c, "scan")
  /\ UNCHANGED <<groups, wish, rest, portSet, result, fails>>

\* for i := start; i <= end; i++: the first port not in portSet, or the error
\* PortRangeExhaustedError.
Scan(c) ==
  /\ pc[c] = "scan"
  /\ IF ~InRange(c, range[c]) THEN Return(c, NaN) /\ UNCHANGED p
     ELSE /\ IF p[c] \in portSet[c]
             THEN p' = [p EXCEPT ![c] = Inc(@)] /\ UNCHANGED pc
             ELSE Goto(c, "lookup") /\ UNCHANGED p
          /\ UNCHANGED result
  /\ UNCHANGED <<groups, wish, range, rest, portSet, fails>>

\* RouterGroupWithName.  An error counts as "there is no such group".
Lookup(c) ==
  /\ pc[c] = "lookup"
  /\ \E failed \in BOOLEAN :
       /\ MayFail(failed)
       /\ Goto(c, IF ListRouterGroups(wish[c].name, failed).code = 200
                  THEN "update" ELSE "create")
  /\ UNCHANGED <<groups, localVars, result>>

Reserved(c) == <<<<p[c]>>>>

\* The server lets the ports of group n be set: it is there and not of type http.
Updatable(n) == n \in Present /\ groups[n] # <<>>

UpdateUncheckedFaulty(c) ==
  /\ pc[c] \in {"update", "gone"}
  /\ Return(c, p[c])
  /\ groups' = IF Updatable(wish[c].name) /\ Validate(Reserved(c))
               THEN [groups EXCEPT ![wish[c].name] = Reserved(c)] ELSE groups
  /\ UNCHANGED <<localVars, fails>>

\* UpdateRouterGroup, by the guid looked up: a group of the same name created since
\* is another one, and the update fails.  The server validates the ports.
Update(c) ==
  /\ pc[c] \in {"update", "gone"}
  /\ IF pc[c] = "update" /\ Updatable(wish[c].name) /\ Validate(Reserved(c))
     THEN /\ groups' = [groups EXCEPT ![wish[c].name] = Reserved(c)]
          /\ Return(c, p[c])
     ELSE Return(c, NaN) /\ UNCHANGED groups
  /\ UNCHANGED <<localVars, fails>>

\* CreateRouterGroup: the server answers 200 with the existing group when there
\* is one of that name and type, and the client does not look at the answer.  A
\* group of that name and type http keeps the new one from being inserted.
Create(c) ==
  /\ pc[c] = "create"
  /\ \/ /\ wish[c].name \in Present
        /\ Return(c, IF groups[wish[c].name] = <<>> THEN NaN ELSE p[c])
        /\ UNCHANGED groups
     \/ /\ wish[c].name \notin Present
        /\ IF Validate(Reserved(c))
           THEN /\ groups' = [groups EXCEPT ![wish[c].name] = Reserved(c)]
                /\ Return(c, p[c])
           ELSE Return(c, NaN) /\ UNCHANGED groups
  /\ UNCHANGED <<localVars, fails>>

\* A request fails; a write may have been done although its answer is lost.
RequestFails(c) ==
  /\ fails < MaxFails
  /\ fails' = fails + 1
  /\ pc[c] \in {"update", "gone", "create"}
  /\ Return(c, NaN)
  /\ \/ UNCHANGED groups
     \/ /\ \/ pc[c] = "update" /\ Updatable(wish[c].name)
           \/ pc[c] = "create" /\ wish[c].name \notin Present
        /\ Validate(Reserved(c))
        /\ groups' = [groups EXCEPT ![wish[c].name] = Reserved(c)]
  /\ UNCHANGED localVars

\* Someone deletes a router group; no guid comes back.
DeleteGroup(n) ==
  /\ n \in Present
  /\ fails < MaxFails
  /\ fails' = fails + 1
  /\ groups' = [groups EXCEPT ![n] = Absent]
  /\ pc' = [c \in Clients |-> IF pc[c] = "update" /\ wish[c].name = n
                               THEN "gone" ELSE pc[c]]
  /\ UNCHANGED <<localVars, result>>

Step(c) ==
  \/ ListGroups(c) \/ Fill(c) \/ ScanRange(c) \/ Scan(c)
  \/ Lookup(c) \/ Update(c) \/ Create(c)
  \/ \E r \in rest[c] : FillRange(c, r)

Next ==
  \/ \E c \in Clients, n \in Names, text \in Wishes : ReservePort(c, n, text)
  \/ \E c \in Clients : Step(c) \/ RequestFails(c)
  \/ \E n \in Names : DeleteGroup(n)

Spec == Init /\ [][Next]_vars

\* A call goes on until it returns.
FairSpec == Spec /\ \A c \in Clients : WF_vars(Step(c))

-----------------------------------------------------------------------------
(* Properties.                                                              *)

HasPort(n, q) ==
  n \in Present /\ \E i \in 1..Len(groups[n]) : q \in PortsOf(Parse(groups[n])[i])

\* getNextAvailablePort: the port about to be written is in the range asked for
\* and, with one caller, no group has it.
ChosenIsFree ==
  \A c \in Clients : pc[c] \in {"lookup", "update", "create"} =>
    /\ wish[c].start <= p[c] /\ p[c] <= wish[c].end
    /\ \A n \in Names : ~HasPort(n, p[c])

\* ReservePort: the port it returns has just been written to the group asked
\* for, unless the lookup missed a group of that name, which then keeps its ports.
ReturnedIsWritten ==
  [][\A c \in Clients : result[c] = NaN /\ result'[c] # NaN =>
       \/ groups'[wish[c].name] = <<<<result'[c]>>>>
       \/ pc[c] = "create" /\ wish[c].name \in Present]_vars

\* ReservePort returns: "returns a port range exhausted error" or "the next
\* available port in the range" (client_test.go).
ReservePortReturns == \A c \in Clients : pc[c] # "idle" ~> pc[c] = "idle"

=============================================================================
