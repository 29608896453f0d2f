----------------------------- MODULE ClientProofs -----------------------------
(***************************************************************************)
(* Proofs about the Go client and what it meets: PortReservation and       *)
(* Subscribers.                                                            *)
(*                                                                         *)
(* ReservePort for any groups, any failures and port numbers of any width. *)
(* The first loop keeps every port of every group in sight (Covered): it   *)
(* is in portSet, in a range still to be looped over or ahead of the loop  *)
(* variable, even where that wraps around.  The second loop stays in the   *)
(* range asked for as long as the range ends below the largest port.       *)
(* Between the two, groups can only go while nobody else writes any, hence *)
(* the assumption of one caller.                                           *)
(*                                                                         *)
(* The subscription gauge counts the open streams because a connection the *)
(* event source lets go of is never one whose request is still on its way: *)
(* the invariant ties the source's state to its stream's (ConnInv).        *)
(***************************************************************************)
EXTENDS PortReservation, Subscribers, FiniteSetTheorems, TLAPS

(* ReservePort.                                                             *)

\* One goroutine at a time calls ReservePort.
SoleCaller == \A c, d \in Clients : c = d

\* No range asked for ends with the largest port.
WishesEndLow ==
  \A text \in Wishes :
    ParseOK(text) /\ Len(text) = 1 => Parse(text)[1].end < PortMax

Span == [start: Port, end: Port]

\* A name, or none before the first call.
WishName == Names \cup {""}

TypeOK ==
  /\ groups \in [Names -> Seq(Seq(Int)) \cup {Absent}]
  /\ pc \in [Clients -> {"idle", "list", "fill", "filling", "scan", "lookup",
                         "update", "gone", "create"}]
  /\ wish \in [Clients -> [name: WishName, start: Port, end: Port]]
  /\ range \in [Clients -> Span]
  /\ rest \in [Clients -> SUBSET Span]
  /\ portSet \in [Clients -> SUBSET Port]
  /\ p \in [Clients -> Port]
  /\ result \in [Clients -> Port \cup {NaN}]
  /\ \A c \in Clients : pc[c] # "idle" => wish[c].name \in Names

Taken == {q \in Port : \E n \in Names : HasPort(n, q)}

\* The first loop has still to reach port q.
Ahead(c, q) ==
  \/ \E r \in rest[c] : q \in PortsOf(r)
  \/ pc[c] = "filling" /\ q \in p[c]..range[c].end

\* getNextAvailablePort, first loop: no port of a group is forgotten.
Covered(c) ==
  /\ pc[c] \in {"fill", "filling"} =>
       \A q \in Taken : q \in portSet[c] \/ Ahead(c, q)
  /\ pc[c] \in {"scan", "lookup", "update", "create"} => Taken \subseteq portSet[c]

\* getNextAvailablePort, second loop.
Scanned(c) ==
  /\ pc[c] # "idle" => wish[c].end < PortMax
  /\ pc[c] \in {"scan", "lookup", "update", "create"} => wish[c].start <= p[c]
  /\ pc[c] = "scan" => range[c].end = wish[c].end
  /\ pc[c] \in {"lookup", "update", "create"} =>
       p[c] <= wish[c].end /\ p[c] \notin portSet[c]

IInv == \A c \in Clients : Covered(c) /\ Scanned(c)

-----------------------------------------------------------------------------
(* Ports and types.                                                         *)

LEMMA PortNumbers == PortMax \in Nat /\ 2^Width = PortMax + 1
<1>1. 2^Width \in Int
  BY PortsAssumption DEF PortsAssumption
<1> QED
  BY <1>1, PortsAssumption DEF PortsAssumption, PortMax

\* uint16 increment: the largest port is followed by 0.
LEMMA IncPort ==
  ASSUME NEW n \in Port
  PROVE  /\ Inc(n) \in Port
         /\ n < PortMax => Inc(n) = n + 1
<1> DEFINE w == PortMax + 1
<1>1. w \in Nat /\ w > 0 /\ n \in 0..PortMax
  BY PortNumbers DEF Port
<1> HIDE DEF w
<1>2. (n + 1) % w \in 0..(w - 1) /\ (n + 1 < w => (n + 1) % w = n + 1)
  BY <1>1
<1> QED
  BY <1>2, PortNumbers DEF w, Inc, Port

\* parseRange: the ends of a range are ports.
LEMMA ParsedEnds ==
  ASSUME NEW t \in Seq(Seq(Int)), ParseOK(t), NEW i \in 1..Len(t)
  PROVE  Parse(t)[i] \in Span
<1>1. t[i] \in Seq(Int) /\ RangeOK(t[i])
  BY DEF ParseOK
<1> DEFINE n == Len(t[i])
<1>2. n \in {1, 2}
  BY <1>1, Zenon DEF RangeOK
<1> HIDE DEF n
<1>3. 1 \in 1..n /\ n \in 1..n
  BY <1>2
<1>4. RangeOf(t[i]) \in Span
  BY <1>1, <1>3, Zenon DEF n, RangeOK, RangeOf, Span
<1> QED
  BY <1>4, Zenon DEF Parse

LEMMA TypeInit == Init => TypeOK
<1> SUFFICES ASSUME Init PROVE TypeOK
  OBVIOUS
<1>1. 0 \in Port
  BY PortNumbers DEF Port
<1>2. wish \in [Clients -> [name: WishName, start: Port, end: Port]]
  <2>1. "" \in WishName
    BY Zenon DEF WishName
  <2> QED
    BY <1>1, <2>1, Zenon DEF Init
<1>3. /\ groups \in Initial /\ pc = [c \in Clients |-> "idle"]
      /\ range = [c \in Clients |-> [start |-> 0, end |-> 0]]
      /\ rest = [c \in Clients |-> {}] /\ portSet = [c \in Clients |-> {}]
      /\ p = [c \in Clients |-> 0] /\ result = [c \in Clients |-> NaN]
  BY Zenon DEF Init
<1> QED
  BY <1>1, <1>2, <1>3, ReservationAssumption, Zenon DEF TypeOK, Span

\* The group asked for gets the port, as Update, Create and a write whose answer
\* is lost leave it.
LEMMA WrittenTyped ==
  ASSUME TypeOK, NEW c \in Clients, pc[c] # "idle"
  PROVE  /\ [groups EXCEPT ![wish[c].name] = Reserved(c)]
              \in [Names -> Seq(Seq(Int)) \cup {Absent}]
         /\ [groups EXCEPT ![wish[c].name] = Reserved(c)][wish[c].name] = Reserved(c)
<1>1. p[c] \in Int
  BY PortNumbers DEF TypeOK, Port
<1>2. Reserved(c) \in Seq(Seq(Int))
  BY <1>1 DEF Reserved
<1>3. wish[c].name \in Names
  BY Zenon DEF TypeOK
<1> QED
  BY <1>2, <1>3, Zenon DEF TypeOK

\* The ranges of all groups, as RouterGroups answers them.
AllRanges ==
  UNION {{Parse(t)[i] : i \in 1..Len(t)} : t \in {groups[n] : n \in Present}}

\* The answer has arrived and its texts parse.
Listed(c) ==
  /\ \A n \in Present : ParseOK(groups[n])
  /\ rest' = [rest EXCEPT ![c] = AllRanges]
  /\ portSet' = [portSet EXCEPT ![c] = {}]
  /\ pc' = [pc EXCEPT ![c] = "fill"]
  /\ UNCHANGED result

LEMMA ListAnswer ==
  ASSUME NEW c \in Clients, ListGroups(c)
  PROVE  Listed(c) \/ (Return(c, NaN) /\ UNCHANGED <<rest, portSet>>)
<1> DEFINE texts == {groups[n] : n \in Present}
           answer(failed) == ListRouterGroups("", failed)
           ok(failed) == /\ answer(failed).code = 200
                         /\ \A t \in answer(failed).groups : t # <<>> /\ ParseOK(t)
<1>1. answer(TRUE) = [code |-> 503, groups |-> {}]
  BY Zenon DEF ListRouterGroups, ReadRouterGroups
<1>2. answer(FALSE) = [code |-> 200, groups |-> texts]
  BY ZenonT(60) DEF ListRouterGroups, ReadRouterGroups
<1>3. PICK failed \in BOOLEAN :
        IF ok(failed)
        THEN /\ rest' = [rest EXCEPT ![c] = UNION {{Parse(t)[i] : i \in 1..Len(t)} :
                                                     t \in answer(failed).groups}]
             /\ portSet' = [portSet EXCEPT ![c] = {}]
             /\ pc' = [pc EXCEPT ![c] = "fill"]
             /\ UNCHANGED result
        ELSE Return(c, NaN) /\ UNCHANGED <<rest, portSet>>
  BY ZenonT(60) DEF ListGroups, Goto
<1>4. answer(TRUE).code # 200 /\ answer(FALSE).groups = texts
  <2> DEFINE n == answer(TRUE).code
             r == [code |-> 503, groups |-> {}]
             s == [code |-> 200, groups |-> texts]
  <2>1. n = r.code
    BY <1>1, ZenonT(60)
  <2>2. answer(FALSE).groups = s.groups
    BY <1>2, Zenon
  <2>3. s.groups = texts
    BY DEF s
  <2> HIDE DEF n
  <2>4. n # 200
    BY <2>1
  <2> QED
    BY <2>2, <2>3, <2>4, Zenon DEF n
<1>5. CASE ok(failed)
  <2>1. failed = FALSE
    BY <1>4, <1>5, Zenon
  <2>2. \A t \in texts : ParseOK(t)
    BY <1>4, <1>5, <2>1, Zenon
  <2>3. /\ rest' = [rest EXCEPT ![c] = UNION {{Parse(t)[i] : i \in 1..Len(t)} :
                                                 t \in answer(failed).groups}]
        /\ portSet' = [portSet EXCEPT ![c] = {}]
        /\ pc' = [pc EXCEPT ![c] = "fill"]
        /\ UNCHANGED result
    BY <1>3, <1>5, Zenon
  <2>4. answer(failed).groups = texts
    BY <1>4, <2>1, Zenon
  <2>5. rest' = [rest EXCEPT ![c] = AllRanges]
    BY <2>3, <2>4, Zenon DEF AllRanges
  <2> QED
    BY <2>2, <2>3, <2>5, Zenon DEF Listed
<1>6. CASE ~ok(failed)
  BY <1>3, <1>6, Zenon
<1> QED
  BY <1>5, <1>6, Zenon

LEMMA TypeNext == TypeOK /\ [Next]_vars => TypeOK'
<1> SUFFICES ASSUME TypeOK, [Next]_vars PROVE TypeOK'
  OBVIOUS
<1> USE DEF localVars, Goto, Return
<1>1. CASE UNCHANGED vars
  BY <1>1, Zenon DEF vars, TypeOK
<1>2. ASSUME NEW c \in Clients, NEW n \in Names, NEW text \in Wishes,
             ReservePort(c, n, text)
      PROVE  TypeOK'
  <2>1. Parse(text)[1] \in Span
    <3>1. text \in Seq(Seq(Int)) /\ ParseOK(text) /\ Len(text) = 1
      BY <1>2, ReservationAssumption DEF ReservePort
    <3>2. 1 \in 1..Len(text)
      BY <3>1
    <3> QED
      BY <3>1, <3>2, ParsedEnds, Zenon
  <2>2. [name |-> n, start |-> Parse(text)[1].start, end |-> Parse(text)[1].end]
          \in [name: WishName, start: Port, end: Port]
    BY <2>1, ZenonT(60) DEF Span, WishName
  <2>3. /\ wish' = [wish EXCEPT ![c] = [name |-> n, start |-> Parse(text)[1].start,
                                        end |-> Parse(text)[1].end]]
        /\ pc' = [pc EXCEPT ![c] = "list"]
        /\ result' = [result EXCEPT ![c] = NaN]
        /\ UNCHANGED <<groups, range, rest, portSet, p>>
    BY <1>2, Zenon DEF ReservePort
  <2> QED
    BY <2>2, <2>3, Zenon DEF TypeOK
<1>3. ASSUME NEW c \in Clients, ListGroups(c) PROVE TypeOK'
  <2>1. UNCHANGED <<groups, wish, range, p>> /\ pc[c] = "list"
    BY <1>3, Zenon DEF ListGroups
  <2>2. CASE Listed(c)
    <3>1. AllRanges \subseteq Span
      <4> SUFFICES ASSUME NEW n \in Present, NEW i \in 1..Len(groups[n])
                   PROVE  Parse(groups[n])[i] \in Span
        BY DEF AllRanges
      <4>1. groups[n] \in Seq(Seq(Int)) /\ ParseOK(groups[n])
        BY <2>2, Zenon DEF Listed, Present, TypeOK
      <4> QED
        BY <4>1, ParsedEnds, Zenon
    <3> QED
      BY <2>1, <2>2, <3>1, Zenon DEF Listed, TypeOK
  <2>3. CASE Return(c, NaN) /\ UNCHANGED <<rest, portSet>>
    BY <2>1, <2>3, Zenon DEF TypeOK
  <2> QED
    BY <1>3, <2>2, <2>3, ListAnswer, Zenon
<1>4. ASSUME NEW c \in Clients, NEW r \in rest[c], FillRange(c, r) PROVE TypeOK'
  <2>1. r \in Span
    BY Zenon DEF TypeOK
  <2>2. /\ p' = [p EXCEPT ![c] = r.start] /\ range' = [range EXCEPT ![c] = r]
        /\ rest' = [rest EXCEPT ![c] = rest[c] \ {r}]
        /\ pc[c] = "fill" /\ pc' = [pc EXCEPT ![c] = "filling"]
        /\ UNCHANGED <<groups, wish, portSet, result>>
    BY <1>4, Zenon DEF FillRange
  <2>3. r.start \in Port
    BY <2>1, Zenon DEF Span
  <2> QED
    BY <2>1, <2>2, <2>3, Zenon DEF TypeOK
<1>5. ASSUME NEW c \in Clients, Fill(c) PROVE TypeOK'
  <2>1. UNCHANGED <<groups, wish, range, rest, result>> /\ pc[c] = "filling"
    BY <1>5, Zenon DEF Fill
  <2>2. CASE InRange(c, range[c])
    <3>1. /\ portSet' = [portSet EXCEPT ![c] = portSet[c] \cup {p[c]}]
          /\ p' = [p EXCEPT ![c] = Inc(p[c])]
          /\ UNCHANGED pc
      BY <1>5, <2>2, Zenon DEF Fill
    <3>2. p[c] \in Port /\ Inc(p[c]) \in Port
      BY IncPort, Zenon DEF TypeOK
    <3> QED
      BY <2>1, <3>1, <3>2, Zenon DEF TypeOK
  <2>3. CASE ~InRange(c, range[c])
    BY <1>5, <2>1, <2>3, Zenon DEF Fill, TypeOK
  <2> QED
    BY <2>2, <2>3, Zenon
<1>6. ASSUME NEW c \in Clients, ScanRange(c) PROVE TypeOK'
  BY <1>6, Zenon DEF ScanRange, TypeOK, Span
<1>7. ASSUME NEW c \in Clients, Scan(c) PROVE TypeOK'
  <2>1. UNCHANGED <<groups, wish, range, rest, portSet>> /\ pc[c] = "scan"
    BY <1>7, Zenon DEF Scan
  <2>2. \/ p' = p
        \/ p' = [p EXCEPT ![c] = Inc(p[c])]
    BY <1>7, Zenon DEF Scan
  <2>3. \/ pc' = pc
        \/ \E l \in {"idle", "lookup"} : pc' = [pc EXCEPT ![c] = l]
    BY <1>7, Zenon DEF Scan
  <2>4. result' \in {result, [result EXCEPT ![c] = NaN]}
    BY <1>7, Zenon DEF Scan
  <2>5. p' \in [Clients -> Port]
    BY <2>2, IncPort DEF TypeOK
  <2>6. /\ pc' \in [Clients -> {"idle", "list", "fill", "filling", "scan", "lookup",
                                "update", "gone", "create"}]
        /\ \A d \in Clients : pc'[d] # "idle" => pc[d] # "idle"
    BY <2>1, <2>3, Zenon DEF TypeOK
  <2> QED
    BY <2>1, <2>4, <2>5, <2>6, Zenon DEF TypeOK
<1>8. ASSUME NEW c \in Clients, Lookup(c) PROVE TypeOK'
  BY <1>8, SMTT(60) DEF Lookup, TypeOK
<1>9. ASSUME NEW c \in Clients, Update(c) \/ Create(c) \/ RequestFails(c) PROVE TypeOK'
  <2>1. /\ pc[c] # "idle" /\ pc' = [pc EXCEPT ![c] = "idle"]
        /\ UNCHANGED <<wish, range, rest, portSet, p>>
    BY <1>9, Zenon DEF Update, Create, RequestFails
  <2>2. \/ result' = [result EXCEPT ![c] = p[c]]
        \/ result' = [result EXCEPT ![c] = NaN]
    BY <1>9, Zenon DEF Update, Create, RequestFails
  <2>3. groups' \in {groups, [groups EXCEPT ![wish[c].name] = Reserved(c)]}
    BY <1>9 DEF Update, Create, RequestFails
  <2> QED
    BY <2>1, <2>2, <2>3, WrittenTyped, SMTT(60) DEF TypeOK
<1>10. ASSUME NEW n \in Names, DeleteGroup(n) PROVE TypeOK'
  <2>1. \A c \in Clients : pc'[c] \in {pc[c], "gone"} /\ (pc[c] = "idle" => pc'[c] = "idle")
    BY <1>10, Zenon DEF DeleteGroup
  <2>2. pc' \in [Clients -> {"idle", "list", "fill", "filling", "scan", "lookup",
                             "update", "gone", "create"}]
    BY <1>10, Zenon DEF DeleteGroup, TypeOK
  <2>3. groups' \in [Names -> Seq(Seq(Int)) \cup {Absent}]
    BY <1>10, Zenon DEF DeleteGroup, TypeOK
  <2> QED
    BY <1>10, <2>1, <2>2, <2>3, Zenon DEF DeleteGroup, TypeOK
<1> QED
  BY <1>1, <1>2, <1>3, <1>4, <1>5, <1>6, <1>7, <1>8, <1>9, <1>10, ZenonT(60)
     DEF Next, Step

LEMMA TypeCorrect == Spec => []TypeOK
BY TypeInit, TypeNext, PTL DEF Spec

-----------------------------------------------------------------------------
(* The two loops.                                                           *)

LEMMA InvInit == Init => IInv
<1> SUFFICES ASSUME Init, NEW c \in Clients PROVE Covered(c) /\ Scanned(c)
  BY DEF IInv
<1>1. pc[c] = "idle"
  BY Zenon DEF Init
<1> QED
  BY <1>1 DEF Covered, Scanned

\* Ports are taken by groups alone.
LEMMA TakenUnchanged ==
  ASSUME UNCHANGED groups
  PROVE  Taken' = Taken
BY Zenon DEF Taken, HasPort, Present

\* RouterGroups: the ranges of the answer hold every port of every group.
LEMMA ListInv ==
  ASSUME TypeOK, NEW c \in Clients, Covered(c), Scanned(c), ListGroups(c)
  PROVE  Covered(c)' /\ Scanned(c)'
<1>1. UNCHANGED <<groups, wish, range, p>> /\ pc[c] = "list"
  BY Zenon DEF ListGroups
<1>2. CASE Listed(c)
  <2>1. pc'[c] = "fill" /\ rest'[c] = AllRanges
    BY <1>2, Zenon DEF Listed, TypeOK
  <2>2. ASSUME NEW q \in Taken PROVE \E r \in AllRanges : q \in PortsOf(r)
    <3>1. PICK n \in Present :
            \E i \in 1..Len(groups[n]) : q \in PortsOf(Parse(groups[n])[i])
      BY Zenon DEF Taken, HasPort
    <3>2. \A i \in 1..Len(groups[n]) : Parse(groups[n])[i] \in AllRanges
      BY DEF AllRanges
    <3> QED
      BY <3>1, <3>2, Zenon
  <2>3. Covered(c)'
    BY <1>1, <2>1, <2>2, TakenUnchanged, Zenon DEF Covered, Ahead
  <2>4. Scanned(c)'
    BY <1>1, <2>1, Zenon DEF Scanned
  <2> QED
    BY <2>3, <2>4, Zenon
<1>3. CASE Return(c, NaN)
  <2>1. pc'[c] = "idle"
    BY <1>3, Zenon DEF Return, Goto, TypeOK
  <2> QED
    BY <2>1, Zenon DEF Covered, Scanned
<1> QED
  BY <1>2, <1>3, ListAnswer, Zenon

\* getNextAvailablePort, first loop: a range moves from rest to the loop variable,
\* and a port from there to portSet.  The loop over a range that ends with the
\* largest port begins again at 0 and never ends, but forgets no port either.
LEMMA FillInv ==
  ASSUME TypeOK, NEW c \in Clients, Covered(c), Scanned(c),
         Fill(c) \/ \E r \in rest[c] : FillRange(c, r)
  PROVE  Covered(c)' /\ Scanned(c)'
<1> USE DEF Goto
<1>1. UNCHANGED <<groups, wish>> /\ pc[c] \in {"fill", "filling"}
  BY Zenon DEF Fill, FillRange
<1>2. ASSUME NEW r \in rest[c], FillRange(c, r) PROVE Covered(c)' /\ Scanned(c)'
  <2>1. /\ pc[c] = "fill" /\ pc'[c] = "filling" /\ p'[c] = r.start /\ range'[c] = r
        /\ rest'[c] = rest[c] \ {r} /\ portSet'[c] = portSet[c]
    BY <1>2 DEF FillRange, TypeOK
  <2>2. ASSUME NEW q, Ahead(c, q) PROVE Ahead(c, q)'
    BY <2>1, <2>2, Zenon DEF Ahead, PortsOf
  <2> QED
    BY <1>1, <2>1, <2>2, TakenUnchanged, ZenonT(60) DEF Covered, Scanned
<1>3. CASE Fill(c) /\ InRange(c, range[c])
  <2>1. /\ pc[c] = "filling" /\ pc'[c] = "filling" /\ p'[c] = Inc(p[c])
        /\ range'[c] = range[c] /\ rest'[c] = rest[c]
        /\ portSet'[c] = portSet[c] \cup {p[c]}
    BY <1>3, Zenon DEF Fill, TypeOK
  <2>2. p[c] \in Port /\ range[c].end \in Port
    BY ZenonT(60) DEF TypeOK, Span
  <2>3. ASSUME NEW q \in p[c]..range[c].end
        PROVE  q = p[c] \/ q \in p'[c]..range'[c].end
    <3>1. PortMax \in Nat /\ p[c] \in 0..PortMax /\ range[c].end \in 0..PortMax
      BY <2>2, PortNumbers, ZenonT(60) DEF Port
    <3>2. CASE p[c] < PortMax
      BY <2>1, <2>2, <3>1, <3>2, IncPort, SMTT(60)
    <3>3. CASE p[c] = PortMax
      BY <3>1, <3>3
    <3> QED
      BY <3>1, <3>2, <3>3
  <2>4. ASSUME NEW q, Ahead(c, q) PROVE q = p[c] \/ Ahead(c, q)'
    BY <2>1, <2>3, <2>4, Zenon DEF Ahead, PortsOf
  <2> QED
    BY <1>1, <2>1, <2>4, TakenUnchanged, Zenon DEF Covered, Scanned
<1>4. CASE Fill(c) /\ ~InRange(c, range[c])
  <2>1. /\ pc[c] = "filling" /\ pc'[c] = "fill"
        /\ rest'[c] = rest[c] /\ portSet'[c] = portSet[c]
    BY <1>4, Zenon DEF Fill, TypeOK
  <2>2. p[c]..range[c].end = {}
    <3>1. p[c] \in Int /\ range[c].end \in Int
      BY PortNumbers DEF TypeOK, Span, Port
    <3> QED
      BY <1>4, <3>1 DEF InRange
  <2>3. ASSUME NEW q, Ahead(c, q) PROVE Ahead(c, q)'
    BY <2>1, <2>2, <2>3, Zenon DEF Ahead, PortsOf
  <2> QED
    BY <1>1, <2>1, <2>3, TakenUnchanged, Zenon DEF Covered, Scanned
<1> QED
  BY <1>2, <1>3, <1>4, Zenon

\* getNextAvailablePort, second loop: it does not wrap around, because the range
\* ends below the largest port.
LEMMA ScanInv ==
  ASSUME TypeOK, NEW c \in Clients, Covered(c), Scanned(c),
         ScanRange(c) \/ Scan(c) \/ Lookup(c)
  PROVE  Covered(c)' /\ Scanned(c)'
<1> USE DEF Goto, Return, localVars
<1>1. UNCHANGED <<groups, wish, portSet>> /\ pc[c] # "idle"
  BY Zenon DEF ScanRange, Scan, Lookup
<1>2. p[c] \in Int /\ p[c] \in Port /\ wish[c].end \in Int /\ wish[c].start \in Int
  BY PortNumbers, SMTT(60) DEF TypeOK, Port
<1>3. CASE ScanRange(c)
  <2>1. /\ pc[c] = "fill" /\ rest[c] = {} /\ pc'[c] = "scan" /\ p'[c] = wish[c].start
        /\ range'[c].end = wish[c].end
    BY <1>3, Zenon DEF ScanRange, TypeOK
  <2>2. Taken \subseteq portSet[c]
    BY <2>1, Zenon DEF Covered, Ahead
  <2> QED
    BY <1>1, <1>2, <2>1, <2>2, TakenUnchanged, SMTT(60) DEF Covered, Scanned
<1>4. CASE Scan(c)
  <2>1. /\ pc[c] = "scan" /\ range' = range
        /\ \/ pc'[c] = "idle"
           \/ pc'[c] = "scan" /\ InRange(c, range[c]) /\ p'[c] = Inc(p[c])
           \/ /\ pc'[c] = "lookup" /\ InRange(c, range[c]) /\ p'[c] = p[c]
              /\ p[c] \notin portSet[c]
    BY <1>4, ZenonT(60) DEF Scan, TypeOK
  <2>2. InRange(c, range[c]) => p[c] <= wish[c].end /\ Inc(p[c]) = p[c] + 1
    BY <1>2, <2>1, IncPort, PortNumbers, SMTT(60) DEF InRange, Scanned
  <2>3. Covered(c)'
    BY <1>1, <2>1, TakenUnchanged, ZenonT(60) DEF Covered
  <2>4. Scanned(c)'
    BY <1>1, <1>2, <2>1, <2>2, SMTT(60) DEF Scanned
  <2> QED
    BY <2>3, <2>4, Zenon
<1>5. CASE Lookup(c)
  <2>1. pc[c] = "lookup" /\ p' = p
    BY <1>5, Zenon DEF Lookup
  <2>2. \E l \in {"update", "create"} : pc' = [pc EXCEPT ![c] = l]
    BY <1>5, Zenon DEF Lookup
  <2>3. pc'[c] \in {"update", "create"}
    BY <2>2 DEF TypeOK
  <2> QED
    BY <1>1, <2>1, <2>3, TakenUnchanged, ZenonT(60) DEF Covered, Scanned
<1> QED
  BY <1>3, <1>4, <1>5, Zenon

LEMMA InvNext ==
  ASSUME SoleCaller, WishesEndLow
  PROVE  TypeOK /\ IInv /\ [Next]_vars => IInv'
<1> SUFFICES ASSUME TypeOK, IInv, [Next]_vars, NEW c \in Clients
             PROVE  Covered(c)' /\ Scanned(c)'
  BY Zenon DEF IInv
<1> USE DEF localVars, Goto, Return
<1>1. Covered(c) /\ Scanned(c)
  BY Zenon DEF IInv
<1>2. CASE UNCHANGED vars
  BY <1>1, <1>2, TakenUnchanged, Zenon DEF vars, Covered, Scanned, Ahead
<1>3. ASSUME NEW n \in Names, NEW text \in Wishes, ReservePort(c, n, text)
      PROVE  Covered(c)' /\ Scanned(c)'
  <2>1. pc'[c] = "list" /\ wish'[c].end = Parse(text)[1].end
    BY <1>3, Zenon DEF ReservePort, TypeOK
  <2>2. Parse(text)[1].end < PortMax
    BY <1>3, Zenon DEF ReservePort, WishesEndLow
  <2> QED
    BY <2>1, <2>2, Zenon DEF Covered, Scanned
<1>4. CASE Update(c) \/ Create(c) \/ RequestFails(c)
  <2>1. pc'[c] = "idle"
    BY <1>4, Zenon DEF Update, Create, RequestFails, TypeOK
  <2> QED
    BY <2>1, Zenon DEF Covered, Scanned
<1>5. ASSUME NEW n \in Names, DeleteGroup(n) PROVE Covered(c)' /\ Scanned(c)'
  <2>1. UNCHANGED <<wish, range, rest, portSet, p>> /\ pc'[c] \in {pc[c], "gone"}
        /\ (pc[c] = "idle" => pc'[c] = "idle")
    BY <1>5, Zenon DEF DeleteGroup
  <2>2. Taken' \subseteq Taken
    <3>1. \A m \in Names : groups'[m] = groups[m] \/ groups'[m] = Absent
      BY <1>5, Zenon DEF DeleteGroup, TypeOK
    <3> QED
      BY <3>1, Zenon DEF Taken, HasPort, Present
  <2> QED
    BY <1>1, <2>1, <2>2, Zenon DEF Covered, Scanned, Ahead
<1>6. Step(c) => Covered(c)' /\ Scanned(c)'
  BY <1>1, <1>4, ListInv, FillInv, ScanInv, ZenonT(60) DEF Step
<1> QED
  BY <1>2, <1>3, <1>4, <1>5, <1>6, ZenonT(60) DEF Next, SoleCaller

-----------------------------------------------------------------------------
(* The theorems.                                                            *)

\* getNextAvailablePort, for any groups and port numbers of any width: with one
\* caller whose ranges end below the largest port, the port it is about to write
\* is in the range asked for and no group has it, whatever fails or is deleted.
THEOREM AlwaysChosenIsFree ==
  ASSUME SoleCaller, WishesEndLow
  PROVE  Spec => []ChosenIsFree
<1>1. TypeOK /\ IInv => ChosenIsFree
  <2> SUFFICES ASSUME TypeOK, IInv, NEW c \in Clients,
                      pc[c] \in {"lookup", "update", "create"}
               PROVE  /\ wish[c].start <= p[c] /\ p[c] <= wish[c].end
                      /\ \A n \in Names : ~HasPort(n, p[c])
    BY Zenon DEF ChosenIsFree
  <2>1. p[c] \in Port /\ p[c] \notin Taken
    BY Zenon DEF IInv, Covered, Scanned, TypeOK
  <2> QED
    BY <2>1, Zenon DEF IInv, Scanned, Taken
<1> QED
  BY <1>1, TypeInit, TypeNext, InvInit, InvNext, PTL DEF Spec

\* ReservePort, for any number of callers: the port it returns has just been
\* written, unless the lookup missed the group.
THEOREM AlwaysReturnedIsWritten == Spec => ReturnedIsWritten
<1>1. TypeOK /\ [Next]_vars =>
        [\A c \in Clients : result[c] = NaN /\ result'[c] # NaN =>
           \/ groups'[wish[c].name] = <<<<result'[c]>>>>
           \/ pc[c] = "create" /\ wish[c].name \in Present]_vars
  <2> SUFFICES ASSUME TypeOK, Next, NEW c \in Clients, result[c] = NaN, result'[c] # NaN
               PROVE  \/ groups'[wish[c].name] = <<<<result'[c]>>>>
                      \/ pc[c] = "create" /\ wish[c].name \in Present
    OBVIOUS
  <2> USE DEF Return, Goto
  <2>1. ASSUME NEW d \in Clients, result' = [result EXCEPT ![d] = NaN] PROVE FALSE
    BY <2>1, Zenon DEF TypeOK
  <2>2. result' # result
    OBVIOUS
  <2>3. PICK d \in Clients : Update(d) \/ Create(d)
    <3>1. ASSUME NEW d \in Clients, ListGroups(d) PROVE FALSE
      BY <2>1, <2>2, <3>1, ListAnswer, Zenon DEF Listed
    <3>2. ASSUME NEW d \in Clients, Scan(d) \/ RequestFails(d) PROVE FALSE
      BY <2>1, <2>2, <3>2, Zenon DEF Scan, RequestFails
    <3>3. ASSUME NEW d \in Clients, NEW n \in Names, NEW text \in Wishes,
                 ReservePort(d, n, text)
          PROVE  FALSE
      BY <2>1, <3>3, Zenon DEF ReservePort
    <3>4. ASSUME NEW d \in Clients,
                 \/ Fill(d) \/ ScanRange(d) \/ Lookup(d)
                 \/ \E r \in rest[d] : FillRange(d, r)
          PROVE  FALSE
      BY <2>2, <3>4, Zenon DEF Fill, ScanRange, Lookup, FillRange
    <3>5. ASSUME NEW n \in Names, DeleteGroup(n) PROVE FALSE
      BY <2>2, <3>5, ZenonT(60) DEF DeleteGroup
    <3> QED
      BY <3>1, <3>2, <3>3, <3>4, <3>5, ZenonT(60) DEF Next, Step
  <2>4. d = c /\ result'[c] = p[c] /\ pc[c] # "idle"
    BY <2>1, <2>3, SMTT(60) DEF Update, Create, TypeOK
  <2>5. \/ groups' = [groups EXCEPT ![wish[c].name] = Reserved(c)]
        \/ pc[c] = "create" /\ wish[c].name \in Present
    BY <2>1, <2>3, <2>4, Zenon DEF Update, Create
  <2> QED
    BY <2>4, <2>5, WrittenTyped, ZenonT(60) DEF Reserved
<1> QED
  BY <1>1, TypeCorrect, PTL DEF Spec, ReturnedIsWritten

-----------------------------------------------------------------------------
(* The reporter, the streams and the client's event source.                 *)

StreamState == {"none", "arrived", "open", "refused", "over"}

\* What the client's side of a connection has to do with the server's: the
\* source reads only from streams that have answered, holds a connection only
\* where it reads or connects, and hangs up only open streams that it has let
\* go of; Close is only called on a source that Connect has returned.
ConnInv ==
  /\ streams \in [Conns -> StreamState]
  /\ conn \in Conns \cup {None}
  /\ hungUp \subseteq {c \in Conns : streams[c] = "open"}
  /\ conn \notin hungUp
  /\ conn # None => streams[conn] # "none"
  /\ conn # None /\ ~Connecting => streams[conn] \in {"open", "over"}
  /\ source \in {"none", "failed", "wait", "subscribeWait"} => conn = None
  /\ source \in {"none", "subscribing", "subscribeWait"} => ~closed

CountInv == subs \in Int /\ early \in Int /\ SubscriptionsCounted

StreamsInv == ConnInv /\ ConnectionsAccounted /\ CountInv

USE DEF watchVars, tableVars, statVars, clientVars

\* One stream more, one less, and as many.
LEMMA OpenFinite == IsFiniteSet(Open) /\ Cardinality(Open) \in Nat
<1>1. IsFiniteSet(Open)
  BY SubscribersAssumption, FS_Subset, Zenon DEF Open
<1>2. QED
  BY <1>1, FS_CardinalityType, Zenon

LEMMA OneMore ==
  ASSUME CountInv, NEW c \in Conns, c \notin Open, Open' = Open \cup {c},
         subs' = subs + 1, early' = early
  PROVE  CountInv'
<1>1. Cardinality(Open \cup {c}) = Cardinality(Open) + 1
  BY OpenFinite, FS_AddElement, Zenon
<1>2. QED
  BY <1>1, OpenFinite DEF CountInv, SubscriptionsCounted

LEMMA OneLess ==
  ASSUME CountInv, NEW c \in Conns, c \in Open, Open' = Open \ {c},
         subs' = subs - 1, early' = early
  PROVE  CountInv'
<1>1. Cardinality(Open \ {c}) = Cardinality(Open) - 1
  BY OpenFinite, FS_RemoveElement, Zenon
<1>2. QED
  BY <1>1, OpenFinite DEF CountInv, SubscriptionsCounted

LEMMA AsMany ==
  ASSUME CountInv, Open' = Open, subs' = subs, early' = early
  PROVE  CountInv'
  BY DEF CountInv, SubscriptionsCounted

\* The steps of the table, its events and the reporter.
LEMMA ReporterInv ==
  ASSUME StreamsInv,
         \/ TableStep \/ (\E t \in EventType : Emit(t)) \/ CancelWatches
         \/ ReporterStep \/ ReportTotals \/ UNCHANGED consumerVars
  PROVE  StreamsInv'
<1>1. /\ UNCHANGED <<streams, clientVars>>
      /\ UNCHANGED <<subs, early>> \/ ResetSubscriptions
  BY Zenon
  DEF TableStep, ReporterStep, CreateRow, DeleteRow, UpdateRow, PruneRow,
      RowExpires, Change, Emit, CancelWatches, WatchAll, ResetSubscriptions,
      ReportEvent, ReporterCut, ReportTotals, consumerVars
<1>2. ConnInv' /\ ConnectionsAccounted'
  BY <1>1, Zenon DEF StreamsInv, ConnInv, ConnectionsAccounted, Connecting
<1>3. Open' = Open
  BY <1>1, Zenon DEF Open
<1>4. CASE ResetSubscriptions
  <2>1. subs' = 0 /\ early' = Cardinality(Open)
    BY <1>4, Zenon DEF ResetSubscriptions
  <2>2. CountInv'
    BY <1>3, <2>1, OpenFinite DEF CountInv, SubscriptionsCounted
  <2>3. QED
    BY <1>2, <2>2, Zenon DEF StreamsInv
<1>5. CASE ~ResetSubscriptions
  <2>1. UNCHANGED <<subs, early>>
    BY <1>1, <1>5, Zenon
  <2>2. QED
    BY <1>2, <1>3, <2>1, AsMany, ZenonT(60) DEF StreamsInv
<1>6. QED
  BY <1>4, <1>5, Zenon

\* The streams' handlers.
LEMMA StreamInv ==
  ASSUME StreamsInv, NEW c \in Conns, StreamStep(c) \/ EndStream(c)
  PROVE  StreamsInv'
<1> USE DEF Open, StreamState
<1>1. CASE StartStream(c)
  <2>1. ConnInv' /\ ConnectionsAccounted'
    BY <1>1, Zenon
    DEF StreamsInv, ConnInv, ConnectionsAccounted, Connecting, StartStream
  <2>2. Open' = Open /\ UNCHANGED <<subs, early>>
    BY <1>1, Zenon DEF StreamsInv, ConnInv, StartStream
  <2>3. QED
    BY <2>1, <2>2, AsMany, Zenon DEF StreamsInv
<1>2. CASE RefuseStream(c)
  <2>1. ConnInv' /\ ConnectionsAccounted'
    BY <1>2, Zenon
    DEF StreamsInv, ConnInv, ConnectionsAccounted, Connecting, RefuseStream
  <2>2. c \in Open /\ Open' = Open \ {c} /\ subs' = subs - 1 /\ early' = early
    BY <1>2, Zenon DEF StreamsInv, ConnInv, RefuseStream
  <2>3. QED
    BY <2>1, <2>2, OneLess, Zenon DEF StreamsInv
<1>3. CASE LeaveStream(c)
  <2>1. ConnInv' /\ ConnectionsAccounted'
    BY <1>3, Zenon
    DEF StreamsInv, ConnInv, ConnectionsAccounted, Connecting, LeaveStream
  <2>2. c \in Open /\ Open' = Open \ {c} /\ subs' = subs - 1 /\ early' = early
    BY <1>3, Zenon DEF StreamsInv, ConnInv, LeaveStream
  <2>3. QED
    BY <2>1, <2>2, OneLess, Zenon DEF StreamsInv
<1>4. CASE EndStream(c)
  <2>1. ConnInv' /\ ConnectionsAccounted'
    BY <1>4, Zenon
    DEF StreamsInv, ConnInv, ConnectionsAccounted, Connecting, EndStream
  <2>2. c \in Open /\ Open' = Open \ {c} /\ subs' = subs - 1 /\ early' = early
    BY <1>4, Zenon DEF StreamsInv, ConnInv, EndStream
  <2>3. QED
    BY <2>1, <2>2, OneLess, Zenon DEF StreamsInv
<1>5. QED
  BY <1>1, <1>2, <1>3, <1>4, ZenonT(60) DEF StreamStep

\* A request is sent over a connection nobody uses.
LEMMA SendInv ==
  ASSUME StreamsInv, SendRequest
  PROVE  StreamsInv'
<1>1. conn' \in Conns /\ streams[conn'] = "none"
  BY Zenon DEF SendRequest
<1>2. /\ streams' = [streams EXCEPT ![conn'] = "arrived"] /\ subs' = subs + 1
      /\ Connecting /\ conn = None
      /\ UNCHANGED <<early, source, closed, hungUp>>
  BY Zenon DEF SendRequest, Arrive
<1>3. PICK c \in Conns : c = conn'
  BY <1>1, Zenon
<1>4. ConnInv'
  BY <1>1, <1>2, <1>3, Zenon DEF StreamsInv, ConnInv, Connecting, StreamState
<1>5. ConnectionsAccounted'
  <2>1. \A d \in Conns : streams'[d] # "none" => d = conn' \/ d \in hungUp'
    BY <1>2, <1>3, SubscribersAssumption, Zenon
    DEF StreamsInv, ConnInv, ConnectionsAccounted
  <2>2. closed' => source' = "connecting"
    BY <1>2, Zenon DEF StreamsInv, ConnInv, Connecting
  <2>3. QED
    BY <2>1, <2>2, Zenon DEF ConnectionsAccounted
<1>6. c \notin Open /\ Open' = Open \cup {c}
  BY <1>1, <1>2, <1>3, Zenon DEF StreamsInv, ConnInv, Open
<1>7. QED
  BY <1>2, <1>4, <1>5, <1>6, OneMore, ZenonT(60) DEF StreamsInv

\* A connection that is let go of is not on its way to the server: the count
\* does not change.
LEMMA LetGoInv ==
  ASSUME StreamsInv, conn # None, streams[conn] \in {"open", "over", "refused"},
         LetGo(conn), conn' = None, UNCHANGED <<subs, early>>,
         \/ source' \in {"failed", "over", "wait"}
         \/ source' = source /\ ~Connecting
  PROVE  StreamsInv'
<1>1. conn \in Conns
  BY Zenon DEF StreamsInv, ConnInv
<1>2. ConnInv'
  BY <1>1, SubscribersAssumption, Zenon
  DEF StreamsInv, ConnInv, LetGo, Connecting, StreamState
<1>3. ConnectionsAccounted'
  BY <1>1, Zenon DEF StreamsInv, ConnInv, ConnectionsAccounted, LetGo
<1>4. Open' = Open
  BY <1>1, Zenon DEF StreamsInv, ConnInv, LetGo, Open
<1>5. QED
  BY <1>2, <1>3, <1>4, AsMany, Zenon DEF StreamsInv

\* The source moves on without a connection being opened or closed.
LEMMA SourceMoves ==
  ASSUME StreamsInv, UNCHANGED <<streams, subs, early, conn, hungUp>>,
         conn # None /\ source' \notin {"subscribing", "connecting"} =>
           streams[conn] \in {"open", "over"},
         source' \in {"none", "failed", "wait", "subscribeWait"} => conn = None,
         closed' /\ source' # "connecting" => conn = None,
         source' \in {"none", "subscribing", "subscribeWait"} => ~closed'
  PROVE  StreamsInv'
<1>1. ConnInv' /\ ConnectionsAccounted'
  BY Zenon DEF StreamsInv, ConnInv, ConnectionsAccounted, Connecting
<1>2. Open' = Open
  BY Zenon DEF Open
<1>3. QED
  BY <1>1, <1>2, AsMany, Zenon DEF StreamsInv

LEMMA SourceInv ==
  ASSUME StreamsInv, doSubscribe \/ SourceStep \/ CallNext \/ doClose
  PROVE  StreamsInv'
<1> USE DEF Connecting, Failing, Waiting
<1>1. CASE doSubscribe \/ ConnectFails \/ RetryConnect \/ WaitClosed
  BY <1>1, SourceMoves, SMTT(60)
  DEF StreamsInv, ConnInv, ConnectionsAccounted, doSubscribe, ConnectFails,
      RetryConnect,
      WaitClosed
<1>2. CASE CallNext \/ NextReturns \/ NextEOF
  BY <1>2, SourceMoves
  DEF StreamsInv, ConnInv, ConnectionsAccounted, CallNext, NextReturns, NextEOF
<1>3. CASE SendRequest
  BY <1>3, SendInv, Zenon
<1>4. CASE Refused
  <2>1. /\ conn # None /\ streams[conn] = "refused"
        /\ LetGo(conn) /\ conn' = None
        /\ UNCHANGED <<subs, early>> /\ source' \in {"failed", "over", "wait"}
    BY <1>4, Zenon DEF Refused
  <2>2. QED
    BY <2>1, LetGoInv, Zenon
<1>5. CASE Connected
  <2>1. CASE closed
    <3>1. /\ conn # None /\ streams[conn] \in {"open", "over"} /\ LetGo(conn)
          /\ conn' = None /\ UNCHANGED <<subs, early>> /\ source' = "over"
      BY <1>5, <2>1, Zenon DEF Connected
    <3>2. QED
      BY <3>1, LetGoInv, Zenon
  <2>2. CASE ~closed
    BY <1>5, <2>2, SourceMoves, Zenon
    DEF StreamsInv, ConnInv, ConnectionsAccounted, Connected
  <2>3. QED
    BY <2>1, <2>2, Zenon
<1>6. CASE ReadFails
  <2>1. CASE conn = None
    <3>1. UNCHANGED <<streams, subs, early, conn, hungUp>> /\ source' = "wait"
      BY <1>6, <2>1, Zenon DEF ReadFails
    <3>2. QED
      BY <2>1, <3>1, SourceMoves, Zenon
  <2>2. CASE conn # None
    <3>1. LetGo(conn) /\ source' = "wait" /\ conn' = None /\ source = "reading"
          /\ UNCHANGED <<subs, early>>
      BY <1>6, <2>2, Zenon DEF ReadFails
    <3>2. QED
      BY <2>2, <3>1, LetGoInv, Zenon DEF StreamsInv, ConnInv
  <2>3. QED
    BY <2>1, <2>2, Zenon
<1>7. CASE doClose
  <2>1. CASE conn # None /\ source # "connecting"
    BY <1>7, <2>1, LetGoInv, Zenon DEF StreamsInv, ConnInv, doClose, Held
  <2>2. CASE ~(conn # None /\ source # "connecting")
    BY <1>7, <2>2, SourceMoves, Zenon DEF StreamsInv, ConnInv, doClose, Held
  <2>3. QED
    BY <2>1, <2>2, Zenon
<1>8. QED
  BY <1>1, <1>2, <1>3, <1>4, <1>5, <1>6, <1>7, ZenonT(60) DEF SourceStep

LEMMA SubscribersInvariant == ConsumersSpec => []StreamsInv
<1>1. ConsumersInit => StreamsInv
  <2> SUFFICES ASSUME ConsumersInit PROVE StreamsInv
    OBVIOUS
  <2>1. ConnInv /\ ConnectionsAccounted
    BY SubscribersAssumption, Zenon
    DEF ConsumersInit, ConnInv, ConnectionsAccounted, StreamState, Connecting
  <2>2. Open = {} /\ subs = 0 /\ early = 0
    BY Zenon DEF ConsumersInit, Open
  <2>3. CountInv
    BY <2>2, FS_EmptySet DEF CountInv, SubscriptionsCounted
  <2>4. QED
    BY <2>1, <2>3, Zenon DEF StreamsInv
<1>2. StreamsInv /\ [ConsumersNext]_consumerVars => StreamsInv'
  BY ReporterInv, StreamInv, SourceInv, Zenon DEF ConsumersNext
<1>3. QED
  BY <1>1, <1>2, PTL DEF ConsumersSpec

\* For any number of connections, the subscription gauge is the number of open
\* streams less those the reporter's reset missed (SubscriptionsCounted).
THEOREM SubscriptionsAlwaysCounted == ConsumersSpec => []SubscriptionsCounted
<1>1. StreamsInv => SubscriptionsCounted
  BY Zenon DEF StreamsInv, CountInv
<1>2. QED
  BY <1>1, SubscribersInvariant, PTL

\* For any number of connections, no stream is forgotten by both sides.
THEOREM NoConnectionForgotten == ConsumersSpec => []ConnectionsAccounted
<1>1. StreamsInv => ConnectionsAccounted
  BY DEF StreamsInv
<1>2. QED
  BY <1>1, SubscribersInvariant, PTL

=============================================================================
