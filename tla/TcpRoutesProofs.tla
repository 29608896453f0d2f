---------------------------- MODULE TcpRoutesProofs ---------------------------
(***************************************************************************)
(* Proofs about TcpRoutes, for every set of clients and every set of       *)
(* batches they may send.                                                  *)
(*                                                                         *)
(* A stored mapping is valid because what a request holds between its      *)
(* loops and statements is: TcpInv says so of batches and held rows.  That *)
(* a guid stays one route needs the same of every row stored or about to   *)
(* be written (Fixed).                                                     *)
(***************************************************************************)
EXTENDS TcpRoutes, TLAPS

\* What Upsert's first loop has accepted.
Accepted(m) ==
  /\ m.group \in Groups
  /\ validateTcpRouteMapping(m)
  /\ ValidTtl(m.ttl)

\* A row with the fields of a mapping and what validation asks of them.
ValidRow(r) ==
  /\ r \in [guid: {r.guid}, key: {r.key}, tls: BOOLEAN, alpns: BOOLEAN,
            iso: {r.iso}, left: Int]
  /\ r.alpns => r.tls
  /\ r.key.group \in Groups
  /\ r.key.port > 0
  /\ r.key.ip # None
  /\ r.key.hostPort > 0 \/ r.key.tlsPort \in 1..MaxPort
  /\ r.left <= MaxTTL

\* A request at label l with mappings b, at the one at q, that has read the
\* groups rd and holds h.
Request(l, b, q, rd, h) ==
  /\ b \in Seq(Mapping)
  /\ q \in Nat \ {0}
  /\ l = "idle" => q = 1
  /\ l # "idle" => q <= Len(b)
  /\ rd \subseteq Groups
  /\ l = "validate" =>
       /\ \A i \in 1..Len(b) : b[i].ttl \in Int
       /\ \A i \in 1..(q - 1) : Accepted(b[i])
  /\ l \in {"find", "save", "create"} =>
       \A i \in 1..Len(b) : b[i].ttl \in Int /\ Accepted(b[i])
  /\ l \in {"save", "create"} => ValidRow(h)

TcpInv ==
  /\ DOMAIN pc = Clients /\ DOMAIN batch = Clients /\ DOMAIN pos = Clients
  /\ DOMAIN read = Clients /\ DOMAIN cur = Clients
  /\ groups \subseteq Groups
  /\ \A r \in rows : ValidRow(r)
  /\ \A c \in Clients : Request(pc[c], batch[c], pos[c], read[c], cur[c])

\* SetDefaults leaves a mapping with a time to live.
LEMMA DefaultsTyped ==
  ASSUME NEW m \in Mapping
  PROVE  SetDefaults(m) \in Mapping /\ SetDefaults(m).ttl \in Int
BY ConstantsAssumption DEF Mapping, SetDefaults

\* Rows made of accepted mappings, or of other valid rows, are valid.
LEMMA CreatedValid ==
  ASSUME NEW m \in Mapping, Accepted(m), m.ttl \in Int, NEW g
  PROVE  ValidRow(NewTcpRouteMappingWithModel(g, m))
<1> DEFINE s == StoredKey(m)
           r == NewTcpRouteMappingWithModel(g, m)
<1>1. /\ DOMAIN KeyOf(m) =
           {"group", "port", "sni", "ip", "hostPort", "tlsPort", "mtls"}
      /\ KeyOf(m).group = m.group /\ KeyOf(m).port = m.port
      /\ KeyOf(m).ip = m.ip /\ KeyOf(m).hostPort = m.hostPort
      /\ KeyOf(m).tlsPort = m.tlsPort
  BY Zenon DEF KeyOf
<1>2. /\ s.group = m.group /\ s.port = m.port /\ s.ip = m.ip
      /\ s.hostPort = m.hostPort
      /\ s.tlsPort = IF m.tlsPort = 0 THEN None ELSE m.tlsPort
  BY <1>1, Zenon DEF StoredKey
<1>3. /\ r.guid = g /\ r.key = s /\ r.tls = m.tls /\ r.alpns = m.alpns
      /\ r.iso = m.iso /\ r.left = m.ttl
      /\ r \in [guid: {g}, key: {s}, tls: {m.tls}, alpns: {m.alpns}, iso: {m.iso},
                left: {m.ttl}]
  BY Zenon DEF NewTcpRouteMappingWithModel
<1> HIDE DEF s, r
<1>4. /\ m.port \in Nat /\ m.hostPort \in Nat /\ m.tlsPort \in Int
      /\ m.tls \in BOOLEAN /\ m.alpns \in BOOLEAN
  BY Zenon DEF Mapping
<1>5. /\ s.group \in Groups /\ s.port > 0 /\ s.ip # None
      /\ m.hostPort > 0 \/ m.tlsPort > 0
      /\ m.tlsPort <= MaxPort
      /\ m.ttl <= MaxTTL
  BY <1>2, Zenon DEF Accepted, validateTcpRouteMapping, ValidTtl
<1>6. m.alpns => m.tls
  BY Zenon DEF Accepted, validateTcpRouteMapping
<1>7. s.hostPort > 0 \/ s.tlsPort \in 1..MaxPort
  <2>1. CASE m.tlsPort > 0
    <3>1. MaxPort \in Nat
      BY DEF MaxPort
    <3>2. m.tlsPort \in 1..MaxPort /\ m.tlsPort # 0
      BY <1>4, <1>5, <2>1, <3>1
    <3>3. QED
      BY <1>2, <3>2, Zenon
  <2>2. QED
    BY <1>2, <1>5, <2>1, Zenon
<1>8. r \in [guid: {r.guid}, key: {r.key}, tls: BOOLEAN, alpns: BOOLEAN,
             iso: {r.iso}, left: Int]
  BY <1>3, <1>4, Zenon
<1>9. ValidRow(r)
  BY <1>3, <1>5, <1>6, <1>7, <1>8, Zenon DEF ValidRow
<1>10. QED
  BY <1>9 DEF r

LEMMA UpdatedValid ==
  ASSUME NEW r, ValidRow(r), NEW m, Accepted(m), m.ttl \in Int
  PROVE  ValidRow(updateTcpRouteMapping(r, m))
BY Zenon DEF Accepted, ValidRow, updateTcpRouteMapping, ValidTtl

LEMMA AgedValid ==
  ASSUME NEW r, ValidRow(r)
  PROVE  ValidRow(Aged(r))
BY ConstantsAssumption DEF ValidRow, Aged, Floor, Second

LEMMA SavedOverValid ==
  ASSUME NEW r, ValidRow(r), NEW g
  PROVE  ValidRow([r EXCEPT !.guid = g])
BY DEF ValidRow

\* The other requests are where they were.
OthersKept(c) ==
  /\ DOMAIN pc' = Clients /\ DOMAIN batch' = Clients /\ DOMAIN pos' = Clients
  /\ DOMAIN read' = Clients /\ DOMAIN cur' = Clients
  /\ \A d \in Clients \ {c} :
       /\ pc'[d] = pc[d] /\ batch'[d] = batch[d] /\ pos'[d] = pos[d]
       /\ read'[d] = read[d] /\ cur'[d] = cur[d]

\* A step of one request, which ends valid.
LEMMA OneRequest ==
  ASSUME TcpInv, NEW c \in Clients,
         groups' \subseteq Groups,
         \A r \in rows' : ValidRow(r),
         OthersKept(c),
         Request(pc'[c], batch'[c], pos'[c], read'[c], cur'[c])
  PROVE  TcpInv'
<1>1. \A d \in Clients : Request(pc'[d], batch'[d], pos'[d], read'[d], cur'[d])
  BY Zenon DEF TcpInv, OthersKept
<1>2. QED
  BY <1>1, Zenon DEF TcpInv, OthersKept, ValidRow, Request, Accepted

USE DEF requestVars, pruneVars

\* A request that is answered leaves nothing behind.
LEMMA AnswerValid ==
  ASSUME TcpInv, NEW c \in Clients, Answer(c), groups' \subseteq Groups,
         \A r \in rows' : ValidRow(r)
  PROVE  TcpInv'
<1>1. Request("idle", <<>>, 1, {}, None)
  BY DEF Request
<1>2. /\ OthersKept(c)
      /\ pc'[c] = "idle" /\ batch'[c] = <<>> /\ pos'[c] = 1
      /\ read'[c] = {} /\ cur'[c] = None
  BY DEF TcpInv, OthersKept, Answer
<1>3. QED
  BY <1>1, <1>2, OneRequest, Zenon

\* The loop goes on with the next mapping, which was validated with the others.
LEMMA NextMappingValid ==
  ASSUME TcpInv, NEW c \in Clients, NEW again, NextMapping(c, again),
         pc[c] # "idle",
         \/ again = "findDelete"
         \/ again = "find" /\ pc[c] \in {"save", "create"},
         groups' \subseteq Groups, \A r \in rows' : ValidRow(r)
  PROVE  TcpInv'
<1>1. CASE ~(pos[c] < Len(batch[c]))
  BY <1>1, AnswerValid DEF NextMapping
<1>2. CASE pos[c] < Len(batch[c])
  <2>1. /\ OthersKept(c)
        /\ pc'[c] = again /\ batch'[c] = batch[c] /\ pos'[c] = pos[c] + 1
        /\ read'[c] = read[c] /\ cur'[c] = None
    BY <1>2 DEF TcpInv, OthersKept, NextMapping
  <2>2. Request(pc[c], batch[c], pos[c], read[c], cur[c])
    BY ZenonT(60) DEF TcpInv
  <2>3. Request(again, batch[c], pos[c] + 1, read[c], None)
    BY <1>2, <2>2, SMTT(60) DEF Request
  <2>4. QED
    BY <2>1, <2>3, OneRequest, ZenonT(60)
<1>3. QED
  BY <1>1, <1>2, SMTT(60)

LEMMA UpsertValid ==
  ASSUME TcpInv, NEW c \in Clients, NEW b \in Upserts[c],
         Upsert(c, b)
  PROVE  TcpInv'
<1> DEFINE defaulted == [i \in DOMAIN b |-> SetDefaults(b[i])]
<1>1. b \in Seq(Mapping) /\ b # <<>>
  BY ConstantsAssumption, Zenon DEF Upsert
<1>2. /\ defaulted \in Seq(Mapping) /\ Len(defaulted) >= 1
      /\ \A i \in 1..Len(defaulted) : defaulted[i].ttl \in Int
  <2>1. \A i \in 1..Len(b) : /\ SetDefaults(b[i]) \in Mapping
                             /\ SetDefaults(b[i]).ttl \in Int
    BY <1>1, DefaultsTyped
  <2>2. defaulted \in [1..Len(b) -> Mapping] /\ Len(b) \in Nat /\ Len(b) >= 1
    BY <1>1, <2>1
  <2>3. defaulted \in Seq(Mapping) /\ Len(defaulted) = Len(b)
    BY <2>2
  <2>4. QED
    BY <1>1, <2>1, <2>2, <2>3, Zenon
<1>3. /\ OthersKept(c)
      /\ pc'[c] = "validate" /\ batch'[c] = defaulted /\ pos'[c] = pos[c]
      /\ read'[c] = groups /\ cur'[c] = cur[c]
      /\ UNCHANGED <<groups, rows>> /\ pc[c] = "idle"
  BY Zenon DEF TcpInv, OthersKept, Upsert
<1> HIDE DEF defaulted
<1>4. pos[c] = 1 /\ groups \subseteq Groups
  BY <1>3, ZenonT(60) DEF TcpInv, Request
<1>5. Request("validate", defaulted, pos[c], groups, cur[c])
  BY <1>2, <1>4 DEF Request
<1>6. QED
  BY <1>3, <1>5, OneRequest, Zenon DEF TcpInv

\* The first loop accepts the mapping it is at; after the last one all are.
LEMMA ValidateValid ==
  ASSUME TcpInv, NEW c \in Clients, Validate(c)
  PROVE  TcpInv'
<1>1. Request("validate", batch[c], pos[c], read[c], cur[c]) /\ pc[c] = "validate"
  BY ZenonT(60) DEF TcpInv, Validate
<1>2. /\ batch[c] \in Seq(Mapping) /\ pos[c] \in 1..Len(batch[c])
      /\ read[c] \subseteq Groups
      /\ \A i \in 1..Len(batch[c]) : batch[c][i].ttl \in Int
      /\ \A i \in 1..(pos[c] - 1) : Accepted(batch[c][i])
  BY <1>1 DEF Request
<1>3. Accepted(batch[c][pos[c]])
  BY <1>2, Zenon
  DEF Accepted, Validate, ValidateCreateTcpRouteMapping, Current
<1>4. \A i \in 1..pos[c] : Accepted(batch[c][i])
  <2>1. \A i \in 1..pos[c] : i \in 1..(pos[c] - 1) \/ i = pos[c]
    BY <1>2
  <2>2. QED
    BY <1>2, <1>3, <2>1, Zenon
<1>5. CASE pos[c] < Len(batch[c])
  <2>1. /\ OthersKept(c)
        /\ pc'[c] = "validate" /\ batch'[c] = batch[c] /\ pos'[c] = pos[c] + 1
        /\ read'[c] = read[c] /\ cur'[c] = cur[c]
        /\ UNCHANGED <<groups, rows>>
    BY <1>1, <1>5, Zenon DEF TcpInv, OthersKept, Validate
  <2>2. Request("validate", batch[c], pos[c] + 1, read[c], cur[c])
    <3>1. pos[c] + 1 \in Nat \ {0} /\ pos[c] + 1 <= Len(batch[c])
          /\ (pos[c] + 1) - 1 = pos[c]
      BY <1>2, <1>5
    <3>2. QED
      BY <1>2, <1>4, <3>1, ZenonT(60) DEF Request
  <2>3. QED
    BY <2>1, <2>2, OneRequest, Zenon DEF TcpInv
<1>6. CASE ~(pos[c] < Len(batch[c]))
  <2>1. /\ OthersKept(c)
        /\ pc'[c] = "find" /\ batch'[c] = batch[c] /\ pos'[c] = 1
        /\ read'[c] = {} /\ cur'[c] = cur[c]
        /\ UNCHANGED <<groups, rows>>
    BY <1>1, <1>6, ZenonT(60) DEF TcpInv, OthersKept, Validate
  <2>2. Request("find", batch[c], 1, {}, cur[c])
    <3>1. pos[c] = Len(batch[c]) /\ 1 <= Len(batch[c]) /\ 1 \in Nat \ {0}
      BY <1>2, <1>6
    <3>2. QED
      BY <1>2, <1>4, <3>1, Zenon DEF Request
  <2>3. QED
    BY <2>1, <2>2, OneRequest, Zenon DEF TcpInv
<1>7. QED
  BY <1>5, <1>6, Zenon

\* The row a save holds is made of an accepted mapping.
LEMMA SaveFindValid ==
  ASSUME TcpInv, NEW c \in Clients, SaveFindExisting(c) \/ SaveFindNone(c)
  PROVE  TcpInv'
<1> DEFINE m == batch[c][pos[c]]
<1>1. pc[c] = "find" /\ UNCHANGED <<groups, rows>>
  BY Zenon DEF SaveFindExisting, SaveFindNone
<1>2. /\ Request("find", batch[c], pos[c], read[c], cur[c])
      /\ \A r \in rows : ValidRow(r)
  BY <1>1, ZenonT(60) DEF TcpInv
<1>3. m \in Mapping /\ m.ttl \in Int /\ Accepted(m)
  <2>1. batch[c] \in Seq(Mapping) /\ pos[c] \in 1..Len(batch[c])
    BY <1>2 DEF Request
  <2>2. QED
    BY <1>2, <2>1, SMTT(60) DEF Request
<1>4. ASSUME NEW l \in {"save", "create"}, NEW h, ValidRow(h),
             pc' = [pc EXCEPT ![c] = l], cur' = [cur EXCEPT ![c] = h],
             UNCHANGED <<batch, pos, read>>
      PROVE  TcpInv'
  <2>1. /\ OthersKept(c)
        /\ pc'[c] = l /\ batch'[c] = batch[c] /\ pos'[c] = pos[c]
        /\ read'[c] = read[c] /\ cur'[c] = h
    BY <1>4, Zenon DEF TcpInv, OthersKept
  <2>2. Request(l, batch[c], pos[c], read[c], h)
    BY <1>2, <1>4, Zenon DEF Request
  <2>3. QED
    BY <1>1, <2>1, <2>2, OneRequest, Zenon DEF TcpInv
<1>5. CASE SaveFindExisting(c)
  <2>1. PICK r \in rows :
          cur' = [cur EXCEPT ![c] = updateTcpRouteMapping(r, m)]
    BY <1>5, Zenon DEF SaveFindExisting, Current
  <2>2. ValidRow(updateTcpRouteMapping(r, m))
    BY <1>2, <1>3, UpdatedValid, Zenon
  <2>3. pc' = [pc EXCEPT ![c] = "save"] /\ UNCHANGED <<batch, pos, read>>
    BY <1>5, Zenon DEF SaveFindExisting
  <2>4. QED
    BY <1>4, <2>1, <2>2, <2>3, Zenon
<1>6. CASE SaveFindNone(c)
  <2> DEFINE r == NewTcpRouteMappingWithModel(NewV4, m)
  <2>1. /\ cur' = [cur EXCEPT ![c] = r]
        /\ pc' = [pc EXCEPT ![c] = "create"] /\ UNCHANGED <<batch, pos, read>>
    BY <1>6, Zenon DEF SaveFindNone, Current
  <2>2. ValidRow(r)
    BY <1>3, CreatedValid, Zenon
  <2>3. QED
    BY <1>4, <2>1, <2>2, Zenon
<1>7. QED
  BY <1>5, <1>6, Zenon

\* The row written is the one held, whichever row it replaces.
LEMMA WriteValid ==
  ASSUME TcpInv, NEW c \in Clients, Write(c) \/ SaveOver(c)
  PROVE  TcpInv'
<1>1. /\ pc[c] \in {"save", "create"} /\ groups' = groups
      /\ NextMapping(c, "find")
  BY Zenon DEF Write, SaveOver
<1>2. ValidRow(cur[c]) /\ \A r \in rows : ValidRow(r)
  BY <1>1, Zenon DEF TcpInv, Request
<1>3. \A r \in rows' : ValidRow(r)
  <2>1. CASE Write(c)
    BY <1>2, <2>1, Zenon DEF Write
  <2>2. CASE SaveOver(c)
    <3>1. PICK t \in Conflicting(cur[c]) :
            rows' = (rows \ {t}) \cup {[cur[c] EXCEPT !.guid = t.guid]}
      BY <2>2, Zenon DEF SaveOver
    <3>2. ValidRow([cur[c] EXCEPT !.guid = t.guid])
      BY <1>2, SavedOverValid, Zenon
    <3>3. QED
      BY <1>2, <3>1, <3>2, Zenon
  <2>3. QED
    BY <2>1, <2>2, Zenon
<1>4. groups' \subseteq Groups
  BY <1>1, Zenon DEF TcpInv
<1>5. QED
  BY <1>1, <1>3, <1>4, NextMappingValid, Zenon

\* Deletes take rows away and hold nothing that is written.
LEMMA DeleteValid ==
  ASSUME TcpInv, NEW c \in Clients,
         \/ \E b \in Deletes[c] : Delete(c, b)
         \/ DeleteFindExisting(c) \/ DeleteFindNone(c) \/ DeleteRow(c)
  PROVE  TcpInv'
<1>1. groups' \subseteq Groups /\ \A r \in rows' : ValidRow(r)
  BY Zenon DEF TcpInv, Delete, DeleteFindExisting, DeleteFindNone,
               DeleteRow
<1>2. Request(pc[c], batch[c], pos[c], read[c], cur[c])
  BY Zenon DEF TcpInv
<1>3. ASSUME NEW b \in Deletes[c], Delete(c, b)
      PROVE  TcpInv'
  <2>1. /\ OthersKept(c)
        /\ pc'[c] = "findDelete" /\ batch'[c] = b /\ pos'[c] = pos[c]
        /\ read'[c] = read[c] /\ cur'[c] = cur[c]
        /\ pc[c] = "idle" /\ b # <<>>
    BY <1>3, Zenon DEF TcpInv, OthersKept, Delete
  <2>2. b \in Seq(Mapping)
    BY ConstantsAssumption, Zenon
  <2>3. pos[c] = 1 /\ pos[c] \in Nat \ {0} /\ read[c] \subseteq Groups
    BY <1>2, <2>1, ZenonT(60) DEF Request
  <2>4. pos[c] <= Len(b)
    BY <2>1, <2>2, <2>3
  <2>5. Request("findDelete", b, pos[c], read[c], cur[c])
    BY <2>2, <2>3, <2>4, Zenon DEF Request
  <2>6. QED
    BY <1>1, <2>1, <2>5, OneRequest, Zenon
<1>4. CASE DeleteFindExisting(c)
  <2>1. PICK h : cur' = [cur EXCEPT ![c] = h]
    BY <1>4, Zenon DEF DeleteFindExisting
  <2>2. /\ OthersKept(c)
        /\ pc'[c] = "delete" /\ batch'[c] = batch[c] /\ pos'[c] = pos[c]
        /\ read'[c] = read[c] /\ cur'[c] = h /\ pc[c] = "findDelete"
    BY <1>4, <2>1, Zenon DEF TcpInv, OthersKept, DeleteFindExisting
  <2>3. Request("delete", batch[c], pos[c], read[c], h)
    BY <1>2, <2>2, Zenon DEF Request
  <2>4. QED
    BY <1>1, <2>2, <2>3, OneRequest, Zenon
<1>5. CASE DeleteFindNone(c) \/ DeleteRow(c)
  BY <1>1, <1>5, NextMappingValid, Zenon DEF DeleteFindNone, DeleteRow
<1>6. QED
  BY <1>3, <1>4, <1>5, Zenon

LEMMA RequestStepValid ==
  ASSUME TcpInv, NEW c \in Clients,
         RequestStep(c) \/ StatementFails(c)
  PROVE  TcpInv'
<1>1. CASE \/ Reject(c) \/ FindDuplicates(c) \/ WriteRefused(c)
           \/ StatementFails(c)
  <2>1. Answer(c) /\ UNCHANGED <<groups, rows>>
    BY <1>1, Zenon
    DEF Reject, FindDuplicates, WriteRefused, StatementFails
  <2>2. QED
    BY <2>1, AnswerValid, Zenon DEF TcpInv
<1>2. QED
  BY <1>1, ValidateValid, SaveFindValid, WriteValid, DeleteValid, Zenon
  DEF RequestStep

\* The pruner, a deleted group, the clock and a crash.
LEMMA OthersValid ==
  ASSUME TcpInv,
         \/ PruneFind \/ PruneDelete \/ PruneFails
         \/ \E g \in Groups : RemoveGroup(g) \/ RestoreGroup(g)
         \/ Tick \/ Crash \/ UNCHANGED vars
  PROVE  TcpInv'
<1> USE DEF PruneReturn
<1>1. CASE \/ PruneFind \/ PruneDelete \/ PruneFails
           \/ \E g \in Groups : RemoveGroup(g) \/ RestoreGroup(g)
           \/ UNCHANGED vars
  <2>1. /\ UNCHANGED <<pc, batch, pos, read, cur>>
        /\ groups' \subseteq Groups /\ rows' \subseteq rows
    BY <1>1, Zenon
    DEF TcpInv, PruneFind, PruneDelete, PruneFails, RemoveGroup, RestoreGroup, vars
  <2>2. groups' \subseteq Groups /\ \A r \in rows' : ValidRow(r)
    BY <2>1, Zenon DEF TcpInv
  <2>3. \A c \in Clients : Request(pc'[c], batch'[c], pos'[c], read'[c], cur'[c])
    BY <2>1, Zenon DEF TcpInv
  <2>4. /\ DOMAIN pc' = Clients /\ DOMAIN batch' = Clients /\ DOMAIN pos' = Clients
        /\ DOMAIN read' = Clients /\ DOMAIN cur' = Clients
    BY <2>1, Zenon DEF TcpInv
  <2>5. QED
    BY <2>2, <2>3, <2>4, Zenon DEF TcpInv, Request, ValidRow, Accepted
<1>2. CASE Crash
  <2>1. Request("idle", <<>>, 1, {}, None)
    BY DEF Request
  <2>2. /\ DOMAIN pc' = Clients /\ DOMAIN batch' = Clients /\ DOMAIN pos' = Clients
        /\ DOMAIN read' = Clients /\ DOMAIN cur' = Clients
        /\ \A c \in Clients : /\ pc'[c] = "idle" /\ batch'[c] = <<>> /\ pos'[c] = 1
                              /\ read'[c] = {} /\ cur'[c] = None
        /\ UNCHANGED <<groups, rows>>
    BY <1>2, Zenon DEF Crash
  <2>3. \A c \in Clients : Request(pc'[c], batch'[c], pos'[c], read'[c], cur'[c])
    BY <2>1, <2>2, Zenon
  <2>4. QED
    BY <2>2, <2>3, Zenon DEF TcpInv, Request, ValidRow, Accepted
<1>3. CASE Tick
  <2>1. /\ UNCHANGED <<groups, pc, batch, pos, read>>
        /\ rows' = {Aged(r) : r \in rows}
        /\ DOMAIN cur' = Clients
        /\ \A c \in Clients : cur'[c] = cur[c] \/ cur'[c] = Aged(cur[c])
    BY <1>3 DEF Tick
  <2>2. \A r \in rows' : ValidRow(r)
    BY <2>1, AgedValid, Zenon DEF TcpInv
  <2>3. ASSUME NEW c \in Clients
        PROVE  Request(pc[c], batch[c], pos[c], read[c], cur'[c])
    <3>1. ValidRow(cur[c]) => ValidRow(cur'[c])
      BY <2>1, AgedValid, Zenon
    <3>2. QED
      BY <3>1, Zenon DEF TcpInv, Request
  <2>4. groups' = groups /\ pc' = pc /\ batch' = batch /\ pos' = pos /\ read' = read
    BY <2>1, Zenon
  <2>5. \A c \in Clients :
          Request(pc'[c], batch'[c], pos'[c], read'[c], cur'[c])
    BY <2>3, <2>4, Zenon
  <2>6. /\ DOMAIN pc' = Clients /\ DOMAIN batch' = Clients /\ DOMAIN pos' = Clients
        /\ DOMAIN read' = Clients /\ DOMAIN cur' = Clients
        /\ groups' \subseteq Groups
    BY <2>1, <2>4, Zenon DEF TcpInv
  <2>7. QED
    BY <2>2, <2>5, <2>6, ZenonT(60) DEF TcpInv, Request, ValidRow, Accepted
<1>4. QED
  BY <1>1, <1>2, <1>3, Zenon

LEMMA TcpInvariant == Spec => []TcpInv
<1>1. Init => TcpInv
  <2> SUFFICES ASSUME Init PROVE TcpInv
    OBVIOUS
  <2>1. Request("idle", <<>>, 1, {}, None)
    BY DEF Request
  <2>2. /\ DOMAIN pc = Clients /\ DOMAIN batch = Clients /\ DOMAIN pos = Clients
        /\ DOMAIN read = Clients /\ DOMAIN cur = Clients
        /\ \A c \in Clients : /\ pc[c] = "idle" /\ batch[c] = <<>> /\ pos[c] = 1
                              /\ read[c] = {} /\ cur[c] = None
        /\ groups = Groups /\ rows = {}
    BY DEF Init
  <2>3. QED
    BY <2>1, <2>2, Zenon DEF TcpInv
<1>2. TcpInv /\ [Next]_vars => TcpInv'
  BY UpsertValid, DeleteValid, RequestStepValid, OthersValid, Zenon DEF Next
<1>3. QED
  BY <1>1, <1>2, PTL DEF Spec

\* No stored mapping ever has ALPNs without frontend TLS (AlpnsNeedTls), for any
\* clients, batches and router groups.
THEOREM AlpnsAlwaysNeedTls == Spec => []AlpnsNeedTls
<1>1. TcpInv => AlpnsNeedTls
  BY Zenon DEF TcpInv, ValidRow, AlpnsNeedTls
<1>2. QED
  BY <1>1, TcpInvariant, PTL

\* Whatever is stored is a valid mapping that lasts at most MaxTTL.
THEOREM OnlyValidMappings == Spec => []StoredMappingsValid
<1>1. TcpInv => StoredMappingsValid
  BY Zenon DEF TcpInv, ValidRow, StoredMappingsValid
<1>2. QED
  BY <1>1, TcpInvariant, PTL

-----------------------------------------------------------------------------
(* What a stored mapping routes.                                            *)

Writing == {"save", "create"}

\* The rows stored and those about to be.
Live == rows \cup {cur[c] : c \in {d \in Clients : pc[d] \in Writing}}

Like(r, s) == r.guid = s.guid /\ r.key = s.key /\ r.tls = s.tls

\* A UUID stands for one key and one frontend TLS flag.
Fixed == \A r, s \in Live : r.guid = s.guid => Like(r, s)

\* The copies the statements make of a row are like it, and so is the row a
\* second later.
LEMMA UpdatedLike ==
  ASSUME NEW r, ValidRow(r), NEW m
  PROVE  Like(updateTcpRouteMapping(r, m), r)
BY Zenon DEF ValidRow, Like, updateTcpRouteMapping

LEMMA AgedLike ==
  ASSUME NEW r, ValidRow(r)
  PROVE  Like(Aged(r), r)
BY Zenon DEF ValidRow, Like, Aged

LEMMA OverLike ==
  ASSUME NEW r, ValidRow(r), NEW t \in Conflicting(r)
  PROVE  t \in rows /\ Like([r EXCEPT !.guid = t.guid], t)
BY Zenon DEF ValidRow, Like, Conflicting

LEMMA LiveValid ==
  ASSUME TcpInv, NEW r \in Live
  PROVE  ValidRow(r)
BY Zenon DEF TcpInv, Live, Writing, Request

\* Rows that are all like some row before.
LEMMA FixedKept ==
  ASSUME Fixed, \A r \in Live' : \E s \in Live : Like(r, s)
  PROVE  Fixed'
<1> SUFFICES ASSUME NEW r \in Live', NEW s \in Live', r.guid = s.guid
             PROVE  Like(r, s)
  BY Zenon DEF Fixed, Like
<1>1. PICK q \in Live : Like(r, q)
  OBVIOUS
<1>2. PICK t \in Live : Like(s, t)
  OBVIOUS
<1>3. q.guid = t.guid
  BY <1>1, <1>2, Zenon DEF Like
<1>4. Like(q, t)
  BY <1>3, Zenon DEF Fixed
<1>5. QED
  BY <1>1, <1>2, <1>4, Zenon DEF Like

\* What a step stores is like what was stored or held.
LEMMA StoredLike ==
  ASSUME TcpInv, [Next]_vars, NEW r \in rows'
  PROVE  \E s \in Live : Like(r, s)
<1>1. CASE r \in rows
  BY <1>1, Zenon DEF Live, Like
<1>2. CASE r \notin rows
  <2>1. \/ \E c \in Clients : Write(c) \/ SaveOver(c)
        \/ Tick
    BY <1>2, ZenonT(60)
    DEF Next, vars, Upsert, Validate, Reject,
        SaveFindExisting, SaveFindNone, FindDuplicates,
        WriteRefused, Delete, DeleteFindExisting,
        DeleteFindNone, DeleteRow, StatementFails, RequestStep,
        PruneFind, PruneDelete, PruneFails, RemoveGroup, RestoreGroup,
        Crash
  <2>2. CASE Tick
    <3>1. PICK s \in rows : r = Aged(s)
      BY <2>2, Zenon DEF Tick
    <3>2. ValidRow(s)
      BY Zenon DEF TcpInv
    <3>3. QED
      BY <3>1, <3>2, AgedLike, Zenon DEF Live
  <2>3. ASSUME NEW c \in Clients, Write(c)
        PROVE  \E s \in Live : Like(r, s)
    <3>1. r = cur[c] /\ pc[c] \in Writing
      BY <1>2, <2>3, Zenon DEF Write, Writing
    <3>2. QED
      BY <3>1, Zenon DEF Live, Like
  <2>4. ASSUME NEW c \in Clients, SaveOver(c)
        PROVE  \E s \in Live : Like(r, s)
    <3>1. PICK t \in Conflicting(cur[c]) :
            rows' = (rows \ {t}) \cup {[cur[c] EXCEPT !.guid = t.guid]}
      BY <2>4, Zenon DEF SaveOver
    <3>2. cur[c] \in Live
      BY <2>4, Zenon DEF SaveOver, Live, Writing
    <3>3. ValidRow(cur[c])
      BY <3>2, LiveValid, Zenon
    <3>4. r = [cur[c] EXCEPT !.guid = t.guid]
      BY <1>2, <3>1, Zenon
    <3>5. QED
      BY <3>3, <3>4, OverLike, Zenon DEF Live
  <2>5. QED
    BY <2>1, <2>2, <2>3, <2>4, Zenon
<1>3. QED
  BY <1>1, <1>2, Zenon

\* What a request holds for writing it held before, or it has just found a row
\* or made a new one.
LEMMA HeldLike ==
  ASSUME TcpInv, [Next]_vars, NEW c \in Clients, pc'[c] \in Writing
  PROVE  \/ \E s \in Live : Like(cur'[c], s)
         \/ SaveFindNone(c)
<1>1. CASE pc'[c] = pc[c] /\ cur'[c] = cur[c]
  BY <1>1, Zenon DEF Live, Like
<1>2. CASE SaveFindExisting(c)
  <2>1. PICK r \in rows :
          cur' = [cur EXCEPT ![c] =
                     updateTcpRouteMapping(r, Current(c))]
    BY <1>2, Zenon DEF SaveFindExisting
  <2>2. cur'[c] = updateTcpRouteMapping(r, Current(c))
    BY <2>1, Zenon DEF TcpInv
  <2>3. ValidRow(r) /\ r \in Live
    BY Zenon DEF TcpInv, Live
  <2>4. QED
    BY <2>2, <2>3, UpdatedLike, Zenon
<1>3. CASE Tick
  <2>1. cur'[c] \in {cur[c], Aged(cur[c])} /\ pc[c] \in Writing
    BY <1>3, Zenon DEF Tick
  <2>2. cur[c] \in Live
    BY <2>1, Zenon DEF Live
  <2>3. ValidRow(cur[c])
    BY <2>2, LiveValid, Zenon
  <2>4. Like(cur[c], cur[c]) /\ Like(Aged(cur[c]), cur[c])
    BY <2>3, AgedLike, Zenon DEF Like
  <2>5. Like(cur'[c], cur[c])
    BY <2>1, <2>4, Zenon
  <2>6. QED
    BY <2>2, <2>5, Zenon
<1>4. ASSUME NEW d \in Clients, NEW l, NEW h, l \notin Writing,
             pc' = [pc EXCEPT ![d] = l],
             cur' = [cur EXCEPT ![d] = h] \/ cur' = cur
      PROVE  pc'[c] = pc[c] /\ cur'[c] = cur[c]
  <2>1. d # c
    BY <1>4, Zenon DEF TcpInv
  <2>2. QED
    BY <1>4, <2>1, Zenon DEF TcpInv
<1>5. ASSUME NEW d \in Clients, Answer(d)
      PROVE  pc'[c] = pc[c] /\ cur'[c] = cur[c]
  BY <1>4, <1>5, Zenon DEF Answer, Writing
<1>6. ASSUME NEW d \in Clients, NEW again \in {"find", "findDelete"},
             NextMapping(d, again)
      PROVE  pc'[c] = pc[c] /\ cur'[c] = cur[c]
  BY <1>4, <1>5, <1>6, ZenonT(60) DEF NextMapping, Writing
<1>7. ASSUME NEW d \in Clients,
             SaveFindExisting(d) \/ SaveFindNone(d), d # c
      PROVE  pc'[c] = pc[c] /\ cur'[c] = cur[c]
  BY <1>7 DEF TcpInv, SaveFindExisting, SaveFindNone
<1>8. ASSUME NEW d \in Clients, RequestStep(d) \/ StatementFails(d)
      PROVE  \/ pc'[c] = pc[c] /\ cur'[c] = cur[c]
             \/ d = c /\ (SaveFindExisting(d) \/ SaveFindNone(d))
  <2>1. CASE \/ Reject(d) \/ FindDuplicates(d) \/ WriteRefused(d)
             \/ StatementFails(d)
    BY <1>5, <2>1, Zenon
    DEF Reject, FindDuplicates, WriteRefused, StatementFails
  <2>2. CASE \/ Write(d) \/ SaveOver(d) \/ DeleteFindNone(d)
             \/ DeleteRow(d)
    BY <1>6, <2>2, Zenon
    DEF Write, SaveOver, DeleteFindNone, DeleteRow
  <2>3. CASE Validate(d)
    BY <1>4, <2>3, Zenon DEF Validate, Writing
  <2>4. CASE DeleteFindExisting(d)
    BY <1>4, <2>4, Zenon DEF DeleteFindExisting, Writing
  <2>5. QED
    BY <1>7, <1>8, <2>1, <2>2, <2>3, <2>4, ZenonT(60) DEF RequestStep
<1>9. ASSUME NEW d \in Clients,
             \/ \E b \in Upserts[d] : Upsert(d, b)
             \/ \E b \in Deletes[d] : Delete(d, b)
      PROVE  pc'[c] = pc[c] /\ cur'[c] = cur[c]
  BY <1>4, <1>9, Zenon DEF Upsert, Delete, Writing
<1>10. ~Crash
  BY DEF Crash, Writing
<1>11. CASE \/ PruneFind \/ PruneDelete \/ PruneFails
            \/ \E g \in Groups : RemoveGroup(g) \/ RestoreGroup(g)
            \/ UNCHANGED vars
  BY <1>1, <1>11, Zenon
  DEF PruneFind, PruneDelete, PruneFails, RemoveGroup, RestoreGroup, vars
<1>12. QED
  BY <1>1, <1>2, <1>3, <1>8, <1>9, <1>10, <1>11, ZenonT(60) DEF Next

\* A new row has a UUID of its own.
LEMMA FreshIsNew ==
  ASSUME TcpInv, NEW c \in Clients, SaveFindNone(c)
  PROVE  \A s \in Live : cur'[c].guid # s.guid
<1> DEFINE m == Current(c)
<1>1. NewV4 \in FreeGuids
  BY Zenon DEF SaveFindNone, NewV4
<1>2. cur'[c] = NewTcpRouteMappingWithModel(NewV4, m)
  BY Zenon DEF TcpInv, SaveFindNone
<1>3. cur'[c].guid = NewV4
  <2>1. \A g : NewTcpRouteMappingWithModel(g, m).guid = g
    BY Zenon DEF NewTcpRouteMappingWithModel
  <2>2. QED
    BY <1>2, <2>1, Zenon
<1>4. \A s \in Live : s.guid \notin FreeGuids
  BY Zenon DEF Live, Writing, FreeGuids
<1>5. QED
  BY <1>1, <1>3, <1>4, Zenon

LEMMA FixedNext ==
  ASSUME TcpInv, Fixed, [Next]_vars
  PROVE  Fixed'
<1>1. CASE \A c \in Clients : pc'[c] \in Writing => ~SaveFindNone(c)
  <2>1. \A r \in Live' : \E s \in Live : Like(r, s)
    BY <1>1, StoredLike, HeldLike, Zenon DEF Live
  <2>2. QED
    BY <2>1, FixedKept, Zenon
<1>2. ASSUME NEW c \in Clients, SaveFindNone(c)
      PROVE  Fixed'
  <2>1. /\ rows' = rows
        /\ \A d \in Clients : d # c => pc'[d] = pc[d] /\ cur'[d] = cur[d]
    BY <1>2, Zenon DEF TcpInv, SaveFindNone
  <2>2. \A r \in Live' : r \in Live \/ r = cur'[c]
    BY <2>1, Zenon DEF Live
  <2>3. \A s \in Live : cur'[c].guid # s.guid
    BY <1>2, FreshIsNew, Zenon
  <2>4. QED
    BY <2>2, <2>3, ZenonT(60) DEF Fixed, Like
<1>3. QED
  BY <1>1, <1>2, Zenon

\* For any clients, batches and router groups, no step changes the key or the
\* frontend TLS of a stored mapping (RoutedIsFixed).
THEOREM StoredKeepsKey == Spec => RoutedIsFixed
<1>1. Init => Fixed
  BY Zenon DEF Init, Fixed, Live, Writing
<1>2. TcpInv /\ Fixed /\ [Next]_vars => Fixed'
  BY FixedNext, Zenon
<1>3. TcpInv /\ Fixed /\ [Next]_vars =>
        [\A r \in rows, s \in rows' :
           r.guid = s.guid => r.key = s.key /\ r.tls = s.tls]_vars
  <2> SUFFICES ASSUME TcpInv, Fixed, [Next]_vars,
                      NEW r \in rows, NEW s \in rows', r.guid = s.guid
               PROVE  r.key = s.key /\ r.tls = s.tls
    BY Zenon
  <2>1. PICK t \in Live : Like(s, t)
    BY StoredLike, Zenon
  <2>2. r \in Live /\ r.guid = t.guid
    BY <2>1, Zenon DEF Live, Like
  <2>3. Like(r, t)
    BY <2>2, Zenon DEF Fixed
  <2>4. QED
    BY <2>1, <2>3, Zenon DEF Like
<1>4. QED
  BY <1>1, <1>2, <1>3, TcpInvariant, PTL DEF Spec, RoutedIsFixed

=============================================================================
