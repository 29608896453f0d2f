--------------------------- MODULE MigrationProofs ----------------------------
(***************************************************************************)
(* Proofs about Migration for any number of processes, of any releases.    *)
(*                                                                         *)
(* RecordedIsDone is not inductive: what a process writes is the row it    *)
(* holds, so the invariant must say the same of every held row.            *)
(* VersionKept further needs that, while no lock was lost, only the holder *)
(* of the lock is past "waiting" and that the version it holds is the one  *)
(* recorded.  ServesWithIndex needs in addition what the recorded target   *)
(* says: while a migration is under way it is above the recorded version,  *)
(* and only the last statement of the last migration restores the index.   *)
(* DefaultIsNull needs the same of the second statement of V9, and that a  *)
(* process about to create the version row starts from version -1.         *)
(***************************************************************************)
EXTENDS Migration, TLAPS

Holding == {"create", "save", "run"}

\* The part of the type invariant the proofs use.
VersionsTyped ==
  /\ row \in VersionRow \cup {Null}
  /\ DOMAIN pc = Procs
  /\ DOMAIN held = Procs
  /\ \A p \in Procs : pc[p] \in Holding => held[p] \in VersionRow

HeldIsDone ==
  \A p \in Procs :
    pc[p] \in Holding => \A v \in Versions : v <= held[p].current => v \in done

Exclusive ==
  ~lost =>
    \A p \in Procs :
      /\ pc[p] # "waiting" => lock = p
      /\ pc[p] = "create" => row = Null
      /\ pc[p] \in {"save", "run"} => row # Null /\ held[p].current = row.current

DoneInv == VersionsTyped /\ RecordedIsDone /\ HeldIsDone

\* The migrations that end with the creation of the index.
Indexed == {4, 5, 6, 7, 9, 10, 11}

\* Every process is of a release whose last migration is one of them.
IndexedReleases == \A p \in Procs : Last[p] \in Indexed

\* existingVersion: a process migrates to its last version, which is ahead.
TargetsAhead ==
  /\ stmt \in [Procs -> Nat]
  /\ row # Null => row.current <= row.target
  /\ \A p \in Procs :
       pc[p] \in Holding => held[p].target = Last[p] /\ held[p].current < Last[p]

\* When the target is reached the index is there: a process that is about to
\* record its last version has just created it.
Settled ==
  ~lost =>
    /\ row # Null /\ row.current = row.target => index = IndexAfter(row.target)
    /\ \A p \in Procs :
         /\ pc[p] = "serving" => row # Null /\ row.current >= Last[p]
         /\ pc[p] = "run" =>
              /\ row = held[p]
              /\ At(p, Last[p]) /\ stmt[p] > Len(Run[Last[p]])
                   => index = IndexAfter(Last[p])

IndexInv == TargetsAhead /\ Settled

-----------------------------------------------------------------------------
\* Left, Init: a database of an older release satisfies the invariant; done
\* starts with the versions that release had run.
LEMMA InitDone == Init => DoneInv
<1>. SUFFICES ASSUME Init PROVE DoneInv
  OBVIOUS
<1>1. PICK v \in Releases : Left(v) /\ done = {w \in Versions : w <= v}
  BY Zenon DEF Init
<1>2. CASE v = -1
  <2>1. row = Null
    BY <1>1, <1>2 DEF Left
  <2>. QED
    BY <2>1, Zenon DEF Init, DoneInv, VersionsTyped, RecordedIsDone, HeldIsDone,
       Holding
<1>3. CASE v # -1
  <2>1. row = [current |-> v, target |-> v]
    BY <1>1, <1>3 DEF Left
  <2>2. v \in Versions
    BY <1>3, ConstantsAssumption DEF Versions
  <2>3. row \in VersionRow
    BY <2>1, <2>2, Zenon DEF VersionRow
  <2>4. RecordedIsDone
    BY <1>1, <2>1, Zenon DEF RecordedIsDone
  <2>. QED
    BY <2>3, <2>4, Zenon DEF Init, DoneInv, VersionsTyped, HeldIsDone, Holding
<1>. QED
  BY <1>2, <1>3, Zenon

\* Exit, and every action that leaves the version row, the held rows and done
\* alone: a process that holds a row after the step held it before.
LEMMA QuietDone ==
  ASSUME DoneInv, UNCHANGED <<row, done>>, DOMAIN pc' = Procs, DOMAIN held' = Procs,
         \A p \in Procs : pc'[p] \in Holding => pc[p] \in Holding /\ held'[p] = held[p]
  PROVE  DoneInv'
BY Zenon DEF DoneInv, VersionsTyped, RecordedIsDone, HeldIsDone

\* RunMigrations: every step of every process keeps the invariant.
LEMMA NextDone == DoneInv /\ [Next]_vars => DoneInv'
<1>. SUFFICES ASSUME DoneInv, [Next]_vars PROVE DoneInv'
  OBVIOUS
<1>. USE DEF Holding
<1>0. DOMAIN pc = Procs /\ DOMAIN held = Procs
  BY Zenon DEF DoneInv, VersionsTyped
<1>1. CASE UNCHANGED vars
  BY <1>0, <1>1, QuietDone, Zenon DEF vars, procVars
<1>. SUFFICES ASSUME NEW p \in Procs,
                     \/ Acquire(p) \/ Step(p)
                     \/ \E m \in Mappings : Insert(p, m)
                     \/ \E r \in rows : Remove(p, r)
                     \/ Crash(p) \/ CommitUncertain(p) \/ DropIgnored(p) \/ LoseLock(p)
              PROVE  DoneInv'
  BY <1>1, Zenon DEF Next
<1>2. CASE Acquire(p)
  BY <1>0, <1>2, QuietDone, Zenon DEF Acquire
<1>3. CASE Begin(p)
  <2>1. UNCHANGED <<row, done>>
    BY <1>3, Zenon DEF Begin
  <2>2. CASE row = Null
    <3>1. /\ held' = [held EXCEPT ![p] = [current |-> -1, target |-> Last[p]]]
          /\ pc' = [pc EXCEPT ![p] = "create"]
      BY <1>3, <2>2, Zenon DEF Begin, Goto
    <3>2. held'[p] \in VersionRow /\ held'[p].current = -1
      BY <1>0, <3>1, ConstantsAssumption, Zenon DEF VersionRow
    <3>3. \A v \in Versions : ~(v <= -1)
      BY DEF Versions
    <3>. QED
      BY <1>0, <2>1, <3>1, <3>2, <3>3, Zenon
         DEF DoneInv, VersionsTyped, RecordedIsDone, HeldIsDone
  <2>3. CASE row # Null /\ UpToDate(p, row)
    BY <1>0, <1>3, <2>1, <2>3, QuietDone, Zenon DEF Begin, Goto
  <2>4. CASE row # Null /\ ~UpToDate(p, row)
    <3>1. /\ held' = [held EXCEPT ![p] = [row EXCEPT !.target = Last[p]]]
          /\ pc' = [pc EXCEPT ![p] = "save"]
      BY <1>3, <2>4, Zenon DEF Begin, Goto
    <3>2. row \in VersionRow
      BY <2>4, Zenon DEF DoneInv, VersionsTyped
    <3>3. held'[p] \in VersionRow /\ held'[p].current = row.current
      BY <1>0, <3>1, <3>2, ConstantsAssumption, Zenon DEF VersionRow
    <3>. QED
      BY <1>0, <2>1, <2>4, <3>1, <3>3, Zenon
         DEF DoneInv, VersionsTyped, RecordedIsDone, HeldIsDone
  <2>. QED
    BY <2>2, <2>3, <2>4, Zenon
<1>4. CASE Commit(p) \/ CommitUncertain(p)
  <2>1. /\ pc[p] \in Holding
        /\ row' = held[p]
        /\ done' = done
        /\ DOMAIN pc' = Procs /\ DOMAIN held' = Procs
        /\ \A q \in Procs :
             pc'[q] \in Holding => pc[q] \in Holding /\ held'[q] = held[q]
    BY <1>0, <1>4, Zenon DEF Commit, CommitUncertain, Exit, Goto
  <2>. QED
    BY <2>1, Zenon DEF DoneInv, VersionsTyped, RecordedIsDone, HeldIsDone
<1>5. CASE RunStatement(p) \/ DropIgnored(p)
  BY <1>0, <1>5, QuietDone, Zenon DEF RunStatement, DropIgnored
<1>6. CASE SaveVersion(p)
  <2>1. PICK v \in Versions :
          /\ At(p, v)
          /\ row' = [held[p] EXCEPT !.current = v]
          /\ held' = [held EXCEPT ![p] = row']
          /\ done' = done \cup {v}
          /\ pc' = [pc EXCEPT ![p] = IF v = Last[p] THEN "serving" ELSE "run"]
    BY <1>6, ZenonT(60) DEF SaveVersion, Goto
  <2>2. pc[p] \in Holding
    BY <1>6, Zenon DEF SaveVersion
  <2>3. held[p] \in VersionRow
    BY <2>2, Zenon DEF DoneInv, VersionsTyped
  <2>4. row' \in VersionRow /\ row'.current = v /\ held'[p] = row'
    BY <1>0, <2>1, <2>3, Zenon DEF VersionRow
  <2>5. \A w \in Versions : w <= v => w \in done'
    <3>. SUFFICES ASSUME NEW w \in Versions, w <= v PROVE w \in done'
      OBVIOUS
    <3>1. held[p].current \in Int /\ v \in Int /\ w \in Int
      BY <2>3 DEF VersionRow, Versions
    <3>2. w <= held[p].current \/ w = v
      BY <2>1, <3>1 DEF At
    <3>. QED
      BY <2>1, <2>2, <3>2, Zenon DEF DoneInv, HeldIsDone
  <2>6. \A q \in Procs : q # p => pc'[q] = pc[q] /\ held'[q] = held[q]
    BY <1>0, <2>1, Zenon
  <2>7. DOMAIN pc' = Procs /\ DOMAIN held' = Procs
    BY <1>0, <2>1, Zenon
  <2>. QED
    BY <2>1, <2>4, <2>5, <2>6, <2>7
       DEF DoneInv, VersionsTyped, RecordedIsDone, HeldIsDone
<1>7. CASE MigrationFails(p) \/ Stop(p) \/ Crash(p)
  BY <1>0, <1>7, QuietDone, Zenon DEF MigrationFails, Stop, Crash, Exit
<1>8. CASE LoseLock(p)
  BY <1>0, <1>8, QuietDone, Zenon DEF LoseLock, procVars
<1>9. CASE (\E m \in Mappings : Insert(p, m)) \/ (\E r \in rows : Remove(p, r))
  BY <1>0, <1>9, QuietDone, Zenon DEF Insert, Remove, procVars
<1>. QED
  BY <1>2, <1>3, <1>4, <1>5, <1>6, <1>7, <1>8, <1>9, Zenon DEF Step

\* RunMigrations records a version only when the migrations up to it have run,
\* whatever crashes, fails or runs without its lock.
THEOREM VersionsRecordedAreDone == Spec => []RecordedIsDone
<1>1. DoneInv => RecordedIsDone
  BY Zenon DEF DoneInv
<1>. QED
  BY <1>1, InitDone, NextDone, PTL DEF Spec

-----------------------------------------------------------------------------
\* The lock: while none was lost, only its holder is past "waiting".
LEMMA InitExclusive == Init => Exclusive
BY Zenon DEF Init, Exclusive

\* Exit and the actions that leave the version row and the held rows alone: a
\* process past "waiting" was there before or has just taken the lock.
LEMMA QuietExclusive ==
  ASSUME Exclusive, UNCHANGED row, lost' = lost,
         \A p \in Procs :
           /\ pc'[p] # "waiting" => \/ pc[p] # "waiting" /\ (lock = p => lock' = p)
                                   \/ lock' = p
           /\ pc'[p] \in Holding => pc[p] = pc'[p] /\ held'[p] = held[p]
  PROVE  Exclusive'
BY Zenon DEF Exclusive, Holding

\* Acquire, Begin, Commit, SaveVersion and Exit keep the holder alone.
LEMMA NextExclusive == DoneInv /\ Exclusive /\ [Next]_vars => Exclusive'
<1>. SUFFICES ASSUME DoneInv, Exclusive, [Next]_vars PROVE Exclusive'
  OBVIOUS
<1>. USE DEF Holding
<1>0. DOMAIN pc = Procs /\ DOMAIN held = Procs
  BY Zenon DEF DoneInv, VersionsTyped
<1>1. CASE UNCHANGED vars
  BY <1>1, QuietExclusive, Zenon DEF vars, procVars
<1>. SUFFICES ASSUME NEW p \in Procs,
                     \/ Acquire(p) \/ Step(p)
                     \/ \E m \in Mappings : Insert(p, m)
                     \/ \E r \in rows : Remove(p, r)
                     \/ Crash(p) \/ CommitUncertain(p) \/ DropIgnored(p) \/ LoseLock(p)
              PROVE  Exclusive'
  BY <1>1, Zenon DEF Next
<1>2. CASE Acquire(p)
  <2>1. /\ UNCHANGED <<row, held>> /\ lost' = lost /\ lock = Null /\ lock' = p
        /\ pc' = [pc EXCEPT ![p] = "begin"]
    BY <1>2, Zenon DEF Acquire
  <2>2. \A q \in Procs : lock # q
    BY <2>1, ConstantsAssumption, Zenon
  <2>. QED
    BY <1>0, <2>1, <2>2, Zenon DEF Exclusive
<1>3. CASE Begin(p)
  <2>1. UNCHANGED <<row, lock>> /\ lost' = lost /\ pc[p] = "begin"
    BY <1>3, Zenon DEF Begin
  <2>2. \A q \in Procs : q # p => pc'[q] = pc[q] /\ held'[q] = held[q]
    BY <1>0, <1>3, Zenon DEF Begin, Goto
  <2>3. /\ pc'[p] = "create" => row = Null
        /\ pc'[p] = "save" => row # Null /\ held'[p].current = row.current
        /\ pc'[p] # "run"
    <3>1. CASE row = Null
      BY <1>0, <1>3, <3>1, Zenon DEF Begin, Goto
    <3>2. CASE row # Null /\ UpToDate(p, row)
      BY <1>0, <1>3, <3>2, Zenon DEF Begin, Goto
    <3>3. CASE row # Null /\ ~UpToDate(p, row)
      <4>1. /\ held' = [held EXCEPT ![p] = [row EXCEPT !.target = Last[p]]]
            /\ pc' = [pc EXCEPT ![p] = "save"]
        BY <1>3, <3>3, Zenon DEF Begin, Goto
      <4>2. row \in VersionRow
        BY <3>3, Zenon DEF DoneInv, VersionsTyped
      <4>. QED
        BY <1>0, <3>3, <4>1, <4>2, Zenon DEF VersionRow
    <3>. QED
      BY <3>1, <3>2, <3>3, Zenon
  <2>. QED
    BY <2>1, <2>2, <2>3, Zenon DEF Exclusive
<1>4. CASE Commit(p)
  <2>1. /\ pc[p] \in {"create", "save"} /\ row' = held[p] /\ held' = held
        /\ lock' = lock /\ lost' = lost /\ pc' = [pc EXCEPT ![p] = "run"]
    BY <1>4, Zenon DEF Commit, Goto
  <2>2. held[p] # Null
    BY <2>1, ConstantsAssumption, Zenon DEF DoneInv, VersionsTyped
  <2>3. ~lost => \A q \in Procs : q # p => pc[q] = "waiting"
    BY <2>1, Zenon DEF Exclusive
  <2>. QED
    BY <1>0, <2>1, <2>2, <2>3, Zenon DEF Exclusive
<1>5. CASE SaveVersion(p)
  <2>1. /\ pc[p] = "run" /\ lock' = lock /\ lost' = lost /\ held' = [held EXCEPT ![p] = row']
        /\ pc' = [pc EXCEPT ![p] = "serving"] \/ pc' = [pc EXCEPT ![p] = "run"]
    BY <1>5, ZenonT(60) DEF SaveVersion, Goto
  <2>2. row' # Null
    <3>1. PICK v \in Versions : row' = [held[p] EXCEPT !.current = v]
      BY <1>5, Zenon DEF SaveVersion
    <3>2. held[p] \in VersionRow
      BY <2>1, Zenon DEF DoneInv, VersionsTyped
    <3>3. row' \in VersionRow
      BY <3>1, <3>2, Zenon DEF VersionRow
    <3>. QED
      BY <3>3, ConstantsAssumption, Zenon
  <2>3. ~lost => \A q \in Procs : q # p => pc[q] = "waiting"
    BY <2>1, Zenon DEF Exclusive
  <2>. QED
    BY <1>0, <2>1, <2>2, <2>3, Zenon DEF Exclusive
<1>6. CASE RunStatement(p) \/ DropIgnored(p)
  BY <1>6, QuietExclusive, Zenon DEF RunStatement, DropIgnored
<1>7. CASE MigrationFails(p) \/ Stop(p) \/ Crash(p)
  BY <1>0, <1>7, QuietExclusive, Zenon DEF MigrationFails, Stop, Crash, Exit
<1>8. CASE CommitUncertain(p)
  <2>1. /\ pc[p] \in {"create", "save"} /\ lost' = lost
        /\ pc' = [pc EXCEPT ![p] = "waiting"]
    BY <1>8, Zenon DEF CommitUncertain, Exit
  <2>2. ~lost => \A q \in Procs : q # p => pc[q] = "waiting"
    BY <2>1, Zenon DEF Exclusive
  <2>. QED
    BY <1>0, <2>1, <2>2, Zenon DEF Exclusive
<1>9. CASE LoseLock(p)
  BY <1>9, Zenon DEF LoseLock, Exclusive
<1>10. CASE (\E m \in Mappings : Insert(p, m)) \/ (\E r \in rows : Remove(p, r))
  BY <1>10, QuietExclusive, Zenon DEF Insert, Remove, procVars
<1>. QED
  BY <1>2, <1>3, <1>4, <1>5, <1>6, <1>7, <1>8, <1>9, <1>10, Zenon DEF Step

\* Commit and SaveVersion are the steps that write the row: they write the
\* version read or a later one.
LEMMA StepKeepsVersion ==
  ASSUME DoneInv, Exclusive, [Next]_vars, ~lost', row # Null
  PROVE  row' # Null /\ row'.current >= row.current
<1>0. row \in VersionRow /\ row.current \in Int
  BY DEF DoneInv, VersionsTyped, VersionRow, Versions
<1>1. CASE row' = row
  BY <1>0, <1>1
<1>2. CASE row' # row
  <2>1. PICK p \in Procs : Commit(p) \/ CommitUncertain(p) \/ SaveVersion(p)
    BY <1>2, Zenon
    DEF Next, Step, vars, Acquire, Begin, RunStatement, MigrationFails,
       Stop,
                Insert, Remove, Crash, DropIgnored, LoseLock
  <2>2. ~lost
    BY <2>1, Zenon DEF Commit, CommitUncertain, SaveVersion
  <2>3. pc[p] \in Holding
    BY <2>1, Zenon DEF Commit, CommitUncertain, SaveVersion, Holding
  <2>4. held[p] \in VersionRow /\ held[p].current = row.current
    BY <2>2, <2>3, Zenon DEF DoneInv, VersionsTyped, Exclusive, Holding
  <2>5. CASE Commit(p) \/ CommitUncertain(p)
    BY <1>0, <2>4, <2>5, ConstantsAssumption DEF Commit, CommitUncertain
  <2>6. CASE SaveVersion(p)
    <3>1. PICK v \in Versions : At(p, v) /\ row' = [held[p] EXCEPT !.current = v]
      BY <2>6, Zenon DEF SaveVersion
    <3>2. row' \in VersionRow /\ row'.current = v
      BY <2>4, <3>1, Zenon DEF VersionRow
    <3>3. v \in Int /\ v > row.current
      BY <2>4, <3>1 DEF At, Versions
    <3>. QED
      BY <1>0, <3>2, <3>3, ConstantsAssumption
  <2>. QED
    BY <2>1, <2>5, <2>6, Zenon
<1>. QED
  BY <1>1, <1>2, Zenon

\* RunMigrations under the lock: the recorded version never goes back, and no
\* recorded migration runs again.
THEOREM VersionNeverGoesBack == Spec => VersionKept
<1>1. DoneInv /\ Exclusive /\ [Next]_vars
        => [~lost' /\ row # Null => row' # Null /\ row'.current >= row.current]_vars
  BY StepKeepsVersion, Zenon
<1>. QED
  BY <1>1, InitDone, NextDone, InitExclusive, NextExclusive, PTL
     DEF Spec, VersionKept

-----------------------------------------------------------------------------
\* The last statement of these migrations creates the index their version has.
LEMMA LastStatement ==
  ASSUME NEW v \in Indexed
  PROVE  /\ v \in Versions
         /\ Len(Run[v]) \in Nat \ {0}
         /\ Run[v][Len(Run[v])] = CreateIndex(IndexAfter(v))
<1> USE DEF Run, Versions, IndexAfter, ModelColumns, CreateIndex, DropIndex, AutoMigrate,
        NoEffect
<1>1. CASE v = 4
  BY <1>1 DEF V4AddRgUniqIdxTCPRoute, v0Columns
<1>2. CASE v = 5
  BY <1>2 DEF V5SniHostnameMigration, v5Columns
<1>3. CASE v = 6
  BY <1>3 DEF V6TCPTLSRoutes, v6Columns
<1>4. CASE v = 7
  BY <1>4 DEF V7TCPTLSRoutes, v7Columns
<1>5. Columns \ {"mtls"} = {"sni", "tls", "fe"}
  BY Zenon DEF Columns
<1>6. CASE v = 9
  BY <1>5, <1>6 DEF V9TerminateFrontendTLS
<1>7. CASE v = 10
  BY <1>5, <1>7 DEF V10SniRewriteHostname
<1>8. CASE v = 11
  BY <1>8 DEF V11EnableBackendMTLS, Columns
<1>. QED
  BY <1>1, <1>2, <1>3, <1>4, <1>6, <1>7, <1>8, Zenon DEF Indexed

LEMMA InitIndex == Init => IndexInv
<1>. SUFFICES ASSUME Init PROVE IndexInv
  OBVIOUS
<1>1. PICK v \in Releases : Left(v)
  BY Zenon DEF Init
<1>2. stmt \in [Procs -> Nat] /\ \A p \in Procs : pc[p] = "waiting"
  BY Zenon DEF Init
<1>3. row # Null => /\ row = [current |-> v, target |-> v] /\ v \in Int /\ v # 8
                    /\ index = ModelColumns(v)
  BY <1>1, ConstantsAssumption DEF Left
<1>. QED
  BY <1>2, <1>3 DEF IndexInv, TargetsAhead, Settled, Holding, IndexAfter

\* Exit and the actions that leave the row, the index and the held rows alone.
LEMMA QuietIndex ==
  ASSUME IndexInv, UNCHANGED <<row, index>>, lost => lost', stmt' \in [Procs -> Nat],
         \A p \in Procs : pc'[p] \in Holding \cup {"serving"} =>
           pc'[p] = pc[p] /\ held'[p] = held[p] /\ stmt'[p] = stmt[p]
  PROVE  IndexInv'
<1>1. TargetsAhead'
  BY Zenon DEF IndexInv, TargetsAhead
<1>2. Settled'
  BY Zenon DEF IndexInv, Settled, Holding, At
<1>. QED
  BY <1>1, <1>2, Zenon DEF IndexInv

\* RunMigrations under the lock: the index is there when the target is reached.
LEMMA NextIndex ==
  ASSUME IndexedReleases
  PROVE  DoneInv /\ Exclusive /\ IndexInv /\ [Next]_vars => IndexInv'
<1>. SUFFICES ASSUME DoneInv, Exclusive, IndexInv, [Next]_vars PROVE IndexInv'
  OBVIOUS
<1>. USE DEF Holding
<1>0. DOMAIN pc = Procs /\ DOMAIN held = Procs /\ stmt \in [Procs -> Nat]
  BY Zenon DEF DoneInv, VersionsTyped, IndexInv, TargetsAhead
<1>1. CASE UNCHANGED vars
  BY <1>0, <1>1, QuietIndex, Zenon DEF vars, procVars, schema
<1>. SUFFICES ASSUME NEW p \in Procs,
                     \/ Acquire(p) \/ Step(p)
                     \/ \E m \in Mappings : Insert(p, m)
                     \/ \E r \in rows : Remove(p, r)
                     \/ Crash(p) \/ CommitUncertain(p) \/ DropIgnored(p) \/ LoseLock(p)
              PROVE  IndexInv'
  BY <1>1, Zenon DEF Next
<1>2. Last[p] \in Int /\ Last[p] \in Versions
  BY ConstantsAssumption DEF Versions
<1>3. pc[p] # "waiting" /\ ~lost => \A q \in Procs \ {p} : pc[q] = "waiting"
  BY Zenon DEF Exclusive
<1>4. pc[p] \in Holding =>
        /\ held[p] \in VersionRow /\ held[p] # Null /\ held[p].current \in Int
        /\ held[p].target = Last[p] /\ held[p].current < Last[p]
  BY ConstantsAssumption, SMTT(60)
     DEF DoneInv, VersionsTyped, IndexInv, TargetsAhead, VersionRow, Versions
<1>5. ASSUME NEW v \in Versions, pc[p] = "run", At(p, v)
      PROVE  v \in Int /\ v <= Last[p] /\ (At(p, Last[p]) => v = Last[p])
  BY <1>2, <1>4, <1>5, SMTT(60) DEF At, Versions
<1>6. CASE Acquire(p)
  BY <1>0, <1>6, QuietIndex, Zenon DEF Acquire, schema
<1>7. CASE Begin(p)
  <2>1. /\ UNCHANGED <<row, index, stmt>> /\ lost' = lost /\ pc[p] = "begin"
        /\ \A q \in Procs \ {p} : pc'[q] = pc[q] /\ held'[q] = held[q]
    BY <1>0, <1>7, Zenon DEF Begin, Goto, schema
  <2>2. row # Null => row \in VersionRow /\ row.current \in Int
    BY DEF DoneInv, VersionsTyped, VersionRow, Versions
  <2>3. \/ /\ pc'[p] = "create"
           /\ held'[p] = [current |-> -1, target |-> Last[p]]
        \/ pc'[p] = "serving" /\ row # Null /\ row.current >= Last[p]
        \/ /\ pc'[p] = "save" /\ row # Null /\ ~(row.current >= Last[p])
           /\ held'[p] = [row EXCEPT !.target = Last[p]]
    BY <1>0, <1>7, Zenon DEF Begin, Goto, UpToDate
  <2>4. pc'[p] \in Holding => held'[p].target = Last[p] /\ held'[p].current < Last[p]
    <3>1. CASE pc'[p] = "create"
      BY <1>2, <2>3, <3>1 DEF Versions
    <3>2. CASE pc'[p] = "save"
      BY <1>2, <2>2, <2>3, <3>2, SMTT(60) DEF VersionRow
    <3>. QED
      BY <2>3, <3>1, <3>2, Zenon
  <2>5. TargetsAhead'
    BY <1>0, <2>1, <2>4, Zenon DEF IndexInv, TargetsAhead
  <2>6. Settled'
    BY <1>3, <2>1, <2>3, Zenon DEF IndexInv, Settled
  <2>. QED
    BY <2>5, <2>6, Zenon DEF IndexInv
<1>8. CASE Commit(p)
  <2>1. /\ pc[p] \in Holding /\ row' = held[p] /\ held' = held /\ lost' = lost
        /\ pc' = [pc EXCEPT ![p] = "run"] /\ stmt' = [stmt EXCEPT ![p] = 1]
    BY <1>8, Zenon DEF Commit, Goto
  <2>2. TargetsAhead'
    BY <1>0, <1>2, <1>4, <2>1 DEF IndexInv, TargetsAhead
  <2>3. ~(1 > Len(Run[Last[p]]))
    BY LastStatement, SMTT(60) DEF IndexedReleases
  <2>4. Settled'
    BY <1>0, <1>2, <1>3, <1>4, <2>1, <2>3 DEF Settled
  <2>. QED
    BY <2>2, <2>4, Zenon DEF IndexInv
<1>9. CASE RunStatement(p) \/ DropIgnored(p)
  <2>1. /\ pc[p] = "run" /\ UNCHANGED <<row, pc, held>> /\ lost' = lost
        /\ stmt' = [stmt EXCEPT ![p] = @ + 1]
    BY <1>9, Zenon DEF RunStatement, DropIgnored
  <2>2. TargetsAhead'
    BY <1>0, <2>1, SMTT(60) DEF IndexInv, TargetsAhead
  <2>3. ASSUME At(p, Last[p]), stmt'[p] > Len(Run[Last[p]])
        PROVE  index' = IndexAfter(Last[p])
    <3> DEFINE s == Run[Last[p]][stmt[p]]
    <3>1. PICK v \in Versions :
            /\ At(p, v)
            /\ stmt[p] <= Len(Run[v])
            /\ Exec(p, Run[v][stmt[p]]) \/ Run[v][stmt[p]] = DropIndex
      BY <1>9, ZenonT(60) DEF RunStatement, DropIgnored
    <3>2. v = Last[p]
      BY <1>5, <2>1, <2>3, <3>1, ZenonT(60)
    <3>3. stmt[p] = Len(Run[Last[p]])
      <4>1. stmt[p] \in Nat /\ stmt'[p] = stmt[p] + 1
        BY <1>0, <2>1, Zenon
      <4>2. Len(Run[Last[p]]) \in Nat
        BY LastStatement, Zenon DEF IndexedReleases
      <4>3. stmt[p] <= Len(Run[Last[p]])
        BY <3>1, <3>2, Zenon
      <4>. QED
        BY <2>3, <4>1, <4>2, <4>3
    <3>4. s = [op |-> "index", cols |-> IndexAfter(Last[p])]
      BY <3>3, LastStatement, ZenonT(60) DEF IndexedReleases, CreateIndex
    <3>5. s.op = "index" /\ s.cols = IndexAfter(Last[p]) /\ s # DropIndex
      <4> HIDE DEF s
      <4>. QED
        BY <3>4, Zenon DEF DropIndex
    <3>6. Exec(p, s)
      BY <3>1, <3>2, <3>5, Zenon
    <3> HIDE DEF s
    <3>. QED
      BY <3>5, <3>6, Zenon DEF Exec
  <2>4. Settled'
    <3>1. ~lost => row = held[p] /\ row.current # row.target
      BY <1>2, <1>4, <2>1 DEF IndexInv, Settled
    <3>. QED
      BY <1>3, <2>1, <2>3, <3>1, Zenon DEF Settled, At
  <2>. QED
    BY <2>2, <2>4, Zenon DEF IndexInv
<1>10. CASE SaveVersion(p)
  <2>1. PICK v \in Versions :
          /\ At(p, v)
          /\ stmt[p] > Len(Run[v])
          /\ row' = [held[p] EXCEPT !.current = v]
          /\ held' = [held EXCEPT ![p] = row']
          /\ pc' = [pc EXCEPT ![p] = IF v = Last[p] THEN "serving" ELSE "run"]
    BY <1>10, ZenonT(60) DEF SaveVersion, Goto
  <2>2. /\ pc[p] = "run" /\ index' = index /\ lost' = lost
        /\ stmt' = [stmt EXCEPT ![p] = 1]
    BY <1>10, ZenonT(60) DEF SaveVersion, schema
  <2>3. v \in Int /\ v <= Last[p]
    BY <1>5, <2>1, <2>2, Zenon
  <2>4. row' \in VersionRow /\ row'.current = v /\ row'.target = Last[p] /\ row' # Null
    BY <1>4, <2>1, <2>2, ConstantsAssumption, Zenon DEF VersionRow
  <2>5. /\ held'[p] = row'
        /\ pc'[p] = "serving" => v = Last[p]
        /\ pc'[p] # "serving" => pc'[p] = "run" /\ v # Last[p]
        /\ \A q \in Procs \ {p} : pc'[q] = pc[q] /\ held'[q] = held[q]
    BY <1>0, <2>1, Zenon
  <2>6. TargetsAhead'
    BY <1>0, <1>2, <2>2, <2>3, <2>4, <2>5, SMTT(60) DEF IndexInv, TargetsAhead
  <2>7. ~(1 > Len(Run[Last[p]]))
    BY LastStatement DEF IndexedReleases
  <2>8. Settled'
    <3>1. ~lost /\ v = Last[p] => index = IndexAfter(Last[p])
      BY <2>1, <2>2, ZenonT(60) DEF IndexInv, Settled
    <3>. QED
      BY <1>0, <1>2, <1>3, <2>2, <2>3, <2>4, <2>5, <2>7, <3>1, Zenon DEF Settled
  <2>. QED
    BY <2>6, <2>8, Zenon DEF IndexInv
<1>11. CASE MigrationFails(p) \/ Stop(p) \/ Crash(p)
  BY <1>0, <1>11, QuietIndex DEF MigrationFails, Stop, Crash, Exit, schema
<1>12. CASE CommitUncertain(p)
  <2>1. /\ pc[p] \in Holding /\ row' = held[p] /\ lost' = lost
        /\ pc' = [pc EXCEPT ![p] = "waiting"] /\ held' = [held EXCEPT ![p] = Null]
        /\ stmt' = [stmt EXCEPT ![p] = 1]
    BY <1>12, ZenonT(60) DEF CommitUncertain, Exit
  <2>2. TargetsAhead'
    BY <1>0, <1>2, <1>4, <2>1, SMTT(60) DEF IndexInv, TargetsAhead
  <2>3. Settled'
    BY <1>0, <1>2, <1>3, <1>4, <2>1, SMTT(60) DEF Settled
  <2>. QED
    BY <2>2, <2>3, Zenon DEF IndexInv
<1>13. CASE LoseLock(p)
  BY <1>0, <1>13, QuietIndex, ZenonT(60) DEF LoseLock, procVars, schema
<1>14. CASE (\E m \in Mappings : Insert(p, m)) \/ (\E r \in rows : Remove(p, r))
  <2>1. UNCHANGED <<row, index, pc, held, stmt, lost>>
    BY <1>14, ZenonT(60) DEF Insert, Remove, procVars
  <2>. QED
    BY <1>0, <2>1, QuietIndex, Zenon
<1>. QED
  BY <1>6, <1>7, <1>8, <1>9, <1>10, <1>11, <1>12, <1>13, <1>14, Zenon DEF Step

\* RunMigrations, for any processes of releases that end with the creation of the
\* index, any rows and faults: one that serves, its release the last to migrate
\* and no lock lost, has the index of its release.
THEOREM ServesWithItsIndex ==
  ASSUME IndexedReleases
  PROVE  Spec => []ServesWithIndex
<1>1. DoneInv /\ Exclusive /\ IndexInv => ServesWithIndex
  <2>. SUFFICES ASSUME DoneInv, IndexInv, NEW p \in Procs, pc[p] = "serving", ~lost,
                       row.target = Last[p]
                PROVE  index = IndexAfter(Last[p])
    BY Zenon DEF ServesWithIndex
  <2>1. row # Null /\ row.current >= Last[p] /\ row.current <= row.target
    BY Zenon DEF IndexInv, Settled, TargetsAhead
  <2>2. row.current \in Int /\ Last[p] \in Int
    BY <2>1, ConstantsAssumption
    DEF DoneInv, VersionsTyped, VersionRow, Versions
  <2>. QED
    BY <2>1, <2>2, SMTT(60) DEF IndexInv, Settled
<1>. QED
  BY <1>1, InitDone, NextDone, InitExclusive, NextExclusive, InitIndex,
     NextIndex,
     PTL
     DEF Spec

-----------------------------------------------------------------------------
\* The default is null from the second statement of V9 on, and no later migration
\* changes it; the recorded version says which migrations are behind.
DefaultInv ==
  /\ stmt \in [Procs -> Nat \ {0}]
  /\ \A p \in Procs : pc[p] = "create" => held[p].current = -1
  /\ ~lost =>
       /\ row # Null /\ row.current >= 9 => tlsDefault = Null
       /\ \A p \in Procs :
            /\ pc[p] = "serving" => row # Null /\ row.current >= Last[p]
            /\ pc[p] = "run" /\ At(p, 9) /\ stmt[p] > 2 => tlsDefault = Null

LEMMA InitDefault == Init => DefaultInv
<1>. SUFFICES ASSUME Init PROVE DefaultInv
  OBVIOUS
<1>1. stmt \in [Procs -> Nat \ {0}]
  BY DEF Init
<1>2. tlsDefault = Null /\ \A p \in Procs : pc[p] = "waiting"
  BY Zenon DEF Init
<1>. QED
  BY <1>1, <1>2, Zenon DEF DefaultInv

\* What the statements of V9 and of the later migrations do to the default.
LEMMA LaterStatement ==
  ASSUME NEW v \in {9, 10, 11}, NEW i \in Nat \ {0}, i <= Len(Run[v]), NEW p,
         Exec(p, Run[v][i]) \/ UNCHANGED schema,
         Run[v][i] # DropIndex => Exec(p, Run[v][i])
  PROVE  /\ tlsDefault' = tlsDefault \/ tlsDefault' = Null
         /\ i = 2 => tlsDefault' = Null
<1>1. /\ Len(Run[v]) = 3 /\ Run[v][1] = DropIndex /\ Run[v][2] = AutoMigrate
      /\ \E cols : Run[v][3] = CreateIndex(cols)
  <2>1. PICK cols : Run[v] = <<DropIndex, AutoMigrate, CreateIndex(cols)>>
    <3>1. CASE v = 9
      BY <3>1 DEF Run, Versions, V9TerminateFrontendTLS
    <3>2. CASE v = 10
      BY <3>2 DEF Run, Versions, V10SniRewriteHostname
    <3>3. CASE v = 11
      BY <3>3 DEF Run, Versions, V11EnableBackendMTLS
    <3>. QED
      BY <3>1, <3>2, <3>3, Zenon
  <2>. QED
    BY <2>1
<1>2. i = 1 \/ i = 2 \/ i = 3
  BY <1>1
<1>3. DropIndex.op = "drop" /\ AutoMigrate.op = "auto" /\ AutoMigrate # DropIndex
  <2>1. DropIndex.op = "drop" /\ AutoMigrate.op = "auto"
    BY Zenon DEF DropIndex, AutoMigrate
  <2>. QED
    BY <2>1, Zenon
<1>4. \A cols : CreateIndex(cols).op = "index"
  BY Zenon DEF CreateIndex
<1>5. CASE UNCHANGED schema /\ ~Exec(p, Run[v][i])
  BY <1>1, <1>3, <1>5, Zenon DEF schema
<1>6. CASE Exec(p, Run[v][i])
  <2>1. Run[v][i].op \in {"drop", "auto", "index"} /\ (i = 2 => Run[v][i].op = "auto")
    BY <1>1, <1>2, <1>3, <1>4, Zenon
  <2> HIDE DEF Run
  <2>. QED
    BY <1>6, <2>1, Zenon DEF Exec
<1>. QED
  BY <1>5, <1>6, Zenon

\* Exit and the actions that leave the row, the default and the held rows alone.
LEMMA QuietDefault ==
  ASSUME DefaultInv, UNCHANGED <<row, tlsDefault>>, lost => lost',
         stmt' \in [Procs -> Nat \ {0}],
         \A p \in Procs : pc'[p] \in {"create", "run", "serving"} =>
           pc'[p] = pc[p] /\ held'[p] = held[p] /\ stmt'[p] = stmt[p]
  PROVE  DefaultInv'
BY ZenonT(60) DEF DefaultInv, At

\* RunMigrations under the lock: the default is null once V9 has run.
LEMMA NextDefault == DoneInv /\ Exclusive /\ DefaultInv /\ [Next]_vars => DefaultInv'
<1>. SUFFICES ASSUME DoneInv, Exclusive, DefaultInv, [Next]_vars PROVE DefaultInv'
  OBVIOUS
<1>0. DOMAIN pc = Procs /\ DOMAIN held = Procs /\ stmt \in [Procs -> Nat \ {0}]
  BY Zenon DEF DoneInv, VersionsTyped, DefaultInv
<1>1. CASE UNCHANGED vars
  BY <1>0, <1>1, QuietDefault, Zenon DEF vars, procVars, schema
<1>. SUFFICES ASSUME NEW p \in Procs,
                     \/ Acquire(p) \/ Step(p)
                     \/ \E m \in Mappings : Insert(p, m)
                     \/ \E r \in rows : Remove(p, r)
                     \/ Crash(p) \/ CommitUncertain(p) \/ DropIgnored(p) \/ LoseLock(p)
              PROVE  DefaultInv'
  BY <1>1, Zenon DEF Next
<1>2. [stmt EXCEPT ![p] = 1] \in [Procs -> Nat \ {0}]
  BY <1>0
<1>3. pc[p] # "waiting" /\ ~lost => \A q \in Procs \ {p} : pc[q] = "waiting"
  BY Zenon DEF Exclusive
<1>4. pc[p] \in Holding => held[p] \in VersionRow /\ held[p].current \in Int
  BY DEF DoneInv, VersionsTyped, VersionRow, Versions
<1>5. pc[p] \in {"save", "run"} /\ ~lost => row # Null /\ held[p].current = row.current
  BY Zenon DEF Exclusive
<1>6. CASE Acquire(p)
  BY <1>0, <1>6, QuietDefault, Zenon DEF Acquire, schema
<1>7. CASE Begin(p)
  <2>1. /\ UNCHANGED <<row, tlsDefault, stmt>> /\ lost' = lost /\ pc[p] = "begin"
        /\ \A q \in Procs \ {p} : pc'[q] = pc[q] /\ held'[q] = held[q]
    BY <1>0, <1>7, Zenon DEF Begin, Goto, schema
  <2>2. \/ /\ pc'[p] = "create"
           /\ held'[p] = [current |-> -1, target |-> Last[p]]
        \/ pc'[p] = "save"
        \/ pc'[p] = "serving" /\ row # Null /\ row.current >= Last[p]
    BY <1>0, <1>7, Zenon DEF Begin, Goto, UpToDate
  <2>3. pc'[p] = "create" => held'[p].current = -1
    BY <2>2
  <2>. QED
    BY <1>3, <2>1, <2>2, <2>3, Zenon DEF DefaultInv
<1>8. CASE Commit(p) \/ CommitUncertain(p)
  <2>1. /\ pc[p] \in {"create", "save"} /\ row' = held[p] /\ lost' = lost
        /\ \A q \in Procs \ {p} : pc'[q] = pc[q] /\ held'[q] = held[q]
        /\ pc'[p] \in {"run", "waiting"} /\ stmt' = [stmt EXCEPT ![p] = 1]
        /\ tlsDefault' = tlsDefault
    BY <1>0, <1>8, Zenon DEF Commit, CommitUncertain, Exit, Goto, schema
  <2>2. ~lost /\ held[p].current >= 9 => tlsDefault = Null
    <3>1. CASE pc[p] = "save"
      BY <1>5, <3>1, ZenonT(60) DEF DefaultInv
    <3>2. CASE pc[p] = "create"
      BY <3>2, SMTT(60) DEF DefaultInv
    <3>. QED
      BY <2>1, <3>1, <3>2, Zenon
  <2>3. stmt'[p] = 1 /\ ~(1 > 2)
    BY <1>0, <2>1
  <2>. QED
    BY <1>2, <1>3, <2>1, <2>2, <2>3, ZenonT(60) DEF DefaultInv
<1>9. CASE RunStatement(p) \/ DropIgnored(p)
  <2>1. /\ pc[p] = "run" /\ UNCHANGED <<row, pc, held>> /\ lost' = lost
        /\ stmt' = [stmt EXCEPT ![p] = @ + 1]
    BY <1>9, ZenonT(60) DEF RunStatement, DropIgnored
  <2>2. stmt' \in [Procs -> Nat \ {0}] /\ stmt'[p] = stmt[p] + 1 /\ stmt[p] \in Nat \ {0}
    BY <1>0, <2>1
  <2>3. PICK v \in Versions :
          /\ At(p, v)
          /\ stmt[p] <= Len(Run[v])
          /\ Exec(p, Run[v][stmt[p]]) \/ UNCHANGED schema
          /\ Run[v][stmt[p]] # DropIndex => Exec(p, Run[v][stmt[p]])
    BY <1>9, ZenonT(60) DEF RunStatement, DropIgnored
  <2>4. v \in {9, 10, 11} => /\ tlsDefault' = tlsDefault \/ tlsDefault' = Null
                             /\ stmt[p] = 2 => tlsDefault' = Null
    BY <2>2, <2>3, LaterStatement, ZenonT(60)
  <2>5. held[p].current \in Int
    BY <1>4, <2>1, Zenon DEF Holding
  <2>6. held[p].current >= 9 => v \in {9, 10, 11}
    BY <2>3, <2>5, SMTT(60) DEF At, Versions
  <2>7. At(p, 9) => v = 9
    BY <2>3, <2>5, SMTT(60) DEF At, Versions
  <2>8. ~lost /\ row.current >= 9 => tlsDefault' = Null
    BY <1>5, <2>1, <2>4, <2>6, Zenon DEF DefaultInv
  <2>9. ~lost /\ At(p, 9) /\ stmt'[p] > 2 => tlsDefault' = Null
    <3>. SUFFICES ASSUME ~lost, At(p, 9), stmt'[p] > 2 PROVE tlsDefault' = Null
      OBVIOUS
    <3>1. stmt[p] = 2 \/ stmt[p] > 2
      BY <2>2
    <3>2. v = 9
      BY <2>7, Zenon
    <3>3. stmt[p] > 2 => tlsDefault = Null
      BY <2>1, Zenon DEF DefaultInv
    <3>. QED
      BY <2>4, <3>1, <3>2, <3>3, Zenon
  <2>10. At(p, 9)' => At(p, 9)
    BY <2>1, Zenon DEF At
  <2>. QED
    BY <1>3, <2>1, <2>2, <2>8, <2>9, <2>10, Zenon DEF DefaultInv
<1>10. CASE SaveVersion(p)
  <2>1. PICK v \in Versions :
          /\ At(p, v)
          /\ stmt[p] > Len(Run[v])
          /\ row' = [held[p] EXCEPT !.current = v]
          /\ held' = [held EXCEPT ![p] = row']
          /\ pc' = [pc EXCEPT ![p] = IF v = Last[p] THEN "serving" ELSE "run"]
    BY <1>10, ZenonT(60) DEF SaveVersion, Goto
  <2>2. /\ pc[p] = "run" /\ tlsDefault' = tlsDefault /\ lost' = lost
        /\ stmt' = [stmt EXCEPT ![p] = 1]
    BY <1>10, ZenonT(60) DEF SaveVersion, schema
  <2>3. held[p] \in VersionRow /\ held[p].current \in Int /\ v \in Int
    BY <1>4, <2>2 DEF Holding, Versions
  <2>4. row' \in VersionRow /\ row'.current = v /\ row' # Null
    BY <2>1, <2>3, ConstantsAssumption, Zenon DEF VersionRow
  <2>5. /\ pc'[p] = "serving" => v = Last[p]
        /\ pc'[p] # "create"
        /\ \A q \in Procs \ {p} : pc'[q] = pc[q] /\ held'[q] = held[q]
    BY <1>0, <2>1, ZenonT(60)
  <2>6. ~lost /\ v >= 9 => tlsDefault = Null
    <3>1. CASE v = 9
      <4>1. Len(Run[9]) = 3
        BY DEF Run, Versions, V9TerminateFrontendTLS
      <4>2. stmt[p] > 2
        BY <1>0, <2>1, <3>1, <4>1
      <4>. QED
        BY <2>1, <2>2, <3>1, <4>2, Zenon DEF DefaultInv
    <3>2. CASE v > 9
      <4>1. held[p].current >= 9
        BY <2>1, <2>3, <3>2, SMTT(60) DEF At, Versions
      <4>. QED
        BY <1>5, <2>2, <4>1, Zenon DEF DefaultInv
    <3>. QED
      BY <2>3, <3>1, <3>2
  <2>7. stmt'[p] = 1 /\ ~(1 > 2)
    BY <1>0, <2>2
  <2>8. v >= v
    BY <2>3
  <2>. QED
    BY <1>2, <1>3, <2>2, <2>4, <2>5, <2>6, <2>7, <2>8, ZenonT(60) DEF DefaultInv
<1>11. CASE MigrationFails(p) \/ Stop(p) \/ Crash(p)
  <2>1. /\ UNCHANGED <<row, tlsDefault, lost>> /\ stmt' = [stmt EXCEPT ![p] = 1]
        /\ pc' = [pc EXCEPT ![p] = "waiting"] /\ held' = [held EXCEPT ![p] = Null]
    BY <1>11, Zenon DEF MigrationFails, Stop, Crash, Exit, schema
  <2>. QED
    BY <1>0, <1>2, <2>1, QuietDefault, Zenon
<1>12. CASE LoseLock(p)
  BY <1>0, <1>12, QuietDefault, Zenon DEF LoseLock, procVars, schema
<1>13. CASE (\E m \in Mappings : Insert(p, m)) \/ (\E r \in rows : Remove(p, r))
  <2>1. UNCHANGED <<row, tlsDefault, pc, held, stmt, lost>>
    BY <1>13, ZenonT(60) DEF Insert, Remove, procVars
  <2>. QED
    BY <1>0, <2>1, QuietDefault, Zenon
<1>. QED
  BY <1>6, <1>7, <1>8, <1>9, <1>10, <1>11, <1>12, <1>13, Zenon DEF Step

\* RunMigrations, for any processes, releases, rows and faults: a process of a
\* release with V9 that serves, no lock lost, finds host_tls_port without the
\* default 0 that V8 gave it, which TcpRoutes takes for granted in StoredKey.
THEOREM ServesWithNullDefault == Spec => []DefaultIsNull
<1>1. DoneInv /\ Exclusive /\ DefaultInv => DefaultIsNull
  <2>. SUFFICES ASSUME DoneInv, DefaultInv, NEW p \in Procs, pc[p] = "serving", ~lost,
                       Last[p] >= 9
                PROVE  tlsDefault = Null
    BY Zenon DEF DefaultIsNull
  <2>1. row # Null /\ row.current >= Last[p]
    BY Zenon DEF DefaultInv
  <2>2. row.current \in Int /\ Last[p] \in Int
    BY <2>1, ConstantsAssumption
    DEF DoneInv, VersionsTyped, VersionRow, Versions
  <2>3. row.current >= 9
    BY <2>1, <2>2
  <2>. QED
    BY <2>1, <2>3, Zenon DEF DefaultInv
<1>. QED
  BY <1>1, InitDone, NextDone, InitExclusive, NextExclusive, InitDefault,
     NextDefault,
     PTL
     DEF Spec

=============================================================================
