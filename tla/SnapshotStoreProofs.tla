------------------------- MODULE SnapshotStoreProofs -------------------------
(***************************************************************************)
(* Theorems of SnapshotStore, for any number of processes, snapshots,      *)
(* servers, contents and child tables.                                     *)
(***************************************************************************)
EXTENDS SnapshotStore, FiniteSetTheorems, SequenceTheorems, TLAPS

(* A report in hand has an id nobody stored or holds.                      *)
CurInv ==
  /\ \A i \in scans : report[i] # NONE
  /\ \A p \in Procs :
       /\ (cur[p] # NONE) <=> (pc[p] \in {"scanned", "saving"})
       /\ cur[p] # NONE => report[cur[p]] # NONE /\ cur[p] \notin scans
  /\ \A p, q \in Procs : p # q /\ cur[p] # NONE => cur[p] # cur[q]

(* The lock is held exactly by the process inside a transaction, and every *)
(* walk over the child tables starts at the first.                         *)
LockInv ==
  \A p \in Procs :
    /\ (writer = p) <=> (pc[p] \in {"saving", "purging"})
    /\ pc[p] \notin {"saving", "reading"} => step[p] = 1

(* What an open transaction would publish.                                 *)
SaveTx(p) ==
  /\ txScans = scans \cup {cur[p]}
  /\ \A k \in Tables, i \in Ids :
       txRows[k][i] = IF i # cur[p] THEN rows[k][i]
                      ELSE IF k < step[p] THEN report[i].rows[k] ELSE {}

PurgeTx(p) ==
  /\ txScans = scans \ doomed[p]
  /\ \A k \in Tables, i \in Ids :
       txRows[k][i] = IF i \in doomed[p] THEN {} ELSE rows[k][i]

TxInv ==
  \A p \in Procs : /\ pc[p] = "saving" => SaveTx(p)
                   /\ pc[p] = "purging" => PurgeTx(p)

StoreInv == TypeOK /\ CurInv /\ LockInv /\ TxInv /\ SnapshotIntegrity

(* A snapshot being read or already read has been stored before, so it is  *)
(* in nobody's hands; what was read of it ends where it was purged.        *)
Settled(i) == report[i] # NONE /\ \A q \in Procs : cur[q] # i

ReadSoFar(p) ==
  LET i == Head(queue[p]) IN
  /\ queue[p] # <<>>
  /\ Settled(i)
  /\ \E n \in 0..(step[p] - 1) :
       /\ \A k \in Tables : seen[p][k] = IF k <= n THEN report[i].rows[k] ELSE {}
       /\ i \in scans => n = step[p] - 1

Loads(g) ==
  /\ Settled(g.id)
  /\ \E n \in 0..LastTable : CutOff(g.id, g.rows, n)

Reader(p) ==
  /\ IF pc[p] = "reading" THEN ReadSoFar(p) ELSE seen[p] = Empty
  /\ \A x \in DOMAIN got[p] : Loads(got[p][x])

LoadInv == \A p \in Procs : Reader(p)

-----------------------------------------------------------------------------
USE DEF Tables

(* Every reading command starts with a list of snapshot ids to load.       *)
LEMMA StartsReading ==
  ASSUME TypeOK, NEW p \in Procs,
         Show(p) \/ DiffLatest(p) \/ DiffSince(p) \/ List(p)
  PROVE \E c \in {"show", "diff", "since", "list"}, q \in Seq(Ids) : StartReading(p, c, q)
<1>1. \A i, j \in Ids : <<i>> \in Seq(Ids) /\ <<i, j>> \in Seq(Ids)
  OBVIOUS
<1>2. \A S : S \subseteq Ids => Newest(S) \subseteq Ids /\ Oldest(S) \subseteq Ids
  BY DEF Newest, Oldest
<1>3. \A t, i : Of(t) \subseteq Ids /\ ScanSince(t, i) \subseteq Ids
  BY DEF TypeOK, DbType, Of, ScanSince
<1>4. CASE Show(p)
  BY <1>1, <1>4 DEF Show
<1>5. CASE DiffLatest(p) \/ List(p)
  <2>1. PICK c \in {"diff", "list"}, i \in Ids, j \in Ids : StartReading(p, c, <<i, j>>)
    BY <1>2, <1>3, <1>5 DEF DiffLatest, List
  <2> QED
    BY <1>1, <2>1
<1>6. CASE DiffSince(p)
  <2>1. PICK i \in Ids, j \in Ids : StartReading(p, "since", <<i, j>>)
    BY <1>2, <1>3, <1>6 DEF DiffSince
  <2> QED
    BY <1>1, <2>1
<1> QED
  BY <1>4, <1>5, <1>6

(* A command that ends leaves well-typed, empty locals.                    *)
LEMMA Forgets ==
  ASSUME ReadingType, NEW p \in Procs, ForgetReading(p)
  PROVE ReadingType'
BY DEF ReadingType, ForgetReading, Empty

(* Every step of every command keeps the types: in particular the tables   *)
(* stay functions of tables and ids.                                       *)
LEMMA TypeStep == TypeOK /\ CurInv /\ [Next]_vars => TypeOK'
<1> SUFFICES ASSUME TypeOK, CurInv, [Next]_vars PROVE TypeOK'
  OBVIOUS
<1> USE StoreAssumption DEF TypeOK, db, tx, saving, purging, reading
<1>1. ASSUME NEW p \in Procs, ScanServer(p) PROVE TypeOK'
  <2> USE <1>1 DEF ScanServer
  <2>1. DbType' /\ TxType' /\ PurgingType' /\ ReadingType'
    BY DEF DbType, TxType, PurgingType, ReadingType
  <2>2. ControlType'
    BY DEF ControlType
  <2>3. SavingType'
    BY DEF SavingType, Reports
  <2> QED
    BY <2>1, <2>2, <2>3
<1>2. ASSUME NEW p \in Procs, PurgeOlder(p) \/ PurgeKeep(p) PROVE TypeOK'
  <2>1. PICK S \in SUBSET Ids, t \in Targets \cup {NONE}, n \in Nat : SelectDoomed(p, S, t, n)
    <3>1. \A t, c : ScansOlderThan(t, c) \in SUBSET Ids /\ ScansBeyondKeep(t, c) \in SUBSET Ids
      BY DEF DbType, ScansOlderThan, ScansBeyondKeep, Of
    <3>2. CASE PurgeOlder(p)
      BY <3>1, <3>2 DEF PurgeOlder
    <3>3. CASE PurgeKeep(p)
      BY <3>1, <3>3 DEF PurgeKeep
    <3> QED
      BY <1>2, <3>2, <3>3
  <2>2. DbType' /\ TxType' /\ SavingType' /\ ReadingType'
    BY <2>1 DEF SelectDoomed, DbType, TxType, SavingType, ReadingType
  <2>3. ControlType'
    BY <2>1 DEF SelectDoomed, ControlType
  <2>4. PurgingType'
    BY <2>1 DEF SelectDoomed, PurgingType
  <2> QED
    BY <2>2, <2>3, <2>4
<1>3. ASSUME NEW p \in Procs, Show(p) \/ DiffLatest(p) \/ DiffSince(p) \/ List(p)
      PROVE TypeOK'
  <2>1. PICK c \in {"show", "diff", "since", "list"}, q \in Seq(Ids) : StartReading(p, c, q)
    BY <1>3, StartsReading
  <2>2. DbType' /\ TxType' /\ SavingType' /\ PurgingType'
    BY <2>1 DEF StartReading, DbType, TxType, SavingType, PurgingType
  <2>3. ControlType'
    BY <2>1 DEF StartReading, ControlType
  <2>4. ReadingType'
    BY <2>1 DEF StartReading, ReadingType
  <2> QED
    BY <2>2, <2>3, <2>4
<1>4. ASSUME NEW p \in Procs, SaveScan(p) PROVE TypeOK'
  <2> USE <1>4 DEF SaveScan
  <2>1. DbType' /\ SavingType' /\ PurgingType' /\ ReadingType'
    BY DEF DbType, SavingType, PurgingType, ReadingType
  <2>2. cur[p] \in Ids
    BY DEF CurInv, SavingType
  <2>3. TxType'
    <3>1. \A k \in Tables : [rows[k] EXCEPT ![cur[p]] = {}] \in [Ids -> SUBSET Rows]
      BY DEF DbType
    <3> QED
      BY <2>2, <3>1 DEF TxType, DbType
  <2>4. ControlType'
    BY DEF ControlType
  <2> QED
    BY <2>1, <2>3, <2>4
<1>5. ASSUME NEW p \in Procs, SaveChildren(p) PROVE TypeOK'
  <2>1. DbType' /\ SavingType' /\ PurgingType' /\ ReadingType'
    BY <1>5 DEF SaveChildren, DbType, SavingType, PurgingType, ReadingType
  <2>2. TxType'
    <3> DEFINE r == [txRows[step[p]] EXCEPT ![cur[p]] = report[cur[p]].rows[step[p]]]
    <3>1. cur[p] \in Ids /\ report[cur[p]] \in Reports
      BY <1>5 DEF SaveChildren, CurInv, SavingType
    <3>2. step[p] \in Tables /\ r \in [Ids -> SUBSET Rows]
      BY <1>5, <3>1 DEF SaveChildren, Reports, TxType
    <3>3. txRows' = [txRows EXCEPT ![step[p]] = r] /\ UNCHANGED <<writer, txScans>>
      BY <1>5 DEF SaveChildren, TxType
    <3> QED
      BY <3>2, <3>3 DEF TxType
  <2>3. ControlType'
    BY <1>5 DEF SaveChildren, ControlType
  <2> QED
    BY <2>1, <2>2, <2>3
<1>6. ASSUME NEW p \in Procs, SaveCommit(p) PROVE TypeOK'
  <2> USE <1>6 DEF SaveCommit, Commit, Rollback, NoRows
  <2>1. PurgingType' /\ ReadingType'
    BY DEF PurgingType, ReadingType
  <2>2. DbType'
    BY DEF DbType, TxType
  <2>3. TxType'
    BY DEF TxType
  <2>4. ControlType'
    BY DEF ControlType
  <2>5. SavingType'
    BY DEF SavingType
  <2> QED
    BY <2>1, <2>2, <2>3, <2>4, <2>5
<1>7. ASSUME NEW p \in Procs, DeleteScans(p) PROVE TypeOK'
  <2> USE <1>7 DEF DeleteScans
  <2>1. DbType' /\ SavingType' /\ PurgingType' /\ ReadingType'
    BY DEF DbType, SavingType, PurgingType, ReadingType
  <2>2. TxType'
    BY DEF TxType, DbType, PurgingType
  <2>3. ControlType'
    BY DEF ControlType
  <2> QED
    BY <2>1, <2>2, <2>3
<1>8. ASSUME NEW p \in Procs, PurgeCommit(p) PROVE TypeOK'
  <2> USE <1>8 DEF PurgeCommit, Commit, Rollback, NoRows
  <2>1. SavingType' /\ ReadingType'
    BY DEF SavingType, ReadingType
  <2>2. DbType'
    BY DEF DbType, TxType
  <2>3. TxType'
    BY DEF TxType
  <2>4. ControlType'
    BY DEF ControlType
  <2>5. PurgingType'
    BY DEF PurgingType, NoPurge
  <2> QED
    BY <2>1, <2>2, <2>3, <2>4, <2>5
<1>9. ASSUME NEW p \in Procs, Busy(p) \/ Crash(p) PROVE TypeOK'
  <2>1. GiveUp(p) /\ (Rollback \/ UNCHANGED tx)
    BY <1>9 DEF Busy, Crash
  <2>2. DbType' /\ SavingType'
    BY <2>1 DEF GiveUp, DbType, SavingType
  <2>3. TxType'
    BY <2>1 DEF Rollback, NoRows, TxType
  <2>4. ControlType'
    BY <2>1 DEF GiveUp, ControlType
  <2>5. PurgingType'
    BY <2>1 DEF GiveUp, NoPurge, PurgingType
  <2>6. ReadingType'
    BY <2>1, Forgets DEF GiveUp
  <2> QED
    BY <2>2, <2>3, <2>4, <2>5, <2>6
<1>10. ASSUME NEW p \in Procs, LoadScan(p) \/ LoadMissing(p) \/ Answer(p) PROVE TypeOK'
  <2> USE <1>10 DEF LoadScan, LoadMissing, Answer
  <2>1. DbType' /\ TxType' /\ SavingType' /\ PurgingType'
    BY DEF DbType, TxType, SavingType, PurgingType
  <2>2. ControlType'
    BY DEF ControlType
  <2>3. ReadingType'
    <3>1. CASE ForgetReading(p)
      BY <3>1, Forgets
    <3>2. CASE UNCHANGED <<kind, seen, got>> /\ queue[p] # <<>> /\ queue' = [queue EXCEPT ![p] = Tail(@)]
      <4>1. Tail(queue[p]) \in Seq(Ids)
        BY <3>2, HeadTailProperties DEF ReadingType
      <4> QED
        BY <3>2, <4>1 DEF ReadingType
    <3>3. CASE UNCHANGED reading
      BY <3>3 DEF ReadingType
    <3> QED
      BY <3>1, <3>2, <3>3
  <2> QED
    BY <2>1, <2>2, <2>3
<1>11. ASSUME NEW p \in Procs, LoadChildren(p) PROVE TypeOK'
  <2> USE <1>11 DEF LoadChildren
  <2>1. DbType' /\ TxType' /\ SavingType' /\ PurgingType'
    BY DEF DbType, TxType, SavingType, PurgingType
  <2>2. ControlType'
    BY DEF ControlType
  <2>3. ReadingType'
    <3>1. Head(queue[p]) \in Ids
      BY HeadTailProperties DEF ReadingType
    <3> DEFINE s == [seen[p] EXCEPT ![step[p]] = rows[step[p]][Head(queue[p])]]
    <3>2. s \in [Tables -> SUBSET Rows]
      BY <3>1 DEF ReadingType, DbType
    <3>3. seen' = [seen EXCEPT ![p] = s]
      BY DEF ReadingType
    <3> HIDE DEF s
    <3> QED
      BY <3>2, <3>3 DEF ReadingType
  <2> QED
    BY <2>1, <2>2, <2>3
<1>12. ASSUME NEW p \in Procs, LoadReturn(p) PROVE TypeOK'
  <2> USE <1>12 DEF LoadReturn
  <2>1. DbType' /\ TxType' /\ SavingType' /\ PurgingType'
    BY DEF DbType, TxType, SavingType, PurgingType
  <2>2. ControlType'
    BY DEF ControlType
  <2>3. ReadingType'
    <3>1. Head(queue[p]) \in Ids /\ Tail(queue[p]) \in Seq(Ids)
      BY HeadTailProperties DEF ReadingType
    <3> DEFINE g == Append(got[p], [id |-> Head(queue[p]), rows |-> seen[p]])
    <3>2. [id |-> Head(queue[p]), rows |-> seen[p]] \in Loaded
      BY <3>1 DEF Loaded, ReadingType
    <3>3. g \in Seq(Loaded)
      BY <3>2, AppendProperties DEF ReadingType
    <3>4. got' = [got EXCEPT ![p] = g]
      BY DEF ReadingType
    <3> HIDE DEF g
    <3> QED
      BY <3>1, <3>3, <3>4 DEF ReadingType, Empty
  <2> QED
    BY <2>1, <2>2, <2>3
<1>13. CASE UNCHANGED vars
  BY <1>13 DEF vars, DbType, TxType, ControlType, SavingType, PurgingType, ReadingType
<1> QED
  BY <1>1, <1>2, <1>3, <1>4, <1>5, <1>6, <1>7, <1>8, <1>9, <1>10, <1>11, <1>12, <1>13
  DEF Next, Begin, Write, Read

(* Only a scan puts a report in a process's hands, and it leaves them when *)
(* it is committed or the command ends.                                    *)
LEMMA CurStep == TypeOK /\ CurInv /\ TxInv /\ [Next]_vars => CurInv'
<1> SUFFICES ASSUME TypeOK, CurInv, TxInv, [Next]_vars PROVE CurInv'
  OBVIOUS
<1> USE StoreAssumption, NoneIsNoReport DEF CurInv, TypeOK, DbType, ControlType, SavingType
<1>1. ASSUME NEW p \in Procs, ScanServer(p) PROVE CurInv'
  <2>1. PICK i \in Ids, r \in Reports :
          /\ report[i] = NONE
          /\ report' = [report EXCEPT ![i] = r]
          /\ cur' = [cur EXCEPT ![p] = i]
    BY <1>1 DEF ScanServer, Reports
  <2>2. pc[p] = "idle" /\ pc' = [pc EXCEPT ![p] = "scanned"] /\ scans' = scans
    BY <1>1 DEF ScanServer, db
  <2> QED
    BY <2>1, <2>2
<1>2. ASSUME NEW p \in Procs, SaveScan(p) \/ SaveChildren(p) PROVE CurInv'
  BY <1>2 DEF SaveScan, SaveChildren, db, saving
<1>3. ASSUME NEW p \in Procs, SaveCommit(p) PROVE CurInv'
  <2>1. scans' = scans \cup {cur[p]}
    BY <1>3 DEF SaveCommit, Commit, TxInv, SaveTx
  <2> QED
    BY <1>3, <2>1 DEF SaveCommit
<1>4. ASSUME NEW p \in Procs, PurgeCommit(p) PROVE CurInv'
  <2>1. scans' = scans \ doomed[p]
    BY <1>4 DEF PurgeCommit, Commit, TxInv, PurgeTx
  <2> QED
    BY <1>4, <2>1 DEF PurgeCommit, saving
<1>5. ASSUME NEW p \in Procs, Busy(p) \/ Crash(p) PROVE CurInv'
  <2>1. /\ pc' = [pc EXCEPT ![p] = "idle"]
        /\ cur' = [cur EXCEPT ![p] = NONE]
        /\ report' = report /\ scans' = scans
    BY <1>5 DEF Busy, Crash, GiveUp, db
  <2> QED
    BY <2>1
<1>6. ASSUME NEW p \in Procs, PurgeOlder(p) \/ PurgeKeep(p) \/ DeleteScans(p) PROVE CurInv'
  BY <1>6 DEF PurgeOlder, PurgeKeep, SelectDoomed, DeleteScans, db, saving
<1>7. ASSUME NEW p \in Procs, Show(p) \/ DiffLatest(p) \/ DiffSince(p) \/ List(p)
      PROVE CurInv'
  BY <1>7, StartsReading DEF StartReading, db, saving
<1>8. ASSUME NEW p \in Procs, Read(p) PROVE CurInv'
  BY <1>8 DEF Read, LoadScan, LoadMissing, LoadChildren, LoadReturn, Answer, db, saving
<1>9. CASE UNCHANGED vars
  BY <1>9 DEF vars
<1> QED
  BY <1>1, <1>2, <1>3, <1>4, <1>5, <1>6, <1>7, <1>8, <1>9 DEF Next, Begin, Write

(* The write lock is taken and released with the program counter.          *)
LEMMA LockStep == TypeOK /\ LockInv /\ [Next]_vars => LockInv'
<1> SUFFICES ASSUME TypeOK, LockInv, [Next]_vars PROVE LockInv'
  OBVIOUS
<1> USE StoreAssumption DEF LockInv, TypeOK, TxType, ControlType
<1>1. ASSUME NEW p \in Procs, SaveScan(p) \/ DeleteScans(p) PROVE LockInv'
  BY <1>1 DEF SaveScan, DeleteScans
<1>2. ASSUME NEW p \in Procs, SaveCommit(p) \/ PurgeCommit(p) PROVE LockInv'
  BY <1>2 DEF SaveCommit, PurgeCommit, Commit, Rollback
<1>3. ASSUME NEW p \in Procs, Busy(p) \/ Crash(p) PROVE LockInv'
  BY <1>3 DEF Busy, Crash, GiveUp, Rollback, tx
<1>4. ASSUME NEW p \in Procs, ScanServer(p) \/ SaveChildren(p) PROVE LockInv'
  BY <1>4 DEF ScanServer, SaveChildren, tx
<1>5. ASSUME NEW p \in Procs, PurgeOlder(p) \/ PurgeKeep(p) PROVE LockInv'
  BY <1>5 DEF PurgeOlder, PurgeKeep, SelectDoomed, tx
<1>6. ASSUME NEW p \in Procs, Show(p) \/ DiffLatest(p) \/ DiffSince(p) \/ List(p)
      PROVE LockInv'
  BY <1>6, StartsReading DEF StartReading, tx
<1>7. ASSUME NEW p \in Procs, Read(p) PROVE LockInv'
  BY <1>7 DEF Read, LoadScan, LoadMissing, LoadChildren, LoadReturn, Answer, tx
<1>8. CASE UNCHANGED vars
  BY <1>8 DEF vars
<1> QED
  BY <1>1, <1>2, <1>3, <1>4, <1>5, <1>6, <1>7, <1>8 DEF Next, Begin, Write

(* A step that writes nothing and leaves the commands inside a transaction *)
(* alone leaves what they would publish alone.                             *)
LEMMA TxFrame ==
  ASSUME TxInv, UNCHANGED <<db, tx>>,
         \A q \in Procs : pc'[q] \in {"saving", "purging"} =>
           /\ pc[q] = pc'[q]
           /\ cur'[q] = cur[q] /\ step'[q] = step[q] /\ doomed'[q] = doomed[q]
           /\ pc[q] = "saving" => report'[cur[q]] = report[cur[q]]
  PROVE TxInv'
<1>1. ASSUME NEW q \in Procs, pc'[q] = "saving" PROVE SaveTx(q)'
  <2>1. SaveTx(q)
    BY <1>1 DEF TxInv
  <2> QED
    BY <1>1, <2>1 DEF SaveTx, db, tx
<1>2. ASSUME NEW q \in Procs, pc'[q] = "purging" PROVE PurgeTx(q)'
  <2>1. PurgeTx(q)
    BY <1>2 DEF TxInv
  <2> QED
    BY <1>2, <2>1 DEF PurgeTx, db, tx
<1> QED
  BY <1>1, <1>2 DEF TxInv

(* The open transaction follows its command table by table; no other       *)
(* process can disturb it while it holds the lock.                         *)
LEMMA TxStep == TypeOK /\ CurInv /\ LockInv /\ TxInv /\ [Next]_vars => TxInv'
<1> SUFFICES ASSUME TypeOK, CurInv, LockInv, TxInv, [Next]_vars PROVE TxInv'
  OBVIOUS
<1>0. LockInv'
  BY LockStep
<1> USE StoreAssumption DEF TypeOK, DbType, TxType, ControlType, SavingType
<1>1. ASSUME NEW p \in Procs, ScanServer(p) PROVE TxInv'
  <2>1. PICK i \in Ids, r \in Reports :
          /\ report[i] = NONE
          /\ report' = [report EXCEPT ![i] = r]
          /\ cur' = [cur EXCEPT ![p] = i]
    BY <1>1 DEF ScanServer, Reports
  <2>2. /\ pc' = [pc EXCEPT ![p] = "scanned"]
        /\ step' = step /\ doomed' = doomed /\ UNCHANGED <<db, tx>>
    BY <1>1 DEF ScanServer, purging
  <2>3. \A q \in Procs : pc[q] = "saving" => cur[q] \in Ids /\ cur[q] # i
    BY <2>1 DEF CurInv
  <2> QED
    BY <2>1, <2>2, <2>3, TxFrame
<1>2. ASSUME NEW p \in Procs, SaveScan(p) PROVE TxInv'
  <2>1. \A q \in Procs : pc'[q] \in {"saving", "purging"} => q = p
    BY <1>0, <1>2 DEF SaveScan, LockInv
  <2>2. step'[p] = 1 /\ cur'[p] = cur[p] /\ rows' = rows /\ scans' = scans
    BY <1>2 DEF SaveScan, LockInv, saving, db
  <2>3. SaveTx(p)'
    BY <1>2, <2>2 DEF SaveScan, SaveTx
  <2>4. pc'[p] = "saving"
    BY <1>2 DEF SaveScan
  <2> QED
    BY <2>1, <2>3, <2>4 DEF TxInv
<1>3. ASSUME NEW p \in Procs, SaveChildren(p) PROVE TxInv'
  <2>1. \A q \in Procs : pc'[q] \in {"saving", "purging"} => q = p
    BY <1>0, <1>3 DEF SaveChildren, LockInv
  <2>2. /\ SaveTx(p) /\ pc'[p] = "saving" /\ cur[p] \in Ids /\ step[p] \in Tables
        /\ cur' = cur /\ report' = report /\ UNCHANGED <<rows, scans, txScans>>
    BY <1>3 DEF SaveChildren, TxInv, CurInv, saving, db
  <2>3. \A k \in Tables, i \in Ids :
          txRows'[k][i] = IF k = step[p] /\ i = cur[p] THEN report[i].rows[k]
                          ELSE txRows[k][i]
    BY <1>3, <2>2 DEF SaveChildren
  <2>4. step'[p] = step[p] + 1
    BY <1>3 DEF SaveChildren
  <2>5. SaveTx(p)'
    BY <2>2, <2>3, <2>4 DEF SaveTx
  <2> QED
    BY <2>1, <2>2, <2>5 DEF TxInv
<1>4. ASSUME NEW p \in Procs, DeleteScans(p) PROVE TxInv'
  <2>1. \A q \in Procs : pc'[q] \in {"saving", "purging"} => q = p
    BY <1>0, <1>4 DEF DeleteScans, LockInv
  <2>2. PurgeTx(p)' /\ pc'[p] = "purging"
    BY <1>4 DEF DeleteScans, PurgeTx, purging, db
  <2> QED
    BY <2>1, <2>2 DEF TxInv
<1>5. ASSUME NEW p \in Procs, SaveCommit(p) \/ PurgeCommit(p) PROVE TxInv'
  <2>1. writer' = NONE
    BY <1>5 DEF SaveCommit, PurgeCommit, Commit, Rollback
  <2>2. \A q \in Procs : pc'[q] \notin {"saving", "purging"}
    BY <1>0, <2>1 DEF LockInv
  <2> QED
    BY <2>2 DEF TxInv
<1>6. ASSUME NEW p \in Procs, Busy(p) \/ Crash(p) PROVE TxInv'
  <2>1. GiveUp(p) /\ (writer' = NONE \/ UNCHANGED tx)
    BY <1>6 DEF Busy, Crash, Rollback
  <2>2. CASE writer' = NONE
    <3>1. \A q \in Procs : pc'[q] \notin {"saving", "purging"}
      BY <1>0, <2>2 DEF LockInv
    <3> QED
      BY <3>1 DEF TxInv
  <2>3. CASE UNCHANGED tx
    <3>1. \A q \in Procs : pc'[q] \in {"saving", "purging"} =>
            /\ q # p
            /\ pc[q] = pc'[q] /\ cur'[q] = cur[q] /\ step'[q] = step[q]
            /\ report' = report
      BY <2>1 DEF GiveUp
    <3>2. \A q \in Procs : q # p => doomed'[q] = doomed[q]
      BY <2>1 DEF GiveUp
    <3>3. UNCHANGED <<db, tx>>
      BY <2>1, <2>3 DEF GiveUp
    <3> QED
      BY <3>1, <3>2, <3>3, TxFrame
  <2> QED
    BY <2>1, <2>2, <2>3
<1>7. ASSUME NEW p \in Procs, PurgeOlder(p) \/ PurgeKeep(p) PROVE TxInv'
  <2>1. /\ pc' = [pc EXCEPT ![p] = "selected"]
        /\ UNCHANGED <<db, tx, saving, step>>
        /\ \A q \in Procs : q # p => doomed'[q] = doomed[q]
    BY <1>7 DEF PurgeOlder, PurgeKeep, SelectDoomed, PurgingType
  <2> QED
    BY <2>1, TxFrame DEF saving
<1>8. ASSUME NEW p \in Procs, Show(p) \/ DiffLatest(p) \/ DiffSince(p) \/ List(p)
      PROVE TxInv'
  <2>1. /\ pc' = [pc EXCEPT ![p] = "loading"]
        /\ UNCHANGED <<db, tx, saving, step, purging>>
    BY <1>8, StartsReading DEF StartReading
  <2> QED
    BY <2>1, TxFrame DEF saving, purging
<1>9. ASSUME NEW p \in Procs, Read(p) PROVE TxInv'
  <2>1. /\ UNCHANGED <<db, tx, saving, purging>>
        /\ pc'[p] \notin {"saving", "purging"}
        /\ \A q \in Procs : q # p => pc'[q] = pc[q] /\ step'[q] = step[q]
    BY <1>9 DEF Read, LoadScan, LoadMissing, LoadChildren, LoadReturn, Answer
  <2> QED
    BY <2>1, TxFrame DEF saving, purging
<1>10. CASE UNCHANGED vars
  BY <1>10, TxFrame DEF vars, db, tx
<1> QED
  BY <1>1, <1>2, <1>3, <1>4, <1>5, <1>6, <1>7, <1>8, <1>9, <1>10 DEF Next, Begin, Write

(* Only a commit changes what is stored, and what it publishes is whole.   *)
LEMMA IntegrityStep ==
  TypeOK /\ CurInv /\ TxInv /\ SnapshotIntegrity /\ [Next]_vars => SnapshotIntegrity'
<1> SUFFICES ASSUME TypeOK, CurInv, TxInv, SnapshotIntegrity, [Next]_vars
             PROVE SnapshotIntegrity'
  OBVIOUS
<1> USE StoreAssumption DEF TypeOK, DbType, ControlType, SavingType, SnapshotIntegrity
<1>1. ASSUME NEW p \in Procs, ScanServer(p) PROVE SnapshotIntegrity'
  <2>1. PICK i \in Ids : report[i] = NONE /\ \A j \in Ids \ {i} : report'[j] = report[j]
    BY <1>1 DEF ScanServer
  <2>2. UNCHANGED <<scans, rows>>
    BY <1>1 DEF ScanServer, db
  <2> QED
    BY <2>1, <2>2 DEF CurInv
<1>2. ASSUME NEW p \in Procs, SaveCommit(p) PROVE SnapshotIntegrity'
  <2>1. SaveTx(p) /\ scans' = txScans /\ rows' = txRows /\ report' = report
    BY <1>2 DEF SaveCommit, TxInv, Commit
  <2>2. \A k \in Tables : k < step[p]
    BY <1>2 DEF SaveCommit
  <2> QED
    BY <2>1, <2>2 DEF SaveTx
<1>3. ASSUME NEW p \in Procs, PurgeCommit(p) PROVE SnapshotIntegrity'
  <2>1. PurgeTx(p) /\ scans' = txScans /\ rows' = txRows /\ report' = report
    BY <1>3 DEF PurgeCommit, TxInv, Commit, saving
  <2> QED
    BY <2>1 DEF PurgeTx
<1>4. CASE UNCHANGED <<report, db>>
  BY <1>4 DEF db
<1>5. ASSUME NEW p \in Procs,
             PurgeOlder(p) \/ PurgeKeep(p) \/ SaveScan(p) \/ SaveChildren(p)
               \/ DeleteScans(p) \/ Busy(p) \/ Crash(p) \/ Read(p)
      PROVE UNCHANGED <<report, db>>
  BY <1>5 DEF PurgeOlder, PurgeKeep, SelectDoomed, SaveScan, SaveChildren, DeleteScans,
    Busy, Crash, GiveUp, Read, LoadScan, LoadMissing, LoadChildren, LoadReturn, Answer,
    saving
<1>6. ASSUME NEW p \in Procs, Show(p) \/ DiffLatest(p) \/ DiffSince(p) \/ List(p)
      PROVE UNCHANGED <<report, db>>
  BY <1>6, StartsReading DEF StartReading, saving
<1>7. CASE UNCHANGED vars
  BY <1>7 DEF vars
<1> QED
  BY <1>1, <1>2, <1>3, <1>4, <1>5, <1>6, <1>7 DEF Next, Begin, Write

-----------------------------------------------------------------------------
(* The inductive invariant of the store holds initially ...                *)
LEMMA StoreInit == Init => StoreInv
<1> SUFFICES ASSUME Init PROVE StoreInv
  OBVIOUS
<1> USE StoreAssumption DEF Init, NoRows, Empty, NoPurge
<1>1. DbType /\ TxType /\ ControlType /\ SavingType
  BY DEF DbType, TxType, ControlType, SavingType
<1>2. PurgingType /\ ReadingType
  BY DEF PurgingType, ReadingType
<1>3. CurInv /\ LockInv /\ TxInv /\ SnapshotIntegrity
  BY DEF CurInv, LockInv, TxInv, SnapshotIntegrity
<1> QED
  BY <1>1, <1>2, <1>3 DEF StoreInv, TypeOK

(* ... and in every reachable state, for any number of processes, ids,     *)
(* servers and child tables.                                               *)
THEOREM StoreInvariant == Spec => []StoreInv
<1>1. Init => StoreInv
  BY StoreInit
<1>2. StoreInv /\ [Next]_vars => StoreInv'
  BY TypeStep, CurStep, LockStep, TxStep, IntegrityStep DEF StoreInv
<1> QED
  BY <1>1, <1>2, PTL DEF Spec

(* Type correctness of the store and of the commands that use it.          *)
THEOREM TypeCorrect == Spec => []TypeOK
BY StoreInvariant, PTL DEF StoreInv

(* A committed snapshot is the saved report in every child table, whatever *)
(* is killed, fails, or runs concurrently, and no child row is orphaned    *)
(* (Store.save, Store.delete_scans).                                       *)
THEOREM SaveIsAtomic == Spec => []SnapshotIntegrity
BY StoreInvariant, PTL DEF StoreInv

-----------------------------------------------------------------------------
(* What has been stored keeps its report for good, is in nobody's hands,   *)
(* and is never stored a second time.                                      *)
LEMMA SettledStep ==
  ASSUME StoreInv, [Next]_vars, NEW i \in Ids, Settled(i)
  PROVE  Settled(i)' /\ report'[i] = report[i] /\ (i \in scans' => i \in scans)
<1> USE StoreAssumption DEF StoreInv, TypeOK, SavingType, Settled
<1>1. ASSUME NEW p \in Procs, ScanServer(p)
      PROVE Settled(i)' /\ report'[i] = report[i] /\ (i \in scans' => i \in scans)
  <2>1. PICK j \in Ids, r \in Reports :
          /\ report[j] = NONE
          /\ report' = [report EXCEPT ![j] = r]
          /\ cur' = [cur EXCEPT ![p] = j]
    BY <1>1 DEF ScanServer, Reports
  <2> QED
    BY <1>1, <2>1 DEF ScanServer, db
<1>2. ASSUME NEW p \in Procs, SaveCommit(p)
      PROVE Settled(i)' /\ report'[i] = report[i] /\ (i \in scans' => i \in scans)
  <2>1. scans' = scans \cup {cur[p]} /\ report' = report /\ cur' = [cur EXCEPT ![p] = NONE]
    BY <1>2 DEF SaveCommit, Commit, TxInv, SaveTx
  <2> QED
    BY <2>1
<1>3. ASSUME NEW p \in Procs, PurgeCommit(p)
      PROVE Settled(i)' /\ report'[i] = report[i] /\ (i \in scans' => i \in scans)
  <2>1. scans' = scans \ doomed[p] /\ UNCHANGED saving
    BY <1>3 DEF PurgeCommit, Commit, TxInv, PurgeTx
  <2> QED
    BY <2>1 DEF saving
<1>4. ASSUME NEW p \in Procs, Busy(p) \/ Crash(p)
      PROVE Settled(i)' /\ report'[i] = report[i] /\ (i \in scans' => i \in scans)
  <2>1. scans' = scans /\ report' = report /\ cur' = [cur EXCEPT ![p] = NONE]
    BY <1>4 DEF Busy, Crash, GiveUp, db
  <2> QED
    BY <2>1
<1>5. CASE UNCHANGED <<saving, db>>
  BY <1>5 DEF saving, db
<1>6. ASSUME NEW p \in Procs,
             PurgeOlder(p) \/ PurgeKeep(p) \/ SaveScan(p) \/ SaveChildren(p)
               \/ DeleteScans(p) \/ Read(p)
      PROVE UNCHANGED <<saving, db>>
  BY <1>6 DEF PurgeOlder, PurgeKeep, SelectDoomed, SaveScan, SaveChildren, DeleteScans,
    Read, LoadScan, LoadMissing, LoadChildren, LoadReturn, Answer
<1>7. ASSUME NEW p \in Procs, Show(p) \/ DiffLatest(p) \/ DiffSince(p) \/ List(p)
      PROVE UNCHANGED <<saving, db>>
  BY <1>7, StartsReading DEF StartReading
<1>8. CASE UNCHANGED vars
  BY <1>8 DEF vars, saving, db
<1> QED
  BY <1>1, <1>2, <1>3, <1>4, <1>5, <1>6, <1>7, <1>8 DEF Next, Begin, Write

(* A finished load is judged by the reports and the committed scans only.  *)
LEMMA LoadsFrame ==
  ASSUME UNCHANGED <<scans, report, cur>>, NEW g, Loads(g)
  PROVE  Loads(g)'
BY DEF Loads, CutOff, Settled

(* What a process has read stays what it is while it does not read.        *)
LEMMA ReadFrame ==
  ASSUME StoreInv, [Next]_vars, NEW p \in Procs, Reader(p),
         UNCHANGED <<queue[p], seen[p], got[p]>>,
         pc'[p] = "reading" <=> pc[p] = "reading",
         pc[p] = "reading" => step'[p] = step[p]
  PROVE Reader(p)'
<1> USE DEF StoreInv, TypeOK, ReadingType
<1>1. ASSUME pc'[p] = "reading" PROVE ReadSoFar(p)'
  <2>1. ReadSoFar(p) /\ queue[p] # <<>>
    BY <1>1 DEF Reader, ReadSoFar
  <2>2. PICK i \in Ids : i = Head(queue[p])
    BY <2>1, HeadTailProperties
  <2>3. Settled(i)' /\ report'[i] = report[i] /\ (i \in scans' => i \in scans)
    BY <2>1, <2>2, SettledStep DEF ReadSoFar
  <2>4. PICK n \in 0..(step[p] - 1) :
          /\ \A k \in Tables : seen[p][k] = IF k <= n THEN report[i].rows[k] ELSE {}
          /\ i \in scans => n = step[p] - 1
    BY <2>1, <2>2 DEF ReadSoFar
  <2>5. i = Head(queue'[p]) /\ queue'[p] # <<>> /\ step'[p] = step[p]
    BY <1>1, <2>1, <2>2
  <2>6. \E m \in 0..(step'[p] - 1) :
          /\ \A k \in Tables : seen'[p][k] = IF k <= m THEN report'[i].rows[k] ELSE {}
          /\ i \in scans' => m = step'[p] - 1
    BY <2>3, <2>4, <2>5
  <2> QED
    BY <2>3, <2>5, <2>6 DEF ReadSoFar, Settled
<1>2. ASSUME NEW x \in DOMAIN got[p] PROVE Loads(got[p][x])'
  <2>1. Loads(got[p][x])
    BY <1>2 DEF Reader
  <2>2. PICK i \in Ids : i = got[p][x].id
    <3>1. got[p] \in Seq(Loaded)
      OBVIOUS
    <3>2. got[p][x] \in Loaded
      BY <1>2, <3>1, ElementOfSeq, LenProperties
    <3> QED
      BY <3>2 DEF Loaded
  <2>3. Settled(i)' /\ report'[i] = report[i] /\ (i \in scans' => i \in scans)
    BY <2>1, <2>2, SettledStep DEF Loads
  <2> QED
    BY <2>1, <2>2, <2>3 DEF Loads, CutOff, Settled
<1> QED
  BY <1>1, <1>2 DEF Reader

(* Every command reads its snapshots table by table; a purge or a save in  *)
(* between can at most empty the tables not read yet.                      *)
LEMMA LoadStep == StoreInv /\ LoadInv /\ [Next]_vars => LoadInv'
<1> SUFFICES ASSUME StoreInv, LoadInv, [Next]_vars, NEW p \in Procs PROVE Reader(p)'
  BY DEF LoadInv
<1>0. Reader(p) /\ StoreInv'
  BY TypeStep, CurStep, LockStep, TxStep, IntegrityStep DEF LoadInv, StoreInv
<1> USE StoreAssumption DEF StoreInv, TypeOK, ReadingType, ControlType
<1>1. CASE /\ UNCHANGED <<queue[p], seen[p], got[p]>>
           /\ pc'[p] = "reading" <=> pc[p] = "reading"
           /\ pc[p] = "reading" => step'[p] = step[p]
  BY <1>0, <1>1, ReadFrame
<1>2. CASE LoadScan(p)
  <2>1. PICK i \in Ids : i = Head(queue[p])
    BY <1>2, HeadTailProperties DEF LoadScan
  <2>2. i \in scans /\ Settled(i)
    BY <1>2, <2>1 DEF LoadScan, CurInv, Settled
  <2>3. seen[p] = Empty /\ step[p] = 1
    BY <1>0, <1>2 DEF LoadScan, Reader, LockInv
  <2>4. UNCHANGED <<scans, report, cur, queue, seen, step, got>> /\ queue[p] # <<>>
    BY <1>2 DEF LoadScan, db, saving
  <2>5. ReadSoFar(p)'
    BY <2>1, <2>2, <2>3, <2>4 DEF ReadSoFar, Settled, Empty
  <2>6. \A x \in DOMAIN got'[p] : Loads(got[p][x])'
    BY <1>0, <2>4 DEF Reader, Loads, CutOff, Settled
  <2>7. pc'[p] = "reading"
    BY <1>2 DEF LoadScan
  <2> QED
    BY <2>5, <2>6, <2>7 DEF Reader
<1>3. CASE LoadMissing(p) \/ Answer(p)
  <2>1. UNCHANGED <<scans, report, cur>> /\ pc'[p] # "reading"
    BY <1>3 DEF LoadMissing, Answer, db, saving
  <2>2. (got'[p] = got[p] /\ seen'[p] = seen[p]) \/ (got'[p] = <<>> /\ seen'[p] = Empty)
    BY <1>3 DEF LoadMissing, Answer, ForgetReading
  <2>3. seen[p] = Empty /\ \A x \in DOMAIN got[p] : Loads(got[p][x])
    BY <1>0, <1>3 DEF LoadMissing, Answer, Reader
  <2>4. ASSUME NEW x \in DOMAIN got'[p] PROVE Loads(got[p][x])'
    <3>1. PICK g : g = got'[p][x] /\ Loads(g)
      BY <2>2, <2>3
    <3>2. Loads(g)'
      BY <2>1, <3>1, LoadsFrame
    <3> QED
      BY <3>1, <3>2 DEF Loads
  <2> QED
    BY <2>1, <2>2, <2>3, <2>4 DEF Reader, Empty
<1>4. CASE LoadChildren(p)
  <2>1. PICK i \in Ids : i = Head(queue[p])
    BY <1>4, HeadTailProperties DEF LoadChildren
  <2>2. ReadSoFar(p)
    BY <1>0, <1>4 DEF LoadChildren, Reader
  <2>3. PICK n \in 0..(step[p] - 1) :
          /\ \A k \in Tables : seen[p][k] = IF k <= n THEN report[i].rows[k] ELSE {}
          /\ i \in scans => n = step[p] - 1
    BY <2>1, <2>2 DEF ReadSoFar
  <2>4. /\ UNCHANGED <<scans, rows, report, cur, queue, got, pc>>
        /\ step'[p] = step[p] + 1 /\ step[p] \in Tables
    BY <1>4 DEF LoadChildren, db, saving
  <2>5. \A k \in Tables : seen'[p][k] = IF k = step[p] THEN rows[k][i] ELSE seen[p][k]
    BY <1>4, <2>1 DEF LoadChildren
  <2>6. rows[step[p]][i] = IF i \in scans THEN report[i].rows[step[p]] ELSE {}
    BY <2>4 DEF SnapshotIntegrity
  <2>7. \E m \in 0..(step'[p] - 1) :
          /\ \A k \in Tables : seen'[p][k] = IF k <= m THEN report'[i].rows[k] ELSE {}
          /\ i \in scans' => m = step'[p] - 1
    <3>1. CASE i \in scans
      <4>1. \A k \in Tables : seen'[p][k] = IF k <= step[p] THEN report'[i].rows[k] ELSE {}
        BY <2>3, <2>4, <2>5, <2>6, <3>1
      <4>2. step[p] \in 0..(step'[p] - 1) /\ step[p] = step'[p] - 1
        BY <2>4
      <4> QED
        BY <4>1, <4>2
    <3>2. CASE i \notin scans
      <4>1. ASSUME NEW k \in Tables
            PROVE seen'[p][k] = IF k <= n THEN report'[i].rows[k] ELSE {}
        <5>1. CASE k = step[p]
          <6>1. ~(k <= n)
            BY <2>3, <2>4, <5>1
          <6>2. seen'[p][k] = {}
            BY <2>5, <2>6, <3>2, <5>1
          <6> QED
            BY <6>1, <6>2
        <5>2. CASE k # step[p]
          BY <2>3, <2>4, <2>5, <5>2
        <5> QED
          BY <5>1, <5>2
      <4>2. n \in 0..(step'[p] - 1)
        BY <2>3, <2>4
      <4> QED
        BY <2>4, <3>2, <4>1, <4>2
    <3> QED
      BY <3>1, <3>2
  <2>8. ReadSoFar(p)'
    BY <2>1, <2>2, <2>4, <2>7 DEF ReadSoFar, Settled
  <2>9. \A x \in DOMAIN got'[p] : Loads(got[p][x])'
    BY <1>0, <2>4 DEF Reader, Loads, CutOff, Settled
  <2>10. pc'[p] = "reading"
    BY <1>4, <2>4 DEF LoadChildren
  <2> QED
    BY <2>8, <2>9, <2>10 DEF Reader
<1>5. CASE LoadReturn(p)
  <2> DEFINE g == [id |-> Head(queue[p]), rows |-> seen[p]]
  <2>1. ReadSoFar(p) /\ g \in Loaded
    BY <1>0, <1>5, HeadTailProperties DEF LoadReturn, Reader, Loaded
  <2>2. step[p] - 1 = LastTable
    BY <1>5 DEF LoadReturn
  <2>3. Loads(g)
    BY <2>1, <2>2 DEF ReadSoFar, Loads, CutOff
  <2>4. UNCHANGED <<scans, report, cur>> /\ pc'[p] # "reading" /\ seen'[p] = Empty
    BY <1>5 DEF LoadReturn, db, saving
  <2>5. \A x \in DOMAIN got'[p] : got'[p][x] = g \/ (x \in DOMAIN got[p] /\ got'[p][x] = got[p][x])
    <3>1. got'[p] = Append(got[p], g)
      BY <1>5 DEF LoadReturn
    <3> HIDE DEF g
    <3> QED
      BY <2>1, <3>1, AppendProperties
  <2>6. ASSUME NEW x \in DOMAIN got'[p] PROVE Loads(got[p][x])'
    <3>1. PICK h : h = got'[p][x] /\ Loads(h)
      BY <1>0, <2>3, <2>5 DEF Reader
    <3>2. Loads(h)'
      BY <2>4, <3>1, LoadsFrame
    <3> QED
      BY <3>1, <3>2 DEF Loads
  <2> QED
    BY <2>4, <2>6 DEF Reader, Empty
<1>6. CASE Busy(p) \/ Crash(p)
  <2>1. /\ pc'[p] = "idle" /\ got'[p] = <<>> /\ seen'[p] = Empty
    BY <1>6 DEF Busy, Crash, GiveUp, ForgetReading
  <2> QED
    BY <2>1 DEF Reader, Empty
<1>7. CASE Show(p) \/ DiffLatest(p) \/ DiffSince(p) \/ List(p)
  <2>1. /\ UNCHANGED <<scans, report, cur, seen, got>> /\ pc[p] # "reading"
        /\ pc'[p] # "reading"
    BY <1>7, StartsReading DEF StartReading, db, saving
  <2> QED
    BY <1>0, <2>1 DEF Reader, Loads, CutOff, Settled, Empty
<1>8. CASE UNCHANGED vars
  BY <1>1, <1>8 DEF vars
<1>9. CASE Begin(p) /\ ~(Show(p) \/ DiffLatest(p) \/ DiffSince(p) \/ List(p))
  <2>1. UNCHANGED <<reading, step>> /\ pc[p] = "idle" /\ pc'[p] # "reading"
    BY <1>9 DEF Begin, ScanServer, PurgeOlder, PurgeKeep, SelectDoomed
  <2> QED
    BY <1>1, <2>1 DEF reading
<1>10. CASE Write(p) /\ ~Busy(p)
  <2>1. UNCHANGED reading /\ pc[p] # "reading" /\ pc'[p] # "reading"
    BY <1>10 DEF Write, SaveScan, SaveChildren, SaveCommit, DeleteScans, PurgeCommit
  <2> QED
    BY <1>1, <2>1 DEF reading
<1>11. ASSUME NEW q \in Procs, q # p, Begin(q) \/ Write(q) \/ Read(q) \/ Crash(q)
       PROVE Reader(p)'
  <2>1. UNCHANGED <<queue[p], seen[p], got[p], step[p], pc[p]>>
    <3>1. CASE Show(q) \/ DiffLatest(q) \/ DiffSince(q) \/ List(q)
      <4>1. PICK c \in {"show", "diff", "since", "list"}, s \in Seq(Ids) : StartReading(q, c, s)
        BY <3>1, StartsReading
      <4> QED
        BY <1>11, <4>1 DEF StartReading
    <3>2. CASE ScanServer(q) \/ PurgeOlder(q) \/ PurgeKeep(q)
      BY <1>11, <3>2 DEF ScanServer, PurgeOlder, PurgeKeep, SelectDoomed, reading
    <3>3. CASE SaveScan(q) \/ SaveChildren(q) \/ SaveCommit(q) \/ DeleteScans(q) \/ PurgeCommit(q)
      BY <1>11, <3>3 DEF SaveScan, SaveChildren, SaveCommit, DeleteScans, PurgeCommit, reading
    <3>4. CASE Read(q)
      BY <1>11, <3>4 DEF Read, LoadScan, LoadMissing, LoadChildren, LoadReturn, Answer,
        ForgetReading
    <3>5. CASE Busy(q) \/ Crash(q)
      BY <1>11, <3>5 DEF Busy, Crash, GiveUp, ForgetReading
    <3> QED
      BY <1>11, <3>1, <3>2, <3>3, <3>4, <3>5 DEF Begin, Write
  <2> QED
    BY <1>1, <2>1
<1> QED
  BY <1>2, <1>3, <1>4, <1>5, <1>6, <1>7, <1>8, <1>9, <1>10, <1>11
  DEF Next, Read, Begin, Write

(* A load interleaved with saves and purges returns the saved report, or,  *)
(* when the snapshot was purged meanwhile, the report cut off after some   *)
(* table; never rows of another snapshot (Store.load).                     *)
THEOREM LoadsAreWhole == Spec => []LoadIsPrefix
<1>1. Init => LoadInv
  BY StoreAssumption DEF Init, LoadInv, Reader, Empty
<1>2. LoadInv => LoadIsPrefix
  BY DEF LoadInv, Reader, Loads, LoadIsPrefix
<1>3. Spec => []StoreInv
  BY StoreInvariant
<1> QED
  BY <1>1, <1>2, <1>3, LoadStep, PTL DEF Spec

-----------------------------------------------------------------------------
(* What a purge selected was stored then, so no scan in hand has its id.   *)
Floor(p) ==
  /\ doomed[p] # {} => pc[p] \in {"selected", "purging"}
  /\ \A i \in doomed[p] : Settled(i)
  /\ \A i \in doomed[p] \cap scans :
       ~raced[p] => Cardinality(NewerIn(Of(purge[p].target), i)) >= purge[p].keep

FloorInv == \A p \in Procs : Floor(p)

(* How many snapshots are newer than one grows with what is stored.        *)
LEMMA NewerGrows ==
  ASSUME scans' \subseteq Ids, scans \subseteq scans',
         \A j \in scans : report'[j] = report[j],
         NEW t, NEW i \in scans
  PROVE  /\ Cardinality(NewerIn(Of(t), i)) \in Nat
         /\ Cardinality(NewerIn(Of(t), i))' \in Nat
         /\ Cardinality(NewerIn(Of(t), i))' >= Cardinality(NewerIn(Of(t), i))
<1> DEFINE S == NewerIn(Of(t), i)
<1>1. S \subseteq S' /\ S' \subseteq Ids
  BY DEF NewerIn, Of, At
<1>2. IsFiniteSet(S')
  BY <1>1, StoreAssumption, FS_Subset
<1>3. IsFiniteSet(S) /\ Cardinality(S) <= Cardinality(S')
  BY <1>1, <1>2, FS_Subset
<1>4. Cardinality(S) \in Nat /\ Cardinality(S') \in Nat
  BY <1>2, <1>3, FS_CardinalityType
<1> QED
  BY <1>3, <1>4

(* What a purge has selected stays what it is while others save, and does  *)
(* not count once another purge has committed.                             *)
LEMMA FloorFrame ==
  ASSUME StoreInv, StoreInv', FloorInv, [Next]_vars,
         NEW p \in Procs, doomed'[p] = doomed[p],
         doomed[p] # {} =>
           /\ pc'[p] \in {"selected", "purging"}
           /\ \/ raced'[p] = TRUE
              \/ scans \subseteq scans' /\ purge'[p] = purge[p] /\ raced'[p] = raced[p]
  PROVE  Floor(p)'
<1>1. doomed[p] \subseteq Ids /\ scans \subseteq Ids /\ scans' \subseteq Ids
  BY DEF StoreInv, TypeOK, PurgingType, DbType
<1>2. \A i \in doomed[p] : Settled(i)' /\ (i \in scans' => i \in scans)
  BY <1>1, SettledStep DEF FloorInv, Floor
<1>3. \A j \in scans : Settled(j)
  BY <1>1, StoreAssumption DEF StoreInv, CurInv, Settled
<1>4. \A j \in scans : report'[j] = report[j]
  BY <1>1, <1>3, SettledStep
<1>5. ASSUME NEW i \in doomed'[p] \cap scans', ~raced'[p]
      PROVE  Cardinality(NewerIn(Of(purge[p].target), i))' >= purge'[p].keep
  <2>1. i \in doomed[p] \cap scans /\ ~raced[p] /\ purge'[p] = purge[p]
        /\ scans \subseteq scans'
    BY <1>2, <1>5
  <2>2. PICK t \in Targets \cup {NONE}, n \in Nat : t = purge[p].target /\ n = purge[p].keep
    BY DEF StoreInv, TypeOK, PurgingType
  <2>3. Cardinality(NewerIn(Of(t), i)) >= n
    BY <2>1, <2>2 DEF FloorInv, Floor
  <2>4. Cardinality(NewerIn(Of(t), i))' >= n
    BY <1>1, <1>4, <2>1, <2>3, NewerGrows
  <2>5. t = purge'[p].target /\ n = purge'[p].keep
    BY <2>1, <2>2
  <2> QED
    BY <2>4, <2>5 DEF NewerIn, Of
<1> QED
  BY <1>2, <1>5 DEF Floor

(* A purge selects snapshots that have enough newer ones.                  *)
LEMMA SelectFloor ==
  ASSUME StoreInv, NEW p \in Procs, PurgeOlder(p) \/ PurgeKeep(p)
  PROVE  Floor(p)'
<1> USE DEF StoreInv, TypeOK, PurgingType, DbType, ControlType
<1>1. \A i \in scans : Settled(i)
  BY StoreAssumption DEF CurInv, Settled
<1>2. PICK S \in SUBSET scans, t \in Targets \cup {NONE}, n \in Nat :
        /\ SelectDoomed(p, S, t, n)
        /\ \A i \in S : Cardinality(NewerIn(Of(t), i)) >= n
  <2>1. CASE PurgeOlder(p)
    <3>1. PICK t \in Targets \cup {NONE}, cutoff \in 2..clock : SelectDoomed(p, ScansOlderThan(t, cutoff), t, 0)
      BY <2>1 DEF PurgeOlder
    <3>2. ScansOlderThan(t, cutoff) \subseteq scans
      BY DEF ScansOlderThan, Of
    <3>3. ASSUME NEW i \in scans PROVE Cardinality(NewerIn(Of(t), i)) >= 0
      <4>1. NewerIn(Of(t), i) \in SUBSET Ids
        BY DEF NewerIn, Of
      <4> QED
        BY <4>1, StoreAssumption, FS_Subset, FS_CardinalityType
    <3> QED
      BY <3>1, <3>2, <3>3
  <2>2. CASE PurgeKeep(p)
    <3>1. PICK t \in Targets \cup {NONE}, n \in Keeps : SelectDoomed(p, ScansBeyondKeep(t, n), t, n)
      BY <2>2 DEF PurgeKeep
    <3>2. ScansBeyondKeep(t, n) \subseteq scans /\ n \in Nat
      BY StoreAssumption DEF ScansBeyondKeep, Of
    <3>3. \A i \in ScansBeyondKeep(t, n) : Cardinality(NewerIn(Of(t), i)) >= n
      BY DEF ScansBeyondKeep
    <3> QED
      BY <3>1, <3>2, <3>3
  <2> QED
    BY <2>1, <2>2
<1>3. /\ doomed'[p] = S /\ purge'[p].target = t /\ purge'[p].keep = n
      /\ pc'[p] = "selected" /\ UNCHANGED <<scans, report, cur>>
  BY <1>2 DEF SelectDoomed, db, saving
<1>4. \A i \in S : Settled(i)'
  BY <1>1, <1>3 DEF Settled
<1>5. \A i \in S : Cardinality(NewerIn(Of(t), i))' >= n
  BY <1>2, <1>3 DEF NewerIn, Of, At
<1>6. \A i \in S : Cardinality(NewerIn(Of(purge[p].target), i))' >= purge'[p].keep
  BY <1>3, <1>5 DEF NewerIn, Of
<1> QED
  BY <1>3, <1>4, <1>6 DEF Floor

(* Saves add newer snapshots, and a purge that removes some ends or marks  *)
(* every other one.                                                        *)
LEMMA FloorStep == StoreInv /\ StoreInv' /\ FloorInv /\ [Next]_vars => FloorInv'
<1> SUFFICES ASSUME StoreInv, StoreInv', FloorInv, [Next]_vars, NEW p \in Procs
             PROVE  Floor(p)'
  BY DEF FloorInv
<1> USE DEF StoreInv, TypeOK, PurgingType, ControlType
<1>0. doomed[p] # {} => pc[p] \in {"selected", "purging"}
  BY DEF FloorInv, Floor
<1>1. CASE doomed'[p] = {}
  BY <1>1 DEF Floor
<1>2. ASSUME NEW q \in Procs,
             \/ ScanServer(q) \/ SaveScan(q) \/ SaveChildren(q) \/ DeleteScans(q)
             \/ Show(q) \/ DiffLatest(q) \/ DiffSince(q) \/ List(q) \/ Read(q)
      PROVE  Floor(p)'
  <2>1. UNCHANGED <<scans, purging>>
    BY <1>2, StartsReading DEF StartReading, ScanServer, SaveScan, SaveChildren,
      DeleteScans, Read, LoadScan, LoadMissing, LoadChildren, LoadReturn, Answer, db
  <2>2. \/ pc' = pc
        \/ \E to : pc' = [pc EXCEPT ![q] = to] /\ (pc[q] \notin {"selected", "purging"}
                                                   \/ to = "purging")
    BY <1>2, StartsReading DEF StartReading, ScanServer, SaveScan, SaveChildren,
      DeleteScans, Read, LoadScan, LoadMissing, LoadChildren, LoadReturn, Answer
  <2>3. doomed[p] # {} => pc'[p] \in {"selected", "purging"}
    BY <1>0, <2>2
  <2> QED
    BY <2>1, <2>3, FloorFrame DEF purging
<1>3. ASSUME NEW q \in Procs, SaveCommit(q) PROVE Floor(p)'
  <2>1. scans' = scans \cup {cur[q]} /\ UNCHANGED purging
    BY <1>3 DEF SaveCommit, Commit, TxInv, SaveTx
  <2>2. doomed[p] # {} => pc'[p] \in {"selected", "purging"}
    BY <1>0, <1>3 DEF SaveCommit
  <2> QED
    BY <2>1, <2>2, FloorFrame DEF purging
<1>4. ASSUME NEW q \in Procs, PurgeCommit(q), doomed'[p] # {} PROVE Floor(p)'
  <2>1. q # p /\ doomed'[p] = doomed[p] /\ raced'[p] = TRUE /\ pc'[p] = pc[p]
    BY <1>4 DEF PurgeCommit
  <2> QED
    BY <1>0, <2>1, FloorFrame
<1>5. ASSUME NEW q \in Procs, Busy(q) \/ Crash(q), doomed'[p] # {} PROVE Floor(p)'
  <2>1. GiveUp(q)
    BY <1>5 DEF Busy, Crash
  <2>2. /\ q # p /\ doomed'[p] = doomed[p] /\ raced'[p] = raced[p]
        /\ purge'[p] = purge[p] /\ pc'[p] = pc[p] /\ scans' = scans
    BY <1>5, <2>1 DEF GiveUp, db
  <2> QED
    BY <1>0, <2>2, FloorFrame
<1>6. ASSUME NEW q \in Procs, PurgeOlder(q) \/ PurgeKeep(q) PROVE Floor(p)'
  <2>1. CASE q = p
    BY <1>6, <2>1, SelectFloor
  <2>2. CASE q # p
    <3>1. /\ doomed'[p] = doomed[p] /\ raced'[p] = raced[p] /\ purge'[p] = purge[p]
          /\ pc'[p] = pc[p] /\ scans' = scans
      BY <1>6, <2>2 DEF PurgeOlder, PurgeKeep, SelectDoomed, db
    <3> QED
      BY <1>0, <3>1, FloorFrame
  <2> QED
    BY <2>1, <2>2
<1>7. CASE UNCHANGED vars
  BY <1>0, <1>7, FloorFrame DEF vars
<1> QED
  BY <1>1, <1>2, <1>3, <1>4, <1>5, <1>6, <1>7 DEF Next, Begin, Write

(* purge --keep-last N, which selects in one statement and deletes in a    *)
(* later one, never deletes one of the N newest snapshots unless another   *)
(* purge committed in between, however many snapshots, targets and         *)
(* processes there are (Store.scans_beyond_keep, cli.py purge).            *)
THEOREM PurgeKeepsNewest == Spec => []KeepFloor
<1>1. Init => FloorInv
  BY DEF Init, FloorInv, Floor
<1>2. FloorInv => KeepFloor
  BY DEF FloorInv, Floor, KeepFloor
<1>3. Spec => []StoreInv
  BY StoreInvariant
<1> QED
  BY <1>1, <1>2, <1>3, FloorStep, PTL DEF Spec

-----------------------------------------------------------------------------
ShowsReports == Snapshots = [i \in Ids |-> IF i \in scans THEN report[i] ELSE NONE]

(* What the store shows of a snapshot is the report that was saved.        *)
LEMMA StoredIsReport == StoreInv => ShowsReports
<1> SUFFICES ASSUME StoreInv PROVE ShowsReports
  OBVIOUS
<1>1. ASSUME NEW i \in scans PROVE Stored(i) = report[i]
  <2>1. report[i] \in Reports
    BY <1>1 DEF StoreInv, TypeOK, DbType, SavingType, CurInv
  <2>2. report[i].rows \in [Tables -> SUBSET Rows]
    BY <2>1, StoreAssumption DEF Reports
  <2>3. [k \in Tables |-> rows[k][i]] = report[i].rows
    BY <1>1, <2>2 DEF StoreInv, SnapshotIntegrity, TypeOK, DbType
  <2> QED
    BY <2>1, <2>3 DEF Stored, Reports
<1> QED
  BY <1>1 DEF ShowsReports, Snapshots

(* Every step of the commands is one step of the table of snapshots, or    *)
(* does not show.                                                          *)
LEMMA TableStep == StoreInv /\ StoreInv' /\ [Next]_vars => [Table!Next]_(Table!vars)
<1> SUFFICES ASSUME StoreInv, StoreInv', [Next]_vars PROVE [Table!Next]_(Table!vars)
  OBVIOUS
<1>0. /\ Snapshots = [i \in Ids |-> IF i \in scans THEN report[i] ELSE NONE]
      /\ Snapshots' = [i \in Ids |-> IF i \in scans' THEN report'[i] ELSE NONE]
  <2>1. ShowsReports /\ ShowsReports'
    BY StoredIsReport, PTL
  <2> QED
    BY <2>1 DEF ShowsReports
<1> USE StoreAssumption, NoneIsNoReport DEF StoreInv, TypeOK, DbType, SavingType
<1>1. ASSUME NEW p \in Procs, ScanServer(p) PROVE Table!Next
  <2>1. PICK i \in Ids, r \in Reports :
          /\ report[i] = NONE
          /\ report' = [report EXCEPT ![i] = r]
          /\ cur' = [cur EXCEPT ![p] = i]
    BY <1>1 DEF ScanServer, Reports
  <2>2. cur[p] = NONE /\ scans' = scans
    BY <1>1 DEF ScanServer, CurInv, db
  <2>3. Snapshots' = Snapshots
    BY <1>0, <2>1, <2>2 DEF CurInv
  <2>4. report'[i] \in Reports /\ report' = [report EXCEPT ![i] = report'[i]]
    BY <2>1
  <2>5. Table!Produce(p, i)
    BY <2>1, <2>2, <2>3, <2>4 DEF Table!Produce
  <2> QED
    BY <2>5 DEF Table!Next
<1>2. ASSUME NEW p \in Procs, SaveCommit(p) PROVE Table!Next
  <2>1. /\ scans' = scans \cup {cur[p]} /\ report' = report
        /\ cur' = [cur EXCEPT ![p] = NONE]
    BY <1>2 DEF SaveCommit, Commit, TxInv, SaveTx
  <2>2. cur[p] \in Ids /\ cur[p] # NONE
    BY <1>2 DEF SaveCommit, CurInv
  <2>3. Snapshots' = [Snapshots EXCEPT ![cur[p]] = report[cur[p]]]
    BY <1>0, <2>1, <2>2
  <2>4. Table!Put(p)
    BY <2>1, <2>2, <2>3 DEF Table!Put
  <2> QED
    BY <2>4 DEF Table!Next
<1>3. ASSUME NEW p \in Procs, PurgeCommit(p) PROVE Table!Next
  <2>1. scans' = scans \ doomed[p] /\ report' = report /\ cur' = cur
    BY <1>3 DEF PurgeCommit, Commit, TxInv, PurgeTx, saving
  <2>2. Snapshots' = [i \in Ids |-> IF i \in doomed[p] THEN NONE ELSE Snapshots[i]]
    BY <1>0, <2>1
  <2>3. Table!Remove(doomed[p]) /\ doomed[p] \in SUBSET Ids
    BY <2>1, <2>2 DEF Table!Remove, PurgingType
  <2> QED
    BY <2>3 DEF Table!Next
<1>4. CASE UNCHANGED <<report, cur, scans>>
  BY <1>0, <1>4 DEF Table!vars
<1>5. ASSUME NEW p \in Procs, Busy(p) \/ Crash(p) PROVE [Table!Next]_(Table!vars)
  <2>1. scans' = scans /\ report' = report /\ cur' = [cur EXCEPT ![p] = NONE]
    BY <1>5 DEF Busy, Crash, GiveUp, db
  <2>2. CASE cur[p] = NONE
    BY <1>4, <2>1, <2>2
  <2>3. CASE cur[p] # NONE
    <3>1. Table!Lose(p)
      BY <1>0, <2>1, <2>3 DEF Table!Lose
    <3> QED
      BY <3>1 DEF Table!Next
  <2> QED
    BY <2>2, <2>3
<1>6. ASSUME NEW p \in Procs,
             PurgeOlder(p) \/ PurgeKeep(p) \/ SaveScan(p) \/ SaveChildren(p)
               \/ DeleteScans(p) \/ Read(p)
      PROVE UNCHANGED <<report, cur, scans>>
  BY <1>6 DEF PurgeOlder, PurgeKeep, SelectDoomed, SaveScan, SaveChildren, DeleteScans,
    Read, LoadScan, LoadMissing, LoadChildren, LoadReturn, Answer, saving, db
<1>7. ASSUME NEW p \in Procs, Show(p) \/ DiffLatest(p) \/ DiffSince(p) \/ List(p)
      PROVE UNCHANGED <<report, cur, scans>>
  BY <1>7, StartsReading DEF StartReading, saving, db
<1>8. CASE UNCHANGED vars
  BY <1>4, <1>8 DEF vars
<1> QED
  BY <1>1, <1>2, <1>3, <1>4, <1>5, <1>6, <1>7, <1>8 DEF Next, Begin, Write

(* The statements of storage/store.py, interleaved with those of the other *)
(* processes and cut short anywhere, implement SnapshotTable: a save is    *)
(* one step, a purge is one step, and nothing else shows.                  *)
THEOREM Refinement == Spec => ImplementsTable
<1>1. Init => Table!Init
  BY DEF Init, Table!Init, Snapshots
<1>2. Spec => []StoreInv
  BY StoreInvariant
<1> QED
  BY <1>1, <1>2, TableStep, PTL DEF Spec, ImplementsTable, Table!Spec
=============================================================================
