---------------------------- MODULE SnapshotStore ----------------------------
(***************************************************************************)
(* storage/store.py and the commands that use its snapshot tables: scan    *)
(* (save), show, export, list and diff (load) and purge (delete), run by   *)
(* several processes over one SQLite file in WAL mode.                     *)
(*                                                                         *)
(* SQLite (external) is modelled by what the code relies on: one writer at *)
(* a time, a writer's changes invisible until COMMIT, rolled back when the *)
(* process dies or raises, and every SELECT outside a transaction reading  *)
(* the latest commit. Python opens a transaction at the first INSERT or    *)
(* DELETE; the SELECTs of Store.load therefore run in no transaction.      *)
(*                                                                         *)
(* The columns of a row of table scans are the fields of its report, so    *)
(* the table is the set of its ids; a child table maps an id to its rows.  *)
(* Timestamps are counted; two reports never carry the same one.           *)
(***************************************************************************)
EXTENDS Integers, FiniteSets, Sequences

CONSTANTS
  Procs,     \* operating-system processes, each running commands in turn
  Ids,       \* snapshot identifiers
  LowIds,    \* those whose hex text sorts before every timestamp ("0...")
  Targets,   \* scanned servers
  Rows,      \* contents of a child row
  Contents,  \* what a scan can find: its rows for every child table
  Keeps,     \* values of --keep-last
  LastTable, \* number of child tables: 5 in the code
  NONE

(* Child tables in the order _save_report writes them and load reads them: *)
(* tools, prompts, resources, resource_templates, findings.                *)
Tables == 1..LastTable

ASSUME StoreAssumption ==
  /\ LowIds \subseteq Ids
  /\ IsFiniteSet(Ids)
  /\ LastTable \in Nat \ {0}
  /\ Contents \subseteq [Tables -> SUBSET Rows]
  /\ Keeps \subseteq Nat \ {0}     \* --keep-last 0 is refused, cli.py:943
  /\ NONE \notin Ids \cup Procs \cup Targets

Reports == [target : Targets, at : Nat, rows : Contents]

ASSUME NoneIsNoReport == NONE \notin Reports

VARIABLES
  clock,     \* the next timestamp
  report,    \* report[i]: the report with id i, once a scan has produced it
  scans,     \* committed rows of table scans
  rows,      \* rows[k][i]: committed rows of child table k for snapshot i
  writer,    \* the process holding SQLite's write lock, or NONE
  txScans,   \* the writer's own view of scans and rows
  txRows,
  pc,        \* what each process is doing
  cur,       \* cur[p]: id of the report p is about to save
  step,      \* step[p]: next child table to write or to read
  doomed,    \* doomed[p]: ids a purge has selected
  purge,     \* purge[p]: the arguments of the purge, for KeepFloor
  raced,     \* raced[p]: another purge committed since p selected its ids
  kind,      \* kind[p]: which reading command p runs
  queue,     \* queue[p]: ids it still has to load
  seen,      \* seen[p]: child rows of Head(queue[p]) read so far
  got        \* got[p]: the snapshots it has loaded

db == <<scans, rows>>
tx == <<writer, txScans, txRows>>
saving == <<clock, report, cur>>
purging == <<doomed, purge, raced>>
reading == <<kind, queue, seen, got>>
vars == <<clock, report, scans, rows, writer, txScans, txRows, pc, cur, step,
          doomed, purge, raced, kind, queue, seen, got>>

Empty == [k \in Tables |-> {}]
NoRows == [k \in Tables |-> [i \in Ids |-> {}]]
Loaded == [id : Ids, rows : [Tables -> SUBSET Rows]]
NoPurge == [target |-> NONE, keep |-> 0]

Init ==
  /\ clock = 1
  /\ report = [i \in Ids |-> NONE]
  /\ scans = {}
  /\ rows = NoRows
  /\ writer = NONE
  /\ txScans = {}
  /\ txRows = NoRows
  /\ pc = [p \in Procs |-> "idle"]
  /\ cur = [p \in Procs |-> NONE]
  /\ step = [p \in Procs |-> 1]
  /\ doomed = [p \in Procs |-> {}]
  /\ purge = [p \in Procs |-> NoPurge]
  /\ raced = [p \in Procs |-> FALSE]
  /\ kind = [p \in Procs |-> "show"]
  /\ queue = [p \in Procs |-> <<>>]
  /\ seen = [p \in Procs |-> Empty]
  /\ got = [p \in Procs |-> <<>>]

-----------------------------------------------------------------------------
(* Queries over the committed scans table. t = NONE: no --target given.    *)

At(i) == report[i].at
Of(t) == {i \in scans : t = NONE \/ report[i].target = t}
NewerIn(S, i) == {j \in S : At(j) > At(i)}

ScansOlderThan(t, cutoff) == {i \in Of(t) : At(i) < cutoff}
(* Faulty variant: rows[keep - 1:], one snapshot too many.                 *)
ScansBeyondKeepOffByOne(t, n) ==
  {i \in Of(t) : Cardinality(NewerIn(Of(t), i)) >= n - 1}

ScansBeyondKeep(t, n) == {i \in Of(t) : Cardinality(NewerIn(Of(t), i)) >= n}

(* scan_since compares the argument with scanned_at as text before it      *)
(* looks it up as an id: an id that sorts low matches every timestamp.     *)
ScanSince(t, i) ==
  IF i \in LowIds /\ Of(t) # {} THEN Of(t)
  ELSE {j \in Of(t) : i \in scans /\ At(j) > At(i)}

Newest(S) == {i \in S : NewerIn(S, i) = {}}
Oldest(S) == {i \in S : \A j \in S : At(i) <= At(j)}

-----------------------------------------------------------------------------
(* The locals of a command die with it.                                    *)
ForgetReading(p) ==
  /\ kind' = [kind EXCEPT ![p] = "show"]
  /\ queue' = [queue EXCEPT ![p] = <<>>]
  /\ seen' = [seen EXCEPT ![p] = Empty]
  /\ got' = [got EXCEPT ![p] = <<>>]

(* COMMIT publishes the writer's view and releases the lock; ROLLBACK only *)
(* releases it.                                                            *)

Rollback == writer' = NONE /\ txScans' = {} /\ txRows' = NoRows
Commit == scans' = txScans /\ rows' = txRows /\ Rollback

(* scan: produce a report, then save it in one transaction.                *)

(* Faulty variant: an id derived from the target, hence drawn again.       *)
ScanServerReusedId(p) ==
  /\ pc[p] = "idle"
  /\ \E i \in Ids, t \in Targets, c \in Contents :
       /\ report' = [report EXCEPT ![i] = [target |-> t, at |-> clock, rows |-> c]]
       /\ cur' = [cur EXCEPT ![p] = i]
  /\ clock < 4
  /\ clock' = clock + 1
  /\ pc' = [pc EXCEPT ![p] = "scanned"]
  /\ UNCHANGED <<db, tx, step, purging, reading>>

ScanServer(p) ==
  /\ pc[p] = "idle"
  /\ \E i \in Ids, t \in Targets, c \in Contents :
       /\ report[i] = NONE
       /\ report' = [report EXCEPT ![i] = [target |-> t, at |-> clock, rows |-> c]]
       /\ cur' = [cur EXCEPT ![p] = i]
  /\ clock' = clock + 1
  /\ pc' = [pc EXCEPT ![p] = "scanned"]
  /\ UNCHANGED <<db, tx, step, purging, reading>>

(* Faulty variant: no transaction, the row is visible before its children. *)
SaveScanAutocommit(p) ==
  /\ pc[p] = "scanned"
  /\ writer = NONE
  /\ writer' = p
  /\ scans' = scans \cup {cur[p]}
  /\ txScans' = scans'
  /\ txRows' = rows
  /\ pc' = [pc EXCEPT ![p] = "saving"]
  /\ UNCHANGED <<rows, saving, step, purging, reading>>

(* INSERT OR REPLACE opens the transaction; the five DELETEs follow it.    *)
SaveScan(p) ==
  /\ pc[p] = "scanned"
  /\ writer = NONE
  /\ writer' = p
  /\ txScans' = scans \cup {cur[p]}
  /\ txRows' = [k \in Tables |-> [rows[k] EXCEPT ![cur[p]] = {}]]
  /\ pc' = [pc EXCEPT ![p] = "saving"]
  /\ UNCHANGED <<db, saving, step, purging, reading>>

SaveChildren(p) ==
  /\ pc[p] = "saving"
  /\ step[p] \in Tables
  /\ txRows' = [txRows EXCEPT ![step[p]][cur[p]] = report[cur[p]].rows[step[p]]]
  /\ step' = [step EXCEPT ![p] = @ + 1]
  /\ UNCHANGED <<db, saving, writer, txScans, pc, purging, reading>>

SaveCommit(p) ==
  /\ pc[p] = "saving"
  /\ step[p] \notin Tables
  /\ Commit
  /\ pc' = [pc EXCEPT ![p] = "idle"]
  /\ cur' = [cur EXCEPT ![p] = NONE]
  /\ step' = [step EXCEPT ![p] = 1]
  /\ UNCHANGED <<clock, report, purging, reading>>

-----------------------------------------------------------------------------
(* purge: select ids in one query, delete and commit them later.           *)

SelectDoomed(p, S, t, n) ==
  /\ pc[p] = "idle"
  /\ S # {}
  /\ doomed' = [doomed EXCEPT ![p] = S]
  /\ purge' = [purge EXCEPT ![p] = [target |-> t, keep |-> n]]
  /\ raced' = [raced EXCEPT ![p] = FALSE]
  /\ pc' = [pc EXCEPT ![p] = "selected"]
  /\ UNCHANGED <<db, tx, saving, step, reading>>

PurgeOlder(p) ==
  \E t \in Targets \cup {NONE}, cutoff \in 2..clock :
     SelectDoomed(p, ScansOlderThan(t, cutoff), t, 0)

PurgeKeep(p) ==
  \E t \in Targets \cup {NONE}, n \in Keeps :
     SelectDoomed(p, ScansBeyondKeep(t, n), t, n)

(* Faulty variant: a table declared without ON DELETE CASCADE.             *)
DeleteScansNoCascade(p) ==
  /\ pc[p] = "selected"
  /\ writer = NONE
  /\ writer' = p
  /\ txScans' = scans \ doomed[p]
  /\ txRows' = [k \in Tables |->
                  [i \in Ids |-> IF i \in doomed[p] /\ k = 1 THEN {} ELSE rows[k][i]]]
  /\ pc' = [pc EXCEPT ![p] = "purging"]
  /\ UNCHANGED <<db, saving, step, purging, reading>>

(* ON DELETE CASCADE empties the five child tables (foreign_keys=ON).      *)
DeleteScans(p) ==
  /\ pc[p] = "selected"
  /\ writer = NONE
  /\ writer' = p
  /\ txScans' = scans \ doomed[p]
  /\ txRows' = [k \in Tables |->
                  [i \in Ids |-> IF i \in doomed[p] THEN {} ELSE rows[k][i]]]
  /\ pc' = [pc EXCEPT ![p] = "purging"]
  /\ UNCHANGED <<db, saving, step, purging, reading>>

PurgeCommit(p) ==
  /\ pc[p] = "purging"
  /\ Commit
  /\ pc' = [pc EXCEPT ![p] = "idle"]
  /\ doomed' = [doomed EXCEPT ![p] = {}]
  /\ purge' = [purge EXCEPT ![p] = NoPurge]
  /\ raced' = [q \in Procs |-> q # p /\ doomed[q] # {}]
  /\ UNCHANGED <<saving, step, reading>>

-----------------------------------------------------------------------------
(* show, export, list, diff: load snapshots one after the other, each by   *)
(* one SELECT on scans and one per child table.                            *)

StartReading(p, c, q) ==
  /\ pc[p] = "idle"
  /\ kind' = [kind EXCEPT ![p] = c]
  /\ queue' = [queue EXCEPT ![p] = q]
  /\ pc' = [pc EXCEPT ![p] = "loading"]
  /\ UNCHANGED <<db, tx, saving, step, purging, seen, got>>

Show(p) == \E i \in Ids : StartReading(p, "show", <<i>>)

(* diff SERVER: the two newest, newest first.                              *)
DiffLatest(p) ==
  \E t \in Targets : \E i \in Newest(Of(t)) : \E j \in Newest(Of(t) \ {i}) :
     StartReading(p, "diff", <<i, j>>)

(* diff SERVER --since ID: newest and oldest of the scans since ID.        *)
DiffSince(p) ==
  \E t \in Targets, r \in Ids :
    /\ r \in Of(t)
    /\ Cardinality(ScanSince(t, r)) >= 2
    /\ \E i \in Newest(ScanSince(t, r)), j \in Oldest(ScanSince(t, r)) :
         StartReading(p, "since", <<i, j>>)

(* list SERVER: a snapshot that cannot be loaded is shown as "?".          *)
List(p) ==
  \E t \in Targets : \E i \in Newest(Of(t)) : \E j \in Newest(Of(t) \ {i}) :
     StartReading(p, "list", <<i, j>>)

LoadScan(p) ==
  /\ pc[p] = "loading"
  /\ queue[p] # <<>>
  /\ Head(queue[p]) \in scans
  /\ pc' = [pc EXCEPT ![p] = "reading"]
  /\ UNCHANGED <<db, tx, saving, step, purging, kind, queue, seen, got>>

(* LookupError: list skips the row, every other command gives up.          *)
LoadMissing(p) ==
  /\ pc[p] = "loading"
  /\ queue[p] # <<>>
  /\ Head(queue[p]) \notin scans
  /\ IF kind[p] = "list"
     THEN /\ queue' = [queue EXCEPT ![p] = Tail(@)]
          /\ UNCHANGED <<pc, kind, seen, got>>
     ELSE /\ pc' = [pc EXCEPT ![p] = "idle"]
          /\ ForgetReading(p)
  /\ UNCHANGED <<db, tx, saving, step, purging>>

LoadChildren(p) ==
  /\ pc[p] = "reading"
  /\ queue[p] # <<>>
  /\ step[p] \in Tables
  /\ seen' = [seen EXCEPT ![p][step[p]] = rows[step[p]][Head(queue[p])]]
  /\ step' = [step EXCEPT ![p] = @ + 1]
  /\ UNCHANGED <<db, tx, saving, pc, purging, kind, queue, got>>

(* Faulty variant: the position in the list of tables is not rewound.      *)
LoadReturnNoRewind(p) ==
  /\ pc[p] = "reading"
  /\ queue[p] # <<>>
  /\ step[p] \notin Tables
  /\ got' = [got EXCEPT ![p] = Append(@, [id |-> Head(queue[p]), rows |-> seen[p]])]
  /\ queue' = [queue EXCEPT ![p] = Tail(@)]
  /\ seen' = [seen EXCEPT ![p] = Empty]
  /\ step' = [step EXCEPT ![p] = @ + 1]
  /\ pc' = [pc EXCEPT ![p] = "loading"]
  /\ UNCHANGED <<db, tx, saving, purging, kind>>

LoadReturn(p) ==
  /\ pc[p] = "reading"
  /\ queue[p] # <<>>
  /\ step[p] \notin Tables
  /\ got' = [got EXCEPT ![p] = Append(@, [id |-> Head(queue[p]), rows |-> seen[p]])]
  /\ queue' = [queue EXCEPT ![p] = Tail(@)]
  /\ seen' = [seen EXCEPT ![p] = Empty]
  /\ step' = [step EXCEPT ![p] = 1]
  /\ pc' = [pc EXCEPT ![p] = "loading"]
  /\ UNCHANGED <<db, tx, saving, purging, kind>>

(* Everything is loaded: print the reports, or compare got[1] (report_a)   *)
(* with got[2] (report_b).                                                 *)
Answer(p) ==
  /\ pc[p] = "loading"
  /\ queue[p] = <<>>
  /\ pc' = [pc EXCEPT ![p] = "idle"]
  /\ ForgetReading(p)
  /\ UNCHANGED <<db, tx, saving, step, purging>>

-----------------------------------------------------------------------------
(* The command ends early: killed, an exception in the middle of a save    *)
(* (rollback by `with self._conn`), or the connection closed unfinished.   *)
GiveUp(p) ==
  /\ pc' = [pc EXCEPT ![p] = "idle"]
  /\ cur' = [cur EXCEPT ![p] = NONE]
  /\ doomed' = [doomed EXCEPT ![p] = {}]
  /\ purge' = [purge EXCEPT ![p] = NoPurge]
  /\ raced' = [raced EXCEPT ![p] = FALSE]
  /\ step' = [step EXCEPT ![p] = 1]
  /\ ForgetReading(p)
  /\ UNCHANGED <<clock, report, db>>

Crash(p) ==
  /\ pc[p] # "idle"
  /\ IF writer = p THEN Rollback ELSE UNCHANGED tx
  /\ GiveUp(p)

(* "database is locked" once the 5 s busy timeout is over.                 *)
Busy(p) ==
  /\ pc[p] \in {"scanned", "selected"}
  /\ writer \notin {NONE, p}
  /\ UNCHANGED tx
  /\ GiveUp(p)

Write(p) ==
  \/ SaveScan(p) \/ SaveChildren(p) \/ SaveCommit(p)
  \/ DeleteScans(p) \/ PurgeCommit(p) \/ Busy(p)
Read(p) ==
  \/ LoadScan(p) \/ LoadMissing(p) \/ LoadChildren(p) \/ LoadReturn(p) \/ Answer(p)
Begin(p) ==
  \/ ScanServer(p) \/ PurgeOlder(p) \/ PurgeKeep(p)
  \/ Show(p) \/ DiffLatest(p) \/ DiffSince(p) \/ List(p)

Next == \E p \in Procs : Begin(p) \/ Write(p) \/ Read(p) \/ Crash(p)

Spec == Init /\ [][Next]_vars

-----------------------------------------------------------------------------
DbType ==
  /\ scans \subseteq Ids
  /\ rows \in [Tables -> [Ids -> SUBSET Rows]]
TxType ==
  /\ writer \in Procs \cup {NONE}
  /\ txScans \subseteq Ids
  /\ txRows \in [Tables -> [Ids -> SUBSET Rows]]
ControlType ==
  /\ pc \in [Procs -> {"idle", "scanned", "saving", "selected", "purging",
                         "loading", "reading"}]
  /\ step \in [Procs -> 1..(LastTable + 1)]
SavingType ==
  /\ clock \in Nat \ {0}
  /\ report \in [Ids -> Reports \cup {NONE}]
  /\ cur \in [Procs -> Ids \cup {NONE}]
PurgingType ==
  /\ doomed \in [Procs -> SUBSET Ids]
  /\ purge \in [Procs -> [target : Targets \cup {NONE}, keep : Nat]]
  /\ raced \in [Procs -> BOOLEAN]
ReadingType ==
  /\ kind \in [Procs -> {"show", "diff", "since", "list"}]
  /\ queue \in [Procs -> Seq(Ids)]
  /\ seen \in [Procs -> [Tables -> SUBSET Rows]]
  /\ got \in [Procs -> Seq(Loaded)]

(* Every variable stays in its type: the database and the writer's view of *)
(* it are tables of sets of rows, and every process knows where it is in   *)
(* its command (storage/store.py, cli.py).                                 *)
TypeOK ==
  /\ DbType /\ TxType /\ ControlType
  /\ SavingType /\ PurgingType /\ ReadingType

(* Whatever is killed or fails in the middle of a save or a purge, and     *)
(* whichever process gets the write lock, a committed snapshot has exactly *)
(* the child rows of the report that was saved, in every table, and no     *)
(* child row outlives its snapshot (Store.save, delete_scans).             *)
SnapshotIntegrity ==
  \A i \in Ids, k \in Tables :
    rows[k][i] = IF i \in scans THEN report[i].rows[k] ELSE {}

(* What load assembled for snapshot i is the saved report, unless a purge  *)
(* removed i in the meantime: then the tables from some point on are empty *)
(* and those before it are whole. A load never mixes anything else.        *)
CutOff(i, r, n) ==
  /\ \A k \in Tables : r[k] = IF k <= n THEN report[i].rows[k] ELSE {}
  /\ i \in scans => n = LastTable

LoadIsPrefix ==
  \A p \in Procs : \A x \in DOMAIN got[p] :
    \E n \in 0..LastTable : CutOff(got[p][x].id, got[p][x].rows, n)

(* A purge --keep-last N deletes by a list of ids computed earlier. As     *)
(* long as no other purge committed in between, none of the ids it is      *)
(* about to delete is among the N newest snapshots of its target (of all,  *)
(* when no target is given), however many scans were saved since.          *)
KeepFloor ==
  \A p \in Procs : \A i \in doomed[p] \cap scans :
    ~raced[p] => Cardinality(NewerIn(Of(purge[p].target), i)) >= purge[p].keep

(* The commands run by the statements above implement SnapshotTable: the   *)
(* five-table save and the cascading purge are seen as single steps.       *)
Stored(i) == [target |-> report[i].target, at |-> report[i].at,
              rows |-> [k \in Tables |-> rows[k][i]]]

Snapshots == [i \in Ids |-> IF i \in scans THEN Stored(i) ELSE NONE]

Table == INSTANCE SnapshotTable WITH
  produced <- report,
  unsaved <- cur,
  snapshot <- Snapshots

ImplementsTable == Table!Spec

(* cli.py:617 `--since`: "Show changes since this timestamp or scan ID":   *)
(* the changes go from the older to the newer snapshot, as in the watcher. *)
DiffGoesForward ==
  \A p \in Procs :
    kind[p] \in {"diff", "since"} /\ Len(got[p]) = 2 =>
      At(got[p][1].id) < At(got[p][2].id)

(* store.py:466 scan_since: "Return scan IDs since a given ISO timestamp   *)
(* or scan ID": nothing older than the given scan is returned.             *)
SinceStartsAtScan ==
  \A t \in Targets : \A r \in Of(t) : \A i \in ScanSince(t, r) : At(i) >= At(r)
=============================================================================
