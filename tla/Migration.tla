----------------------------- MODULE Migration -----------------------------
(***************************************************************************)
(* storage/store.py, Store.__init__ and _migrate: every command opens the  *)
(* database, creates what is missing of the first schema, makes a backup   *)
(* of an older database and upgrades it version by version. The module     *)
(* sqlite3 opens a transaction only before an INSERT: each ALTER TABLE is  *)
(* final by itself, and the version is committed with its row of           *)
(* schema_migrations only. Two commands may upgrade at once, and either    *)
(* may die anywhere (killed, database busy, disk full).                    *)
(*                                                                         *)
(* An addition is <<version, n>>. `origin` and `disturbed` are             *)
(* observations.                                                           *)
(***************************************************************************)
EXTENDS Integers, Sequences

CONSTANTS
  Procs,
  Additions,  \* Additions[v]: how many columns or tables migration v adds
  Guarded,    \* versions that use CREATE TABLE IF NOT EXISTS
  NONE, EMPTY

Latest == Len(Additions)
AddedBy(v) == {<<v, n>> : n \in 1..Additions[v]}
UpTo(v) == UNION {AddedBy(w) : w \in 1..v}
Databases == [version : 0..Latest, has : SUBSET UpTo(Latest)]

MigrationAssumption ==
  /\ Additions \in Seq(Nat \ {0})
  /\ Guarded \subseteq DOMAIN Additions
  /\ NONE \notin Databases /\ EMPTY \notin Databases /\ NONE # EMPTY

VARIABLES
  db,         \* the database: version and additions, NONE without a file
  backup,     \* backup[v]: the file .bak-v, NONE, EMPTY or a database
  pc,
  existed,    \* existed[p]: whether p found a database
  current,    \* current[p]: the version p read, then the one it has reached
  step,       \* step[p]: additions of the next version p has dealt with
  origin,     \* the database there was before all this, NONE without one
  disturbed   \* whether commands overlapped or one died during a backup

local == <<existed, current, step>>
observed == <<origin, disturbed>>
vars == <<db, backup, pc, existed, current, step, origin, disturbed>>

(* Old databases are those an earlier release left: a version, whole.      *)
Old(v) == [version |-> v, has |-> UpTo(v)]

Init ==
  /\ db \in {NONE} \cup {Old(v) : v \in 0..Latest}
  /\ backup = [v \in 0..Latest |-> NONE]
  /\ pc = [p \in Procs |-> "idle"]
  /\ existed = [p \in Procs |-> FALSE]
  /\ current = [p \in Procs |-> 0]
  /\ step = [p \in Procs |-> 0]
  /\ origin = db
  /\ disturbed = FALSE

Goto(p, to) == pc' = [pc EXCEPT ![p] = to]

Forget(p) ==
  /\ Goto(p, "idle")
  /\ existed' = [existed EXCEPT ![p] = FALSE]
  /\ current' = [current EXCEPT ![p] = 0]
  /\ step' = [step EXCEPT ![p] = 0]

Begin(p) ==
  /\ pc[p] = "idle"
  /\ existed' = [existed EXCEPT ![p] = db # NONE]
  /\ Goto(p, "connecting")
  /\ disturbed' = (disturbed \/ \E q \in Procs \ {p} : pc[q] # "idle")
  /\ UNCHANGED <<db, backup, current, step, origin>>

(* The script of the first schema is CREATE ... IF NOT EXISTS throughout.  *)
Connect(p) ==
  /\ pc[p] = "connecting"
  /\ db' = IF db = NONE THEN Old(0) ELSE db
  /\ Goto(p, "reading")
  /\ UNCHANGED <<backup, local, observed>>

(* Faulty variant: a backup is made whether or not there is one.           *)
NeedsBackupAlways(p, v) == existed[p]

NeedsBackup(p, v) == existed[p] /\ backup[v] = NONE

ReadVersion(p) ==
  /\ pc[p] = "reading"
  /\ current' = [current EXCEPT ![p] = db.version]
  /\ IF db.version = Latest THEN Goto(p, "open") /\ UNCHANGED backup
     ELSE IF NeedsBackup(p, db.version)
     THEN /\ Goto(p, "copying")
          /\ backup' = [backup EXCEPT ![db.version] = EMPTY]
     ELSE Goto(p, "checking") /\ UNCHANGED backup
  /\ UNCHANGED <<db, existed, step, observed>>

(* sqlite3.backup copies all pages in one transaction of the new file.     *)
Copy(p) ==
  /\ pc[p] = "copying"
  /\ backup' = [backup EXCEPT ![current[p]] = db]
  /\ Goto(p, "checking")
  /\ UNCHANGED <<db, local, observed>>

Adding(p) == <<current[p] + 1, step[p] + 1>>
MoreToAdd(p) == step[p] < Additions[current[p] + 1]

(* PRAGMA table_info: is the column there?                                 *)
SkipAddition(p) ==
  /\ pc[p] = "checking"
  /\ MoreToAdd(p)
  /\ Adding(p) \in db.has
  /\ step' = [step EXCEPT ![p] = @ + 1]
  /\ UNCHANGED <<db, backup, pc, existed, current, observed>>

MissesAddition(p) ==
  /\ pc[p] = "checking"
  /\ MoreToAdd(p)
  /\ Adding(p) \notin db.has
  /\ Goto(p, "adding")
  /\ UNCHANGED <<db, backup, local, observed>>

Add(p) ==
  /\ pc[p] = "adding"
  /\ Adding(p) \notin db.has \/ Adding(p)[1] \in Guarded
  /\ db' = [db EXCEPT !.has = @ \cup {Adding(p)}]
  /\ step' = [step EXCEPT ![p] = @ + 1]
  /\ Goto(p, "checking")
  /\ UNCHANGED <<backup, existed, current, observed>>

(* Somebody else added the column: OperationalError, the command ends.     *)
AddFails(p) ==
  /\ pc[p] = "adding"
  /\ Adding(p) \in db.has /\ Adding(p)[1] \notin Guarded
  /\ Forget(p)
  /\ UNCHANGED <<db, backup, observed>>

(* Faulty variant: the version is committed before the last addition.      *)
CommitVersionEarly(p) ==
  /\ pc[p] = "checking"
  /\ step[p] + 1 >= Additions[current[p] + 1]
  /\ db' = [db EXCEPT !.version = current[p] + 1]
  /\ current' = [current EXCEPT ![p] = @ + 1]
  /\ step' = [step EXCEPT ![p] = 0]
  /\ Goto(p, IF current[p] + 1 = Latest THEN "open" ELSE "checking")
  /\ UNCHANGED <<backup, existed, observed>>

(* The row of schema_migrations and user_version, one transaction. It may  *)
(* take the version back when another command was faster.                  *)
CommitVersion(p) ==
  /\ pc[p] = "checking"
  /\ ~MoreToAdd(p)
  /\ db' = [db EXCEPT !.version = current[p] + 1]
  /\ current' = [current EXCEPT ![p] = @ + 1]
  /\ step' = [step EXCEPT ![p] = 0]
  /\ Goto(p, IF current[p] + 1 = Latest THEN "open" ELSE "checking")
  /\ UNCHANGED <<backup, existed, observed>>

Close(p) ==
  /\ pc[p] = "open"
  /\ Forget(p)
  /\ UNCHANGED <<db, backup, observed>>

Crash(p) ==
  /\ pc[p] # "idle"
  /\ Forget(p)
  /\ disturbed' = (disturbed \/ pc[p] = "copying")
  /\ UNCHANGED <<db, backup, origin>>

Next ==
  \E p \in Procs :
    \/ Begin(p) \/ Connect(p) \/ ReadVersion(p) \/ Copy(p)
    \/ SkipAddition(p) \/ MissesAddition(p) \/ Add(p) \/ AddFails(p)
    \/ CommitVersion(p) \/ Close(p) \/ Crash(p)

Spec == Init /\ [][Next]_vars

-----------------------------------------------------------------------------
TypeOK ==
  /\ db \in Databases \cup {NONE}
  /\ backup \in [0..Latest -> Databases \cup {NONE, EMPTY}]
  /\ pc \in [Procs -> {"idle", "connecting", "reading", "copying", "checking",
                       "adding", "open"}]
  /\ existed \in [Procs -> BOOLEAN]
  /\ current \in [Procs -> 0..Latest]
  /\ \A p \in Procs : pc[p] \in {"checking", "adding"} =>
       current[p] < Latest /\ step[p] \in 0..Additions[current[p] + 1]

(* No command ever works on a database that lacks a column it uses, and    *)
(* the version never promises more than there is: not when an upgrade was  *)
(* cut off between two ALTERs, not when two commands upgrade at once and   *)
(* one takes the version back (store.py:124-184).                          *)
OpenHasAll ==
  /\ \A p \in Procs : pc[p] = "open" => db.has = UpTo(Latest)
  /\ db # NONE => UpTo(db.version) \subseteq db.has

(* Unless commands overlapped or one died while copying, the database as   *)
(* it was before the upgrade is kept in its backup as long as it may be    *)
(* needed, however often the upgrade was cut off (store.py:128-135).       *)
WayBack ==
  ~disturbed /\ origin # NONE /\ db # origin =>
    backup[origin.version] = origin
=============================================================================
