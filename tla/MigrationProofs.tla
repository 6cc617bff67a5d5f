--------------------------- MODULE MigrationProofs ---------------------------
(***************************************************************************)
(* Proofs about the database's upgrade, for any number of processes,       *)
(* migrations and additions: a command works on a whole database only.     *)
(*                                                                         *)
(* OpenHasAll says nothing of a command in the middle of an upgrade.       *)
(* Fits(p) adds what p may rely on: what it has dealt with is in the       *)
(* database, whoever added it. It stays true of everybody else because     *)
(* nobody ever takes a column away.                                        *)
(***************************************************************************)
EXTENDS Migration, TLAPS

Upgrading == {"copying", "checking", "adding"}
States == {"idle", "connecting", "reading", "open"} \cup Upgrading

Fits(p) ==
  /\ pc[p] \in States
  /\ current[p] \in 0..Latest
  /\ step[p] \in Nat
  /\ pc[p] \notin {"idle", "connecting"} => db # NONE
  /\ pc[p] \in {"reading", "connecting", "idle", "copying"} => step[p] = 0
  /\ pc[p] \in Upgrading =>
       /\ current[p] < Latest
       /\ UpTo(current[p]) \subseteq db.has
       /\ \A n \in 1..step[p] : <<current[p] + 1, n>> \in db.has
       /\ step[p] <= Additions[current[p] + 1]
  /\ pc[p] = "adding" => step[p] < Additions[current[p] + 1]
  /\ pc[p] = "open" => UpTo(Latest) \subseteq db.has

DbInv ==
  db # NONE => db \in Databases /\ UpTo(db.version) \subseteq db.has

(* The functions of the processes, and what a backup file may be.          *)
ShapeInv ==
  /\ pc = [p \in Procs |-> pc[p]]
  /\ current = [p \in Procs |-> current[p]]
  /\ step = [p \in Procs |-> step[p]]
  /\ existed \in [Procs -> BOOLEAN]
  /\ backup \in [0..Latest -> Databases \cup {NONE, EMPTY}]

MigrationInv == ShapeInv /\ DbInv /\ \A p \in Procs : Fits(p)

(* A database holds no less than before, and is not deleted.               *)
Grows == db # NONE => db' # NONE /\ db.has \subseteq db'.has

-----------------------------------------------------------------------------
(* Migrations are numbered, and each adds something.                       *)
LEMMA Numbers ==
  ASSUME MigrationAssumption
  PROVE  /\ Latest \in Nat
         /\ \A v \in 1..Latest : Additions[v] \in Nat \ {0}
         /\ NONE \notin Databases
  BY DEF MigrationAssumption, Latest

(* A further migration adds to what the earlier ones have.                 *)
LEMMA UpToNext ==
  ASSUME NEW v \in Nat
  PROVE  UpTo(v + 1) = UpTo(v) \cup AddedBy(v + 1)
<1>1. 1..(v + 1) = 1..v \cup {v + 1}
  OBVIOUS
<1> QED
  BY <1>1 DEF UpTo

(* And all that some versions add is added by the last of them.            *)
LEMMA UpToMonotone ==
  ASSUME NEW v \in Nat, NEW w \in Nat, v <= w
  PROVE  UpTo(v) \subseteq UpTo(w)
<1>1. 1..v \subseteq 1..w
  OBVIOUS
<1> QED
  BY <1>1 DEF UpTo

(* What fits one process still fits it when the database has grown and     *)
(* somebody else has moved.                                                *)
LEMMA OthersStillFit ==
  ASSUME MigrationInv, Grows, NEW q \in Procs,
         pc'[q] = pc[q], current'[q] = current[q], step'[q] = step[q]
  PROVE  Fits(q)'
<1>1. Fits(q)
  BY DEF MigrationInv
<1> QED
  BY <1>1 DEF Fits, Grows, Upgrading, States

(* Databases of an earlier release are whole.                              *)
LEMMA OldIsWhole ==
  ASSUME MigrationAssumption, NEW v \in 0..Latest
  PROVE  Old(v) \in Databases /\ Old(v).version = v /\ Old(v).has = UpTo(v)
<1>1. UpTo(v) \subseteq UpTo(Latest)
  BY Numbers, UpToMonotone
<1> QED
  BY <1>1 DEF Old, Databases

(* Nobody has begun, and the database, if any, is an old one.              *)
LEMMA MigrationInit ==
  ASSUME MigrationAssumption, Init
  PROVE  MigrationInv
<1>1. DbInv
  BY OldIsWhole DEF Init, DbInv
<1>2. ASSUME NEW p \in Procs PROVE Fits(p)
  BY Numbers DEF Init, Fits, States, Upgrading
<1> QED
  BY <1>1, <1>2 DEF Init, MigrationInv, ShapeInv

-----------------------------------------------------------------------------
(* The steps of a process, one lemma each for those that write.            *)

(* A process that stops relies on nothing.                                 *)
LEMMA ForgettingFits ==
  ASSUME MigrationAssumption, MigrationInv, NEW p \in Procs, Forget(p),
         UNCHANGED <<db, backup>>
  PROVE  MigrationInv'
<1>1. Fits(p)'
  BY Numbers DEF Forget, Goto, Fits, States, Upgrading, MigrationInv, ShapeInv
<1>2. ASSUME NEW q \in Procs, q # p PROVE Fits(q)'
  BY <1>2, OthersStillFit DEF Forget, Goto, Grows, MigrationInv, ShapeInv
<1>3. ShapeInv'
  BY DEF Forget, Goto, MigrationInv, ShapeInv
<1> QED
  BY <1>1, <1>2, <1>3 DEF MigrationInv, DbInv

(* A command begins.                                                       *)
LEMMA BeginFits ==
  ASSUME MigrationAssumption, MigrationInv, NEW p \in Procs, Begin(p)
  PROVE  MigrationInv'
<1>1. Fits(p)'
  BY DEF Begin, Goto, Fits, States, Upgrading, MigrationInv, ShapeInv
<1>2. ASSUME NEW q \in Procs, q # p PROVE Fits(q)'
  BY <1>2, OthersStillFit DEF Begin, Goto, Grows, MigrationInv, ShapeInv
<1>3. ShapeInv'
  BY DEF Begin, Goto, MigrationInv, ShapeInv
<1> QED
  BY <1>1, <1>2, <1>3 DEF Begin, MigrationInv, DbInv

(* The first schema is created where there is no database.                 *)
LEMMA ConnectFits ==
  ASSUME MigrationAssumption, MigrationInv, NEW p \in Procs, Connect(p)
  PROVE  MigrationInv'
<1>1. Old(0) \in Databases /\ Old(0).version = 0 /\ Old(0).has = UpTo(0)
  BY Numbers, OldIsWhole
<1>2. db' # NONE /\ DbInv' /\ Grows
  BY <1>1, Numbers DEF Connect, Grows, MigrationInv, DbInv
<1>3. Fits(p)'
  BY <1>2 DEF Connect, Goto, local, Fits, States, Upgrading, MigrationInv, ShapeInv
<1>4. ASSUME NEW q \in Procs, q # p PROVE Fits(q)'
  BY <1>2, <1>4, OthersStillFit DEF Connect, Goto, local, MigrationInv, ShapeInv
<1>5. ShapeInv'
  BY DEF Connect, Goto, local, MigrationInv, ShapeInv
<1> QED
  BY <1>2, <1>3, <1>4, <1>5 DEF MigrationInv

(* The version tells how far to upgrade, and whether to copy first.        *)
LEMMA ReadVersionFits ==
  ASSUME MigrationAssumption, MigrationInv, NEW p \in Procs, ReadVersion(p)
  PROVE  MigrationInv'
<1>1. db # NONE /\ db \in Databases /\ UpTo(db.version) \subseteq db.has /\ step[p] = 0
  BY DEF ReadVersion, MigrationInv, DbInv, Fits
<1>2. db.version \in 0..Latest /\ Latest \in Nat
  BY <1>1, Numbers DEF Databases
<1>3. UNCHANGED <<db, step, existed>> /\ current' = [current EXCEPT ![p] = db.version]
  BY DEF ReadVersion
<1>4. /\ pc' = [pc EXCEPT ![p] = pc'[p]]
      /\ pc'[p] \in {"open", "copying", "checking"}
      /\ pc'[p] = "open" <=> db.version = Latest
  BY DEF ReadVersion, Goto, MigrationInv, ShapeInv
<1>5. db.version # Latest => Additions[db.version + 1] \in Nat \ {0}
  BY <1>2, Numbers
<1>6. Fits(p)'
  <2>1. current'[p] = db.version /\ step'[p] = 0
    BY <1>1, <1>3 DEF MigrationInv, ShapeInv
  <2> QED
    BY <1>1, <1>2, <1>3, <1>4, <1>5, <2>1 DEF Fits, States, Upgrading
<1>7. ASSUME NEW q \in Procs, q # p PROVE Fits(q)'
  BY <1>3, <1>4, <1>7, OthersStillFit DEF Grows, MigrationInv, ShapeInv
<1>8. backup' \in [0..Latest -> Databases \cup {NONE, EMPTY}]
  BY DEF ReadVersion, MigrationInv, ShapeInv
<1>9. ShapeInv'
  BY <1>3, <1>4, <1>8 DEF MigrationInv, ShapeInv
<1> QED
  BY <1>3, <1>6, <1>7, <1>9 DEF MigrationInv, DbInv

(* A copy leaves the database alone.                                       *)
LEMMA CopyFits ==
  ASSUME MigrationAssumption, MigrationInv, NEW p \in Procs, Copy(p)
  PROVE  MigrationInv'
<1>1. db # NONE /\ db \in Databases
  BY DEF Copy, MigrationInv, DbInv, Fits
<1>2. Fits(p)'
  BY DEF Copy, Goto, local, Fits, States, Upgrading, MigrationInv, ShapeInv
<1>3. ASSUME NEW q \in Procs, q # p PROVE Fits(q)'
  BY <1>3, OthersStillFit DEF Copy, Goto, local, Grows, MigrationInv, ShapeInv
<1>4. ShapeInv'
  BY <1>1 DEF Copy, Goto, local, MigrationInv, ShapeInv
<1> QED
  BY <1>2, <1>3, <1>4 DEF Copy, MigrationInv, DbInv

(* One more addition is in the database: p counts it.                      *)
LEMMA CountingFits ==
  ASSUME MigrationAssumption, MigrationInv, NEW p \in Procs,
         pc[p] \in {"checking", "adding"}, step[p] < Additions[current[p] + 1],
         pc' = [pc EXCEPT ![p] = "checking"], UNCHANGED <<backup, existed, current>>,
         step' = [step EXCEPT ![p] = @ + 1],
         db' \in Databases, db'.version = db.version, db'.has = db.has \cup {Adding(p)}
  PROVE  MigrationInv'
<1>1. /\ Fits(p) /\ db # NONE /\ UpTo(db.version) \subseteq db.has
      /\ db' # NONE
  BY Numbers DEF MigrationInv, DbInv, Fits
<1>2. Grows /\ DbInv'
  BY <1>1 DEF Grows, DbInv
<1>3. pc'[p] = "checking" /\ step'[p] = step[p] + 1 /\ current'[p] = current[p]
  BY DEF MigrationInv, ShapeInv
<1>4. \A n \in 1..step'[p] : <<current[p] + 1, n>> \in db'.has
  BY <1>1, <1>3 DEF Adding, Fits, Upgrading
<1>5. Additions[current[p] + 1] \in Nat
  BY <1>1, Numbers DEF Fits, Upgrading
<1>6. Fits(p)'
  BY <1>1, <1>3, <1>4, <1>5 DEF Fits, States, Upgrading
<1>7. ASSUME NEW q \in Procs, q # p PROVE Fits(q)'
  BY <1>2, <1>7, OthersStillFit DEF MigrationInv, ShapeInv
<1>8. ShapeInv'
  BY DEF MigrationInv, ShapeInv
<1> QED
  BY <1>2, <1>6, <1>7, <1>8 DEF MigrationInv

(* An addition that is there is counted,                                   *)
LEMMA SkipAdditionFits ==
  ASSUME MigrationAssumption, MigrationInv, NEW p \in Procs, SkipAddition(p)
  PROVE  MigrationInv'
<1>1. db # NONE /\ db \in Databases
  BY DEF SkipAddition, MigrationInv, DbInv, Fits
<1>2. pc' = [pc EXCEPT ![p] = "checking"]
  BY DEF SkipAddition, MigrationInv, ShapeInv
<1>3. db' = db /\ db.has = db.has \cup {Adding(p)}
  BY DEF SkipAddition
<1> QED
  BY <1>1, <1>2, <1>3, CountingFits DEF SkipAddition, MoreToAdd

(* one that is not is about to be made,                                    *)
LEMMA MissesAdditionFits ==
  ASSUME MigrationAssumption, MigrationInv, NEW p \in Procs, MissesAddition(p)
  PROVE  MigrationInv'
<1>1. Fits(p)'
  BY DEF MissesAddition, MoreToAdd, Goto, local, Fits, States, Upgrading, MigrationInv, ShapeInv
<1>2. ASSUME NEW q \in Procs, q # p PROVE Fits(q)'
  BY <1>2, OthersStillFit DEF MissesAddition, Goto, local, Grows, MigrationInv, ShapeInv
<1>3. ShapeInv'
  BY DEF MissesAddition, Goto, local, MigrationInv, ShapeInv
<1> QED
  BY <1>1, <1>2, <1>3 DEF MissesAddition, MigrationInv, DbInv

(* and made, unless it would be made twice.                                *)
LEMMA AddFits ==
  ASSUME MigrationAssumption, MigrationInv, NEW p \in Procs, Add(p)
  PROVE  MigrationInv'
<1>1. Fits(p) /\ db # NONE /\ db \in Databases
  BY DEF Add, MigrationInv, DbInv, Fits
<1>2. Adding(p) \in UpTo(Latest)
  <2>1. current[p] + 1 \in 1..Latest /\ step[p] + 1 \in 1..Additions[current[p] + 1]
    BY <1>1, Numbers DEF Add, Fits, Upgrading
  <2> QED
    BY <2>1 DEF Adding, UpTo, AddedBy
<1>3. /\ db' \in Databases /\ db'.version = db.version
      /\ db'.has = db.has \cup {Adding(p)}
  BY <1>1, <1>2 DEF Add, Databases
<1> QED
  BY <1>1, <1>3, CountingFits DEF Add, Goto, Fits

(* A version is committed when all it adds is there.                       *)
LEMMA CommitVersionFits ==
  ASSUME MigrationAssumption, MigrationInv, NEW p \in Procs, CommitVersion(p)
  PROVE  MigrationInv'
<1> DEFINE v == current[p] + 1
<1>1. Fits(p) /\ db # NONE /\ db \in Databases
  BY DEF CommitVersion, MigrationInv, DbInv, Fits
<1>2. /\ current[p] \in Nat /\ v \in 1..Latest /\ Latest \in Nat
      /\ Additions[v] \in Nat /\ step[p] \in Nat /\ step[p] >= Additions[v]
  BY <1>1, Numbers DEF CommitVersion, MoreToAdd, Fits, Upgrading
<1>3. AddedBy(v) \subseteq db.has
  BY <1>1, <1>2 DEF CommitVersion, AddedBy, Fits, Upgrading
<1>4. UpTo(v) \subseteq db.has
  BY <1>1, <1>2, <1>3, UpToNext DEF CommitVersion, Fits, Upgrading
<1>5. /\ db' \in Databases /\ db' # NONE
      /\ db'.version = v /\ db'.has = db.has
  <2>1. db' \in Databases /\ db'.version = v /\ db'.has = db.has
    BY <1>1, <1>2 DEF CommitVersion, Databases
  <2> QED
    BY <2>1, Numbers
<1>6. Grows /\ DbInv'
  BY <1>4, <1>5 DEF Grows, DbInv
<1>7. /\ current'[p] = v /\ step'[p] = 0
      /\ pc'[p] = IF v = Latest THEN "open" ELSE "checking"
  BY DEF CommitVersion, Goto, MigrationInv, ShapeInv
<1>8. Fits(p)'
  <2>1. v # Latest => v < Latest /\ Additions[v + 1] \in Nat
    BY <1>2, Numbers
  <2> QED
    BY <1>2, <1>4, <1>5, <1>7, <2>1 DEF Fits, States, Upgrading
<1>9. ASSUME NEW q \in Procs, q # p PROVE Fits(q)'
  BY <1>6, <1>9, OthersStillFit DEF CommitVersion, Goto, MigrationInv, ShapeInv
<1>10. ShapeInv'
  BY DEF CommitVersion, Goto, MigrationInv, ShapeInv
<1> QED
  BY <1>6, <1>8, <1>9, <1>10 DEF MigrationInv

-----------------------------------------------------------------------------
(* The inductive invariant of the upgrade.                                 *)
THEOREM MigrationInvariant ==
  ASSUME MigrationAssumption
  PROVE  Spec => []MigrationInv
<1>1. Init => MigrationInv
  BY MigrationInit
<1>2. MigrationInv /\ [Next]_vars => MigrationInv'
  <2> SUFFICES ASSUME MigrationInv, [Next]_vars PROVE MigrationInv'
    OBVIOUS
  <2>1. ASSUME NEW p \in Procs,
               Begin(p) \/ Connect(p) \/ ReadVersion(p) \/ Copy(p)
        PROVE  MigrationInv'
    BY <2>1, BeginFits, ConnectFits, ReadVersionFits, CopyFits
  <2>2. ASSUME NEW p \in Procs,
               SkipAddition(p) \/ MissesAddition(p) \/ Add(p) \/ CommitVersion(p)
        PROVE  MigrationInv'
    BY <2>2, SkipAdditionFits, MissesAdditionFits, AddFits, CommitVersionFits
  <2>3. ASSUME NEW p \in Procs, AddFails(p) \/ Close(p) \/ Crash(p)
        PROVE  MigrationInv'
    BY <2>3, ForgettingFits DEF AddFails, Close, Crash, observed
  <2>4. CASE UNCHANGED vars
    BY <2>4 DEF vars, local, observed, MigrationInv, ShapeInv, DbInv, Fits
  <2> QED
    BY <2>1, <2>2, <2>3, <2>4 DEF Next
<1> QED
  BY <1>1, <1>2, PTL DEF Spec

(* Each variable has its type, and a process that upgrades is within the   *)
(* migration it works on (storage/store.py:149-184).                       *)
THEOREM MigrationTypes ==
  ASSUME MigrationAssumption
  PROVE  Spec => []TypeOK
<1>1. MigrationInv => TypeOK
  <2> SUFFICES ASSUME MigrationInv PROVE TypeOK
    OBVIOUS
  <2>1. \A p \in Procs : pc[p] \in States /\ current[p] \in 0..Latest
    BY DEF MigrationInv, Fits
  <2>2. ASSUME NEW p \in Procs, pc[p] \in {"checking", "adding"}
        PROVE  current[p] < Latest /\ step[p] \in 0..Additions[current[p] + 1]
    <3>1. /\ step[p] \in Nat /\ current[p] \in 0..Latest /\ current[p] < Latest
          /\ step[p] <= Additions[current[p] + 1]
      BY <2>2 DEF MigrationInv, Fits, Upgrading
    <3>2. Additions[current[p] + 1] \in Nat
      BY <3>1, Numbers
    <3> QED
      BY <3>1, <3>2
  <2>3. /\ pc \in [Procs -> {"idle", "connecting", "reading", "copying", "checking",
                             "adding", "open"}]
        /\ current \in [Procs -> 0..Latest]
    BY <2>1 DEF MigrationInv, ShapeInv, States, Upgrading
  <2>4. db \in Databases \cup {NONE}
    BY DEF MigrationInv, DbInv
  <2> QED
    BY <2>2, <2>3, <2>4 DEF MigrationInv, ShapeInv, TypeOK
<1> QED
  BY <1>1, MigrationInvariant, PTL

(* However many commands upgrade one database at once, and wherever they   *)
(* die, a command never works on a database that lacks a column, and the   *)
(* version promises no more than there is (storage/store.py:124-184).      *)
THEOREM UpgradesAreWhole ==
  ASSUME MigrationAssumption
  PROVE  Spec => []OpenHasAll
<1>1. MigrationInv => OpenHasAll
  <2> SUFFICES ASSUME MigrationInv PROVE OpenHasAll
    OBVIOUS
  <2>1. ASSUME NEW p \in Procs, pc[p] = "open" PROVE db.has = UpTo(Latest)
    <3>1. db # NONE /\ UpTo(Latest) \subseteq db.has
      BY <2>1 DEF MigrationInv, Fits
    <3>2. db.has \subseteq UpTo(Latest)
      BY <3>1 DEF MigrationInv, DbInv, Databases
    <3> QED
      BY <3>1, <3>2
  <2>2. db # NONE => UpTo(db.version) \subseteq db.has
    BY DEF MigrationInv, DbInv
  <2> QED
    BY <2>1, <2>2 DEF OpenHasAll
<1> QED
  BY <1>1, MigrationInvariant, PTL

-----------------------------------------------------------------------------
(* Commands that do not overlap: one of them at most is not idle, and the  *)
(* database it is about to change is in the backup of its version before.  *)
Alone == \A p, q \in Procs : pc[p] # "idle" /\ pc[q] # "idle" => p = q
CopyingOrigin(p) == pc[p] = "copying" /\ current[p] = origin.version
Home ==
  /\ db # NONE /\ origin \in Databases
  /\ backup[origin.version] # origin =>
       /\ db = origin
       /\ backup[origin.version] # NONE => \E p \in Procs : CopyingOrigin(p)
Kept(p) ==
  /\ pc[p] # "idle" => existed[p]
  /\ pc[p] = "copying" => db.version = current[p]
  /\ CopyingOrigin(p) => db = origin
  /\ pc[p] \in {"checking", "adding"} => backup[origin.version] = origin
SoloInv ==
  ~disturbed => Alone /\ (origin # NONE => Home /\ \A p \in Procs : Kept(p))

Steps(p) ==
  \/ Begin(p) \/ Connect(p) \/ ReadVersion(p) \/ Copy(p)
  \/ SkipAddition(p) \/ MissesAddition(p) \/ Add(p) \/ AddFails(p)
  \/ CommitVersion(p) \/ Close(p) \/ Crash(p)

(* A command leaves the others' points alone, and the origin.              *)
LEMMA PointsStay ==
  ASSUME MigrationInv, NEW p \in Procs, Steps(p)
  PROVE  origin' = origin /\ \A q \in Procs \ {p} : pc'[q] = pc[q]
<1>1. pc = [q \in Procs |-> pc[q]]
  BY DEF MigrationInv, ShapeInv
<1>2. CASE Begin(p) \/ Connect(p) \/ ReadVersion(p) \/ Copy(p)
  BY <1>1, <1>2 DEF Begin, Connect, ReadVersion, Copy, Goto, observed
<1>3. CASE SkipAddition(p) \/ MissesAddition(p) \/ Add(p) \/ CommitVersion(p)
  BY <1>1, <1>3 DEF SkipAddition, MissesAddition, Add, CommitVersion, Goto, observed
<1>4. CASE AddFails(p) \/ Close(p) \/ Crash(p)
  BY <1>1, <1>4 DEF AddFails, Close, Crash, Forget, Goto, observed
<1> QED
  BY <1>2, <1>3, <1>4 DEF Steps

(* What was disturbed stays so, and none begins beside another unseen.     *)
LEMMA AloneStep ==
  ASSUME MigrationInv, SoloInv, ~disturbed', NEW p \in Procs, Steps(p)
  PROVE  /\ ~disturbed /\ Alone'
         /\ \A q \in Procs \ {p} : pc[q] = "idle" /\ pc'[q] = "idle"
<1>1. ~disturbed
  <2>1. CASE Begin(p) \/ Crash(p)
    BY <2>1 DEF Begin, Crash
  <2>2. CASE ~(Begin(p) \/ Crash(p))
    BY <2>2 DEF Steps, Connect, ReadVersion, Copy, SkipAddition, MissesAddition, Add, AddFails,
                CommitVersion, Close, observed
  <2> QED
    BY <2>1, <2>2
<1>2. \A q \in Procs \ {p} : pc[q] = "idle"
  <2>1. CASE Begin(p)
    BY <2>1 DEF Begin
  <2>2. CASE pc[p] # "idle"
    BY <1>1, <2>2 DEF SoloInv, Alone
  <2>3. Begin(p) \/ pc[p] # "idle"
    BY DEF Steps, Connect, ReadVersion, Copy, SkipAddition, MissesAddition, Add, AddFails,
           CommitVersion, Close, Crash
  <2> QED
    BY <2>1, <2>2, <2>3
<1> QED
  BY <1>1, <1>2, PointsStay DEF Alone

(* Reading the version: what must be kept is copied, or it was before.     *)
LEMMA ReadKeeps ==
  ASSUME MigrationAssumption, MigrationInv, Home, NEW p \in Procs, Kept(p), ReadVersion(p),
         \A q \in Procs \ {p} : pc[q] = "idle", origin' = origin
  PROVE  Home' /\ Kept(p)'
<1> DEFINE o == origin.version
<1>1. /\ pc = [q \in Procs |-> pc[q]] /\ current = [q \in Procs |-> current[q]]
      /\ backup \in [0..Latest -> Databases \cup {NONE, EMPTY}]
  BY DEF MigrationInv, ShapeInv
<1>2. /\ pc[p] = "reading" /\ existed[p] /\ existed' = existed /\ db' = db
      /\ current'[p] = db.version
  BY <1>1 DEF ReadVersion, Kept
<1>3. backup[o] # origin => db = origin /\ backup[o] = NONE
  BY <1>2 DEF Home, CopyingOrigin
<1>4. origin \in Databases /\ db \in Databases /\ o \in 0..Latest /\ db.version \in 0..Latest
  BY DEF Home, MigrationInv, DbInv, Databases
<1>5. CASE pc'[p] = "copying"
  <2>1. backup[db.version] = NONE /\ backup' = [backup EXCEPT ![db.version] = EMPTY]
    BY <1>1, <1>5 DEF ReadVersion, NeedsBackup, Goto
  <2>2. db.version = o => db = origin
    <3>1. origin # NONE
      BY <1>4, Numbers
    <3> QED
      BY <1>3, <2>1, <3>1
  <2>3. db.version # o => backup'[o] = backup[o]
    BY <1>1, <2>1
  <2>4. Kept(p)'
    BY <1>2, <1>5, <2>2 DEF Kept, CopyingOrigin
  <2>5. Home'
    <3>1. CASE db.version = o
      BY <1>2, <1>4, <1>5, <2>2, <3>1, Numbers DEF Home, CopyingOrigin
    <3>2. CASE db.version # o
      BY <1>2, <1>3, <1>4, <2>3, <3>2, Numbers DEF Home
    <3> QED
      BY <3>1, <3>2
  <2> QED
    BY <2>4, <2>5
<1>6. CASE pc'[p] \in {"open", "checking"}
  <2>1. backup' = backup
    BY <1>1, <1>6 DEF ReadVersion, Goto
  <2>2. pc'[p] = "checking" => backup[db.version] # NONE
    BY <1>1, <1>2 DEF ReadVersion, NeedsBackup, Goto
  <2>3. pc'[p] = "checking" => backup[o] = origin
    BY <1>3, <2>2
  <2>4. Kept(p)'
    BY <1>2, <1>6, <2>1, <2>3 DEF Kept, CopyingOrigin
  <2>5. Home'
    BY <1>2, <1>3, <2>1 DEF Home
  <2> QED
    BY <2>4, <2>5
<1> QED
  BY <1>1, <1>5, <1>6 DEF ReadVersion, Goto

(* The copy is of the database as it was before the upgrade.               *)
LEMMA CopyKeeps ==
  ASSUME MigrationAssumption, MigrationInv, Home, NEW p \in Procs, Kept(p), Copy(p),
         \A q \in Procs \ {p} : pc[q] = "idle", origin' = origin
  PROVE  Home' /\ Kept(p)'
<1> DEFINE o == origin.version
<1>1. /\ pc = [q \in Procs |-> pc[q]] /\ current[p] \in 0..Latest
      /\ backup \in [0..Latest -> Databases \cup {NONE, EMPTY}]
  BY DEF MigrationInv, ShapeInv, Fits
<1>2. /\ pc[p] = "copying" /\ pc'[p] = "checking" /\ existed[p] /\ existed' = existed
      /\ db' = db /\ db.version = current[p]
      /\ backup' = [backup EXCEPT ![current[p]] = db]
  BY <1>1 DEF Copy, Goto, local, Kept
<1>3. origin \in Databases /\ o \in 0..Latest
  BY DEF Home, Databases
<1>4. backup'[o] = origin
  <2>1. CASE current[p] = o
    BY <1>1, <1>2, <1>3, <2>1 DEF Kept, CopyingOrigin
  <2>2. CASE current[p] # o
    BY <1>1, <1>2, <1>3, <2>2 DEF Home
  <2> QED
    BY <2>1, <2>2
<1> QED
  BY <1>2, <1>4 DEF Home, Kept, CopyingOrigin

(* The database changes only when it has been kept.                        *)
LEMMA UpgradeKeeps ==
  ASSUME MigrationAssumption, MigrationInv, MigrationInv', Home, NEW p \in Procs, Kept(p),
         SkipAddition(p) \/ MissesAddition(p) \/ Add(p) \/ CommitVersion(p),
         origin' = origin
  PROVE  Home' /\ Kept(p)'
<1>1. pc = [q \in Procs |-> pc[q]]
  BY DEF MigrationInv, ShapeInv
<1>2. /\ pc[p] \in {"checking", "adding"} /\ pc'[p] \in {"checking", "adding", "open"}
      /\ existed' = existed /\ backup' = backup
  BY <1>1 DEF SkipAddition, MissesAddition, Add, CommitVersion, Goto, local
<1>3. db' # NONE
  BY <1>2 DEF MigrationInv, Fits
<1> QED
  BY <1>2, <1>3 DEF Home, Kept, CopyingOrigin

(* Beginning, connecting and ending change no database there was.          *)
LEMMA EndsKeep ==
  ASSUME MigrationInv, Home, NEW p \in Procs, Kept(p), ~disturbed', origin' = origin,
         Begin(p) \/ Connect(p) \/ AddFails(p) \/ Close(p) \/ Crash(p),
         \A q \in Procs \ {p} : pc[q] = "idle"
  PROVE  Home' /\ Kept(p)'
<1>1. pc = [q \in Procs |-> pc[q]] /\ existed = [q \in Procs |-> existed[q]]
  BY DEF MigrationInv, ShapeInv
<1>2. /\ db' = db /\ backup' = backup /\ pc[p] # "copying"
      /\ pc'[p] \in {"idle", "connecting", "reading"}
      /\ pc'[p] # "idle" => existed'[p]
  <2>1. CASE Begin(p) \/ Connect(p)
    BY <1>1, <2>1 DEF Begin, Connect, Goto, local, Home, Kept
  <2>2. CASE AddFails(p) \/ Close(p) \/ Crash(p)
    BY <1>1, <2>2 DEF AddFails, Close, Crash, Forget, Goto
  <2> QED
    BY <2>1, <2>2
<1>3. ~\E q \in Procs : CopyingOrigin(q)
  BY <1>2 DEF CopyingOrigin
<1> QED
  BY <1>2, <1>3 DEF Home, Kept, CopyingOrigin

(* Unless commands overlapped or one died while copying, the database as   *)
(* it was is kept in its backup, however often the upgrade was cut off     *)
(* (storage/store.py:128-135).                                             *)
THEOREM BackupIsKept ==
  ASSUME MigrationAssumption
  PROVE  Spec => []WayBack
<1>1. Init => SoloInv
  <2> SUFFICES ASSUME Init PROVE SoloInv
    OBVIOUS
  <2>1. ASSUME origin # NONE PROVE Home
    <3>1. db # NONE /\ origin \in Databases /\ db = origin
      BY <2>1, OldIsWhole DEF Init
    <3>2. origin.version \in 0..Latest
      BY <3>1 DEF Databases
    <3>3. backup[origin.version] = NONE
      BY <3>2 DEF Init
    <3> QED
      BY <3>1, <3>3 DEF Home
  <2> QED
    BY <2>1 DEF Init, SoloInv, Alone, Kept, CopyingOrigin
<1>2. MigrationInv /\ MigrationInv' /\ SoloInv /\ [Next]_vars => SoloInv'
  <2> SUFFICES ASSUME MigrationInv, MigrationInv', SoloInv, [Next]_vars PROVE SoloInv'
    OBVIOUS
  <2>1. CASE UNCHANGED vars
    BY <2>1 DEF vars, SoloInv, Alone, Home, Kept, CopyingOrigin
  <2>2. ASSUME NEW p \in Procs, Steps(p), ~disturbed'
        PROVE  Alone' /\ (origin' # NONE => Home' /\ \A q \in Procs : Kept(q)')
    <3>1. /\ ~disturbed /\ Alone' /\ origin' = origin
          /\ \A q \in Procs \ {p} : pc[q] = "idle" /\ pc'[q] = "idle"
      BY <2>2, AloneStep, PointsStay
    <3>2. ASSUME origin # NONE PROVE Home' /\ Kept(p)'
      <4>1. Home /\ Kept(p)
        BY <3>1, <3>2 DEF SoloInv
      <4> QED
        BY <2>2, <3>1, <4>1, ReadKeeps, CopyKeeps, UpgradeKeeps, EndsKeep DEF Steps
    <3>3. ASSUME NEW q \in Procs \ {p} PROVE Kept(q)'
      BY <3>1 DEF Kept, CopyingOrigin
    <3> QED
      BY <3>1, <3>2, <3>3
  <2> QED
    BY <2>1, <2>2 DEF Next, Steps, SoloInv
<1>3. SoloInv => WayBack
  BY DEF SoloInv, Home, WayBack
<1> QED
  BY <1>1, <1>2, <1>3, MigrationInvariant, PTL DEF Spec
=============================================================================
