---------------------------- MODULE PluginsProofs ----------------------------
(***************************************************************************)
(* Proofs about the plugins, for any number of processes and packages.     *)
(*                                                                         *)
(* ListedIsWhole is not inductive: a package that was removed may be       *)
(* filled again, so an entry of it has to be one that had rules. Sound is  *)
(* what an entry may rely on; PluginsInv says that of the manifest, of     *)
(* what a process is about to save, and of a package that was validated.   *)
(***************************************************************************)
EXTENDS Plugins, TLAPS

States ==
  {"idle", "downloading", "filling", "validating", "loading", "finding",
   "removing", "saving", "writing", "enabling", "checking"}
Holding == {"removing", "saving", "writing"}

Sound(k) == k \in Packages \ Useless /\ (k \in removed \/ dir[k] = "whole")
Lists(m) == m \in Manifests /\ \A n \in PackageNames : m[n] # NONE => Sound(<<n, m[n]>>)

(* What a process relies on.                                               *)
Relies(p) ==
  /\ pc[p] \in States
  /\ job[p] \in Packages \cup {NONE}
  /\ (job[p] = NONE) <=> (pc[p] = "idle")
  /\ IF pc[p] \in Holding THEN Lists(read[p]) ELSE read[p] = NONE
  /\ pc[p] = "loading" => Sound(job[p])
  /\ pc[p] = "removing" => read[p][Name(p)] # NONE

ShapeInv ==
  /\ dir \in [Packages -> {"absent", "made", "whole", "part"}]
  /\ removed \subseteq Packages
  /\ granted \in Manifests
  /\ pc = [p \in Procs |-> pc[p]]
  /\ job = [p \in Procs |-> job[p]]
  /\ read = [p \in Procs |-> read[p]]
  /\ writing = {p \in Procs : pc[p] = "writing"}
  /\ mixed \subseteq writing

FileInv == file \in Manifests \cup {TORN} /\ (file \in Manifests => Lists(file))

PluginsInv == ShapeInv /\ FileInv /\ \A p \in Procs : Relies(p)

(* The ways in which a step may touch the directories.                     *)
Touches ==
  \/ UNCHANGED <<dir, removed>>
  \/ \E k \in Packages :
       dir[k] = "absent" /\ dir' = [dir EXCEPT ![k] = "made"] /\ UNCHANGED removed
  \/ \E k \in Packages :
       dir' = [dir EXCEPT ![k] = "whole"] /\ removed' = removed \ {k}
  \/ \E k \in Packages : RemoveTree(k)

-----------------------------------------------------------------------------
(* A package has a name and a version, and no package is none.             *)
LEMMA Pairs ==
  ASSUME PluginsAssumption, NEW k \in Packages
  PROVE  /\ k[1] \in PackageNames /\ k[2] \in Versions /\ k = <<k[1], k[2]>>
         /\ k[2] # NONE /\ k # NONE
BY DEF PluginsAssumption, PackageNames, Versions

(* What an entry relies on outlasts every step.                            *)
LEMMA SoundStays ==
  ASSUME ShapeInv, Touches, NEW k \in Packages, Sound(k)
  PROVE  Sound(k)'
<1>1. CASE UNCHANGED <<dir, removed>>
  BY <1>1 DEF Sound
<1>2. ASSUME NEW j \in Packages, dir[j] = "absent",
             dir' = [dir EXCEPT ![j] = "made"], UNCHANGED removed
      PROVE  Sound(k)'
  BY <1>2 DEF Sound, ShapeInv
<1>3. ASSUME NEW j \in Packages,
             dir' = [dir EXCEPT ![j] = "whole"], removed' = removed \ {j}
      PROVE  Sound(k)'
  BY <1>3 DEF Sound, ShapeInv
<1>4. ASSUME NEW j \in Packages, RemoveTree(j)
      PROVE  Sound(k)'
  BY <1>4 DEF Sound, ShapeInv, RemoveTree
<1> QED
  BY <1>1, <1>2, <1>3, <1>4 DEF Touches

(* And so does a manifest of such entries.                                 *)
LEMMA ListsStays ==
  ASSUME ShapeInv, Touches, NEW m, Lists(m)
  PROVE  Lists(m)'
<1>1. ASSUME NEW n \in PackageNames, m[n] # NONE PROVE Sound(<<n, m[n]>>)'
  BY <1>1, SoundStays DEF Lists, Sound
<1> QED
  BY <1>1 DEF Lists

(* Directories stay directories.                                           *)
LEMMA TouchedTypes ==
  ASSUME ShapeInv, Touches
  PROVE  /\ dir' \in [Packages -> {"absent", "made", "whole", "part"}]
         /\ removed' \subseteq Packages
<1>1. CASE UNCHANGED <<dir, removed>>
  BY <1>1 DEF ShapeInv
<1>2. ASSUME NEW j \in Packages,
             \/ dir' = [dir EXCEPT ![j] = "made"] /\ UNCHANGED removed
             \/ dir' = [dir EXCEPT ![j] = "whole"] /\ removed' = removed \ {j}
      PROVE  /\ dir' \in [Packages -> {"absent", "made", "whole", "part"}]
             /\ removed' \subseteq Packages
  BY <1>2 DEF ShapeInv
<1>3. ASSUME NEW j \in Packages, RemoveTree(j)
      PROVE  /\ dir' \in [Packages -> {"absent", "made", "whole", "part"}]
             /\ removed' \subseteq Packages
  <2>1. PICK left \in {"absent", "part"} : dir' = [dir EXCEPT ![j] = left]
    BY <1>3 DEF RemoveTree
  <2> QED
    BY <1>3, <2>1 DEF RemoveTree, ShapeInv
<1> QED
  BY <1>1, <1>2, <1>3 DEF Touches

(* What a process relies on outlasts the steps of the others.              *)
LEMMA OthersRely ==
  ASSUME PluginsInv, Touches, NEW q \in Procs,
         pc'[q] = pc[q], job'[q] = job[q], read'[q] = read[q]
  PROVE  Relies(q)'
<1>1. Relies(q) /\ ShapeInv
  BY DEF PluginsInv
<1>2. PICK held, k : held = read[q] /\ k = job[q]
  OBVIOUS
<1>3. held = read[q]' /\ k = job[q]'
  BY <1>2
<1>4. Lists(held) => Lists(held)'
  BY <1>1, ListsStays
<1>5. Sound(k) => Sound(k)'
  BY <1>1, SoundStays DEF Sound
<1>6. IF pc[q]' \in Holding THEN Lists(held)' ELSE read[q]' = NONE
  BY <1>1, <1>2, <1>4 DEF Relies
<1>7. pc[q]' = "loading" => Sound(k)'
  BY <1>1, <1>2, <1>5 DEF Relies
<1>8. pc[q]' = "removing" => read[q]'[Name(q)'] # NONE
  BY <1>1, <1>2 DEF Relies, Name
<1>9. /\ pc[q]' \in States /\ job[q]' \in Packages \cup {NONE}
      /\ (job[q]' = NONE) <=> (pc[q]' = "idle")
  BY <1>1 DEF Relies
<1>10. IF pc[q]' \in Holding THEN Lists(read[q])' ELSE read[q]' = NONE
  BY <1>3, <1>6 DEF Lists
<1>11. pc[q]' = "loading" => Sound(job[q])'
  BY <1>3, <1>7 DEF Sound
<1> QED
  BY <1>8, <1>9, <1>10, <1>11 DEF Relies

(* What _load_manifest returns has sound entries only.                     *)
LEMMA LoadLists ==
  ASSUME PluginsInv
  PROVE  Lists(Load)
<1>1. Lists(Empty)
  BY DEF Lists, Empty, Manifests
<1> QED
  BY <1>1 DEF Load, PluginsInv, FileInv

-----------------------------------------------------------------------------
(* A step of p that leaves the manifest alone.                             *)
LEMMA QuietStep ==
  ASSUME PluginsInv, Touches, NEW p \in Procs,
         pc[p] # "writing", pc'[p] # "writing",
         pc' = [pc EXCEPT ![p] = pc'[p]], job' = [job EXCEPT ![p] = job'[p]],
         read' = [read EXCEPT ![p] = read'[p]],
         UNCHANGED <<disk, granted>>, Relies(p)'
  PROVE  PluginsInv'
<1>1. ASSUME NEW q \in Procs, q # p PROVE Relies(q)'
  BY <1>1, OthersRely DEF PluginsInv, ShapeInv
<1>2. writing' = {q \in Procs : pc'[q] = "writing"}
  BY DEF disk, PluginsInv, ShapeInv
<1>3. ShapeInv'
  BY <1>2, TouchedTypes DEF disk, PluginsInv, ShapeInv
<1>4. FileInv'
  BY ListsStays DEF disk, PluginsInv, FileInv
<1> QED
  BY <1>1, <1>3, <1>4 DEF PluginsInv

(* A command is over.                                                      *)
LEMMA DoneStep ==
  ASSUME PluginsInv, Touches, NEW p \in Procs, pc[p] # "writing", Done(p),
         UNCHANGED <<disk, granted>>
  PROVE  PluginsInv'
<1>1. pc'[p] = "idle" /\ job'[p] = NONE /\ read'[p] = NONE
  BY DEF Done, Goto, PluginsInv, ShapeInv
<1>2. Relies(p)'
  BY <1>1 DEF Relies, States, Holding
<1> QED
  BY <1>1, <1>2, QuietStep DEF Done, Goto

(* A command goes on, with the same package and in no need of a manifest.  *)
LEMMA GotoStep ==
  ASSUME PluginsInv, Touches, NEW p \in Procs, NEW to \in States \ Holding,
         pc[p] \notin Holding \cup {"idle"}, to # "idle",
         to = "loading" => Sound(job[p])',
         Goto(p, to), UNCHANGED <<disk, job, read, granted>>
  PROVE  PluginsInv'
<1>1. pc'[p] = to /\ pc[p] # "writing" /\ to # "writing" /\ Relies(p)
  BY DEF Goto, Holding, PluginsInv, ShapeInv
<1>2. Relies(p)'
  BY <1>1 DEF Relies, Holding
<1>3. job' = [job EXCEPT ![p] = job'[p]] /\ read' = [read EXCEPT ![p] = read'[p]]
  BY DEF PluginsInv, ShapeInv
<1> QED
  BY <1>1, <1>2, <1>3, QuietStep DEF Goto

(* A command now holds a manifest.                                         *)
LEMMA HoldStep ==
  ASSUME PluginsInv, Touches, NEW p \in Procs, NEW m,
         pc[p] \notin {"idle", "writing"}, Lists(m)',
         read' = [read EXCEPT ![p] = m],
         \/ Goto(p, "saving")
         \/ Goto(p, "removing") /\ m[Name(p)] # NONE,
         UNCHANGED <<disk, job, granted>>
  PROVE  PluginsInv'
<1>1. /\ pc'[p] \in {"saving", "removing"} /\ read'[p] = m /\ Relies(p)
      /\ pc'[p] = "removing" => m[Name(p)] # NONE
      /\ pc' = [pc EXCEPT ![p] = pc'[p]]
  BY DEF Goto, PluginsInv, ShapeInv
<1>2. Relies(p)'
  BY <1>1 DEF Relies, Holding, States, Name
<1>3. job' = [job EXCEPT ![p] = job'[p]] /\ read' = [read EXCEPT ![p] = read'[p]]
  BY DEF PluginsInv, ShapeInv
<1> QED
  BY <1>1, <1>2, <1>3, QuietStep

(* A command begins.                                                       *)
LEMMA BeginStep ==
  ASSUME PluginsAssumption, PluginsInv, NEW p \in Procs, NEW k \in Packages,
         NEW to \in {"downloading", "finding", "enabling"}, Begin(p, k, to)
  PROVE  PluginsInv'
<1>1. pc'[p] = to /\ job'[p] = k /\ read'[p] = NONE /\ pc[p] = "idle"
  BY DEF Begin, Goto, PluginsInv, ShapeInv, Relies, Holding
<1>2. Relies(p)'
  BY <1>1, Pairs DEF Relies, States, Holding
<1>3. Touches
  BY DEF Begin, Touches
<1>4. read' = [read EXCEPT ![p] = read'[p]]
  BY DEF Begin, PluginsInv, ShapeInv
<1> QED
  BY <1>1, <1>2, <1>3, <1>4, QuietStep DEF Begin, Goto

(* The steps of install up to the manifest.                                *)
LEMMA InstallSteps ==
  ASSUME PluginsAssumption, PluginsInv, NEW p \in Procs,
         \/ Refused(p) \/ MakeDirectory(p) \/ PipFills(p) \/ PipFails(p)
         \/ PipTimesOut(p) \/ Validate(p) \/ ValidationFails(p) \/ AddEntry(p)
  PROVE  PluginsInv'
<1> DEFINE k == Job(p)
<1>1. pc[p] # "idle" => k \in Packages
  BY DEF PluginsInv, Relies, Job
<1>2. CASE Refused(p) \/ PipTimesOut(p)
  <2>1. Touches
    BY <1>2 DEF Refused, PipTimesOut, observed, Touches
  <2> QED
    BY <1>2, <2>1, DoneStep DEF Refused, PipTimesOut, observed
<1>3. CASE MakeDirectory(p)
  <2>1. Touches
    BY <1>1, <1>3 DEF MakeDirectory, observed, Touches
  <2> QED
    BY <1>3, <2>1, GotoStep DEF MakeDirectory, observed, States, Holding
<1>4. CASE PipFills(p)
  <2>1. Touches
    BY <1>1, <1>4 DEF PipFills, Touches
  <2> QED
    BY <1>4, <2>1, GotoStep DEF PipFills, States, Holding
<1>5. CASE PipFails(p) \/ ValidationFails(p)
  <2>1. Touches
    BY <1>1, <1>5 DEF PipFails, ValidationFails, Touches
  <2> QED
    BY <1>5, <2>1, DoneStep DEF PipFails, ValidationFails
<1>6. CASE Validate(p)
  <2>1. Touches
    BY <1>6 DEF Validate, observed, Touches
  <2>2. Sound(job[p])'
    BY <1>1, <1>6 DEF Validate, observed, Sound, Describes, HasRules, Job
  <2> QED
    BY <1>6, <2>1, <2>2, GotoStep DEF Validate, observed, States, Holding
<1>7. CASE AddEntry(p)
  <2> DEFINE m == [Load EXCEPT ![Name(p)] = Version(p)]
  <2>1. Touches
    BY <1>7 DEF AddEntry, observed, Touches
  <2>2. Sound(k) /\ k = <<Name(p), Version(p)>> /\ Version(p) \in Versions
    BY <1>1, <1>7, Pairs DEF AddEntry, PluginsInv, Relies, Job, Name, Version
  <2>3. m \in Manifests
    BY <2>2, LoadLists DEF Lists, Manifests
  <2>4. ASSUME NEW n \in PackageNames, m[n] # NONE PROVE Sound(<<n, m[n]>>)
    BY <2>2, <2>4, LoadLists DEF Lists, Manifests
  <2>5. Lists(m)
    BY <2>3, <2>4 DEF Lists
  <2>6. PICK held : held = m
    OBVIOUS
  <2>7. Lists(held)'
    BY <2>1, <2>5, <2>6, ListsStays DEF PluginsInv
  <2>8. /\ pc[p] \notin {"idle", "writing"} /\ Goto(p, "saving")
        /\ read' = [read EXCEPT ![p] = held]
        /\ UNCHANGED <<disk, job, granted>>
    BY <1>7, <2>6 DEF AddEntry, observed
  <2> QED
    BY <2>1, <2>7, <2>8, HoldStep
<1> QED
  BY <1>2, <1>3, <1>4, <1>5, <1>6, <1>7

(* The steps of uninstall up to the manifest.                              *)
LEMMA UninstallSteps ==
  ASSUME PluginsAssumption, PluginsInv, NEW p \in Procs,
         NotInstalled(p) \/ Find(p) \/ RemoveDirectory(p)
  PROVE  PluginsInv'
<1>1. CASE NotInstalled(p)
  <2>1. Touches
    BY <1>1 DEF NotInstalled, observed, Touches
  <2> QED
    BY <1>1, <2>1, DoneStep DEF NotInstalled, observed
<1>2. CASE Find(p)
  <2>1. Touches
    BY <1>2 DEF Find, observed, Touches
  <2>2. PICK held : held = Load
    OBVIOUS
  <2>3. Lists(held)'
    BY <2>1, <2>2, LoadLists, ListsStays DEF PluginsInv
  <2>4. /\ pc[p] \notin {"idle", "writing"} /\ Goto(p, "removing")
        /\ read' = [read EXCEPT ![p] = held] /\ held[Name(p)] # NONE
        /\ UNCHANGED <<disk, job, granted>>
    BY <1>2, <2>2 DEF Find, observed
  <2> QED
    BY <2>1, <2>3, <2>4, HoldStep
<1>3. CASE RemoveDirectory(p)
  <2> DEFINE k == <<Name(p), read[p][Name(p)]>>
             m == [read[p] EXCEPT ![Name(p)] = NONE]
  <2>1. Lists(read[p]) /\ read[p][Name(p)] # NONE /\ job[p] \in Packages
    BY <1>3 DEF RemoveDirectory, PluginsInv, Relies, Holding
  <2>2. Name(p) \in PackageNames
    BY <2>1, Pairs DEF Name
  <2>3. k \in Packages
    BY <2>1, <2>2 DEF Lists, Sound
  <2>4. Touches
    BY <1>3, <2>3 DEF RemoveDirectory, Touches
  <2>5. m \in Manifests
    BY <2>1 DEF Lists, Manifests
  <2>6. ASSUME NEW n \in PackageNames, m[n] # NONE PROVE Sound(<<n, m[n]>>)
    BY <2>1, <2>6 DEF Lists, Manifests
  <2>7. Lists(m)
    BY <2>5, <2>6 DEF Lists
  <2>8. PICK held : held = m
    OBVIOUS
  <2>9. Lists(held)'
    BY <2>4, <2>7, <2>8, ListsStays DEF PluginsInv
  <2>10. read' = [read EXCEPT ![p] = held]
    BY <1>3, <2>8 DEF RemoveDirectory, PluginsInv, ShapeInv
  <2>11. /\ pc[p] \notin {"idle", "writing"} /\ Goto(p, "saving")
         /\ UNCHANGED <<disk, job, granted>>
    BY <1>3 DEF RemoveDirectory
  <2> QED
    BY <2>4, <2>9, <2>10, <2>11, HoldStep
<1> QED
  BY <1>1, <1>2, <1>3

(* A scan that uses a plugin changes nothing.                              *)
LEMMA EnableSteps ==
  ASSUME PluginsAssumption, PluginsInv, NEW p \in Procs, LoadRules(p) \/ Check(p)
  PROVE  PluginsInv'
<1>1. Touches
  BY DEF LoadRules, Check, observed, Touches
<1>2. CASE Done(p) /\ pc[p] \in {"enabling", "checking"} /\ UNCHANGED <<disk, granted>>
  BY <1>1, <1>2, DoneStep
<1>3. CASE LoadRules(p) /\ ~Done(p)
  <2> DEFINE listed == Load[Name(p)]
  <2>1. /\ listed # NONE /\ pc[p] = "enabling" /\ Goto(p, "checking")
        /\ job' = [job EXCEPT ![p] = <<Name(p), listed>>]
        /\ UNCHANGED <<read, disk, granted>>
    BY <1>3 DEF LoadRules, observed
  <2>2. Name(p) \in PackageNames
    BY <2>1, Pairs DEF Name, PluginsInv, Relies
  <2>3. <<Name(p), listed>> \in Packages
    BY <2>1, <2>2, LoadLists DEF Lists, Sound
  <2>4. /\ pc'[p] = "checking" /\ job'[p] = <<Name(p), listed>> /\ read'[p] = NONE
        /\ read' = [read EXCEPT ![p] = read'[p]]
        /\ pc' = [pc EXCEPT ![p] = pc'[p]] /\ job' = [job EXCEPT ![p] = job'[p]]
    BY <2>1 DEF Goto, PluginsInv, ShapeInv, Relies, Holding
  <2>5. Relies(p)'
    BY <2>3, <2>4, Pairs DEF Relies, States, Holding
  <2> QED
    BY <1>1, <2>1, <2>4, <2>5, QuietStep
<1> QED
  BY <1>2, <1>3 DEF LoadRules, Check, observed

-----------------------------------------------------------------------------
(* open(path, "w"): what the process holds is what it will write.          *)
LEMMA OpenStep ==
  ASSUME PluginsAssumption, PluginsInv, NEW p \in Procs, Open(p)
  PROVE  PluginsInv'
<1>1. /\ pc[p] = "saving" /\ Goto(p, "writing") /\ file' = TORN
      /\ writing' = writing \cup {p}
      /\ mixed' = IF writing = {} THEN {} ELSE writing \cup {p}
      /\ UNCHANGED <<dir, job, read, removed, granted>>
  BY DEF Open, Manifest!Open, observed
<1>2. Touches
  BY <1>1 DEF Touches
<1>3. pc'[p] = "writing" /\ \A q \in Procs \ {p} : pc'[q] = pc[q]
  BY <1>1 DEF Goto, PluginsInv, ShapeInv
<1>4. ASSUME NEW q \in Procs \ {p} PROVE Relies(q)'
  BY <1>1, <1>2, <1>3, OthersRely
<1>5. Relies(p)'
  <2>1. PICK held : held = read[p]
    OBVIOUS
  <2>2. Lists(held) /\ job[p] \in Packages \cup {NONE} /\ job[p] # NONE
    BY <1>1, <2>1 DEF PluginsInv, Relies, Holding
  <2>3. Lists(held)'
    BY <1>2, <2>2, ListsStays DEF PluginsInv
  <2>4. held = read'[p] /\ job'[p] = job[p]
    BY <1>1, <2>1
  <2>5. Lists(read[p])'
    BY <2>3, <2>4 DEF Lists
  <2> QED
    BY <1>3, <2>2, <2>4, <2>5 DEF Relies, Holding, States
<1>6. writing' = {q \in Procs : pc'[q] = "writing"}
  BY <1>1, <1>3 DEF PluginsInv, ShapeInv
<1>7. ShapeInv'
  BY <1>1, <1>2, <1>6, TouchedTypes DEF Goto, PluginsInv, ShapeInv
<1>8. FileInv'
  BY <1>1 DEF FileInv, PluginsAssumption, Manifests
<1> QED
  BY <1>4, <1>5, <1>7, <1>8 DEF PluginsInv

(* A process that writes the manifest, or is killed, no longer holds it.   *)
LEMMA LeaveStep ==
  ASSUME PluginsAssumption, PluginsInv, NEW p \in Procs, Done(p),
         writing' = writing \ {p}, mixed' = mixed \ {p},
         granted' \in Manifests, FileInv', UNCHANGED <<dir, removed>>
  PROVE  PluginsInv'
<1>1. Touches
  BY DEF Touches
<1>2. /\ pc'[p] = "idle" /\ job'[p] = NONE /\ read'[p] = NONE
      /\ \A q \in Procs \ {p} : pc'[q] = pc[q] /\ job'[q] = job[q] /\ read'[q] = read[q]
  BY DEF Done, Goto, PluginsInv, ShapeInv
<1>3. ASSUME NEW q \in Procs \ {p} PROVE Relies(q)'
  BY <1>1, <1>2, OthersRely
<1>4. Relies(p)'
  BY <1>2 DEF Relies, States, Holding
<1>5. writing' = {q \in Procs : pc'[q] = "writing"}
  BY <1>2 DEF PluginsInv, ShapeInv
<1>6. ShapeInv'
  BY <1>1, <1>5, TouchedTypes DEF Done, Goto, PluginsInv, ShapeInv
<1> QED
  BY <1>3, <1>4, <1>6 DEF PluginsInv

(* The manifest is written.                                                *)
LEMMA WriteStep ==
  ASSUME PluginsAssumption, PluginsInv, NEW p \in Procs, Write(p)
  PROVE  PluginsInv'
<1>1. /\ pc[p] = "writing" /\ Done(p) /\ file' \in {read[p], TORN}
      /\ writing' = writing \ {p} /\ mixed' = mixed \ {p}
      /\ granted' = [granted EXCEPT ![Name(p)] = read[p][Name(p)]]
      /\ UNCHANGED <<dir, removed>>
  BY DEF Write, Manifest!Write
<1>2. Lists(read[p]) /\ job[p] \in Packages
  BY <1>1 DEF PluginsInv, Relies, Holding
<1>3. Name(p) \in PackageNames /\ read[p][Name(p)] \in Versions \cup {NONE}
  BY <1>2, Pairs DEF Name, Lists, Manifests
<1>4. granted' \in Manifests
  BY <1>1, <1>3 DEF PluginsInv, ShapeInv, Manifests
<1>5. FileInv'
  <2>1. PICK held : held = read[p]
    OBVIOUS
  <2>2. Lists(held)'
    BY <1>1, <1>2, <2>1, ListsStays DEF PluginsInv, Touches
  <2>3. CASE file' = held
    BY <2>2, <2>3 DEF FileInv, Lists
  <2>4. CASE file' = TORN
    BY <2>4 DEF FileInv, PluginsAssumption, Manifests
  <2> QED
    BY <1>1, <2>1, <2>3, <2>4
<1> QED
  BY <1>1, <1>4, <1>5, LeaveStep

(* A process is killed.                                                    *)
LEMMA CrashStep ==
  ASSUME PluginsAssumption, PluginsInv, NEW p \in Procs, Crash(p)
  PROVE  PluginsInv'
<1>1. /\ Done(p) /\ writing' = writing \ {p} /\ mixed' = mixed \ {p}
      /\ UNCHANGED <<dir, removed, granted, file>>
  BY DEF Crash, Manifest!Leave
<1>2. granted' \in Manifests
  BY <1>1 DEF PluginsInv, ShapeInv
<1>3. FileInv'
  BY <1>1 DEF PluginsInv, FileInv, Lists, Sound, Manifests
<1> QED
  BY <1>1, <1>2, <1>3, LeaveStep

-----------------------------------------------------------------------------
(* Whatever installs, uninstalls and scans do at once and wherever they    *)
(* are killed, entries are of packages that were filled and validated.     *)
THEOREM PluginsInvariant ==
  ASSUME PluginsAssumption PROVE Spec => []PluginsInv
<1>1. Init => PluginsInv
  <2> SUFFICES ASSUME Init PROVE PluginsInv
    OBVIOUS
  <2>1. Lists(Empty)
    BY DEF Lists, Empty, Manifests
  <2>2. FileInv
    BY <2>1 DEF Init, FileInv, Lists
  <2>3. \A p \in Procs : Relies(p)
    BY DEF Init, Relies, States, Holding
  <2>4. ShapeInv
    BY <2>1 DEF Init, ShapeInv, Lists
  <2> QED
    BY <2>2, <2>3, <2>4 DEF PluginsInv
<1>2. PluginsInv /\ [Next]_vars => PluginsInv'
  <2> SUFFICES ASSUME PluginsInv, [Next]_vars PROVE PluginsInv'
    OBVIOUS
  <2>1. ASSUME NEW p \in Procs, NEW k \in Packages,
               NEW to \in {"downloading", "finding", "enabling"}, Begin(p, k, to)
        PROVE  PluginsInv'
    BY <2>1, BeginStep
  <2>2. ASSUME NEW p \in Procs, Work(p) PROVE PluginsInv'
    BY <2>2, InstallSteps, UninstallSteps, OpenStep, WriteStep, EnableSteps DEF Work
  <2>3. ASSUME NEW p \in Procs, Crash(p) PROVE PluginsInv'
    BY <2>3, CrashStep
  <2>4. CASE UNCHANGED vars
    BY <2>4 DEF vars, PluginsInv, ShapeInv, FileInv, Relies, Lists, Sound, Name
  <2> QED
    BY <2>1, <2>2, <2>3, <2>4 DEF Next
<1> QED
  BY <1>1, <1>2, PTL DEF Spec

(* Every process holds a package exactly while it works, and the manifests *)
(* in memory and on disk have the shape manager.py gives them.             *)
THEOREM PluginTypes ==
  ASSUME PluginsAssumption PROVE Spec => []TypeOK
<1>1. PluginsInv => TypeOK
  <2> SUFFICES ASSUME PluginsInv PROVE TypeOK
    OBVIOUS
  <2>1. \A p \in Procs : read[p] \in Manifests \cup {NONE} /\ job[p] \in Packages \cup {NONE}
    BY DEF PluginsInv, Relies, Lists
  <2>2. job \in [Procs -> Packages \cup {NONE}] /\ read \in [Procs -> Manifests \cup {NONE}]
    BY <2>1 DEF PluginsInv, ShapeInv
  <2> QED
    BY <2>2 DEF PluginsInv, ShapeInv, FileInv, Relies, TypeOK
<1> QED
  BY <1>1, PluginsInvariant, PTL

(* No entry of the manifest points to a directory that was not filled and  *)
(* validated, or is no longer whole, unless the package was removed.       *)
THEOREM EntriesAreWhole ==
  ASSUME PluginsAssumption PROVE Spec => []ListedIsWhole
<1>1. PluginsInv => ListedIsWhole
  <2> SUFFICES ASSUME PluginsInv PROVE ListedIsWhole
    OBVIOUS
  <2>1. ASSUME NEW m, Lists(m) PROVE WholeOrRemoved(m)
    BY <2>1 DEF Lists, Sound, WholeOrRemoved
  <2>2. ASSUME NEW p \in Procs, read[p] # NONE PROVE Lists(read[p])
    BY <2>2 DEF PluginsInv, Relies
  <2> QED
    BY <2>1, <2>2 DEF PluginsInv, FileInv, ListedIsWhole
<1> QED
  BY <1>1, PluginsInvariant, PTL

-----------------------------------------------------------------------------
(* Without an overlap there is one command at most, and what it holds is   *)
(* what was answered so far but for its own package.                       *)
Changing(p) ==
  /\ pc[p] = "removing" => read[p] = granted
  /\ pc[p] \in {"saving", "writing"} =>
       read[p] = [granted EXCEPT ![Name(p)] = read[p][Name(p)]]

Alone == \A p, q \in Procs : pc[p] # "idle" /\ pc[q] # "idle" => p = q

Solo ==
  /\ Alone
  /\ writing = {} => file = granted
  /\ mixed = {}
  /\ \A p \in Procs : Changing(p)

SoloInv == ~overlap => Solo

(* A step of the only command that leaves the manifest alone.              *)
LEMMA QuietSolo ==
  ASSUME PluginsInv, SoloInv, NEW p \in Procs, pc[p] \notin {"idle", "writing"},
         UNCHANGED <<disk, granted, overlap>>,
         \A q \in Procs \ {p} : pc'[q] = pc[q],
         ~overlap => Changing(p)'
  PROVE  SoloInv'
<1> SUFFICES ASSUME ~overlap' PROVE Solo'
  BY DEF SoloInv
<1>1. ~overlap /\ Alone /\ mixed = {} /\ (writing = {} => file = granted)
  BY DEF SoloInv, Solo
<1>2. \A q \in Procs \ {p} : pc'[q] = "idle"
  BY <1>1 DEF Alone
<1>3. \A q \in Procs \ {p} : Changing(q)'
  BY <1>2 DEF Changing
<1> QED
  BY <1>1, <1>2, <1>3 DEF Alone, disk, Solo

(* What the only command reads is what was answered so far.                *)
LEMMA SoloReads ==
  ASSUME PluginsInv, SoloInv, ~overlap, NEW p \in Procs, pc[p] \notin {"idle", "writing"}
  PROVE  Load = granted /\ writing = {} /\ mixed = {}
<1>1. writing = {}
  BY DEF SoloInv, Solo, Alone, PluginsInv, ShapeInv
<1>2. file = granted /\ file \in Manifests
  BY <1>1 DEF SoloInv, Solo, PluginsInv, ShapeInv
<1> QED
  BY <1>1, <1>2 DEF Load, SoloInv, Solo

(* Only the steps that take a manifest into memory change what is held.    *)
LEMMA SoloWork ==
  ASSUME PluginsAssumption, PluginsInv, SoloInv, NEW p \in Procs,
         Work(p), ~Open(p), ~Write(p)
  PROVE  SoloInv'
<1>1. /\ pc[p] \notin {"idle", "writing"}
      /\ UNCHANGED <<disk, overlap, granted>>
      /\ \A q \in Procs \ {p} : pc'[q] = pc[q]
  BY DEF Work, Refused, MakeDirectory, PipFills, PipFails, PipTimesOut, Validate,
    ValidationFails, AddEntry, NotInstalled, Find, RemoveDirectory, LoadRules, Check,
    observed, Done, Goto, PluginsInv, ShapeInv
<1>2. CASE pc'[p] \notin {"removing", "saving", "writing"}
  <2>1. Changing(p)'
    BY <1>2 DEF Changing
  <2> QED
    BY <1>1, <2>1, QuietSolo
<1>3. CASE AddEntry(p)
  <2>1. /\ pc'[p] = "saving" /\ read'[p] = [Load EXCEPT ![Name(p)] = Version(p)]
        /\ job'[p] = job[p] /\ granted' = granted
    BY <1>3 DEF AddEntry, Goto, observed, PluginsInv, ShapeInv
  <2>2. job[p] \in Packages
    BY <1>1 DEF PluginsInv, Relies
  <2>3. Name(p) \in PackageNames /\ granted \in Manifests
    BY <2>2, Pairs DEF Name, PluginsInv, ShapeInv
  <2>4. ASSUME ~overlap PROVE read'[p] = [granted EXCEPT ![Name(p)] = read'[p][Name(p)]]
    BY <1>1, <2>1, <2>3, <2>4, SoloReads DEF Manifests
  <2>5. ASSUME ~overlap PROVE Changing(p)'
    BY <2>1, <2>4, <2>5 DEF Changing, Name
  <2> QED
    BY <1>1, <2>5, QuietSolo
<1>4. CASE Find(p)
  <2>1. pc'[p] = "removing" /\ read'[p] = Load /\ granted' = granted
    BY <1>4 DEF Find, Goto, observed, PluginsInv, ShapeInv
  <2>2. ASSUME ~overlap PROVE Changing(p)'
    BY <1>1, <2>1, <2>2, SoloReads DEF Changing
  <2> QED
    BY <1>1, <2>2, QuietSolo
<1>5. CASE RemoveDirectory(p)
  <2>1. /\ pc[p] = "removing" /\ pc'[p] = "saving" /\ job'[p] = job[p]
        /\ read'[p] = [read[p] EXCEPT ![Name(p)] = NONE] /\ granted' = granted
    BY <1>5 DEF RemoveDirectory, Goto, PluginsInv, ShapeInv
  <2>2. job[p] \in Packages
    BY <1>1 DEF PluginsInv, Relies
  <2>3. Name(p) \in PackageNames /\ granted \in Manifests
    BY <2>2, Pairs DEF Name, PluginsInv, ShapeInv
  <2>4. ASSUME ~overlap PROVE read'[p] = [granted EXCEPT ![Name(p)] = read'[p][Name(p)]]
    BY <2>1, <2>3, <2>4 DEF SoloInv, Solo, Changing, Manifests
  <2>5. ASSUME ~overlap PROVE Changing(p)'
    BY <2>1, <2>4, <2>5 DEF Changing, Name
  <2> QED
    BY <1>1, <2>5, QuietSolo
<1>6. \/ pc'[p] \notin {"removing", "saving", "writing"}
      \/ AddEntry(p) \/ Find(p) \/ RemoveDirectory(p)
  BY DEF Work, Refused, MakeDirectory, PipFills, PipFails, PipTimesOut, Validate,
    ValidationFails, NotInstalled, LoadRules, Check, Done, Goto, PluginsInv, ShapeInv
<1> QED
  BY <1>2, <1>3, <1>4, <1>5, <1>6

(* The only command begins, opens and writes the manifest, or is killed.   *)
LEMMA SoloEnds ==
  ASSUME PluginsAssumption, PluginsInv, SoloInv, NEW p \in Procs,
         \/ \E k \in Packages, to \in {"downloading", "finding", "enabling"} : Begin(p, k, to)
         \/ Open(p) \/ Write(p) \/ Crash(p)
  PROVE  SoloInv'
<1> SUFFICES ASSUME ~overlap' PROVE Solo'
  BY DEF SoloInv
<1>1. ~overlap
  BY DEF Begin, Open, Write, Crash, observed
<1>2. Alone /\ mixed = {} /\ (writing = {} => file = granted) /\ Changing(p)
  BY <1>1 DEF SoloInv, Solo
<1>3. \A q \in Procs \ {p} : pc[q] = "idle" /\ pc'[q] = "idle"
  BY <1>2 DEF Alone, Begin, Open, Write, Crash, Done, Goto, PluginsInv, ShapeInv
<1>4. Alone' /\ \A q \in Procs \ {p} : Changing(q)'
  BY <1>3 DEF Alone, Changing
<1>5. writing \subseteq {p}
  BY <1>3 DEF PluginsInv, ShapeInv
<1>6. CASE \E k \in Packages, to \in {"downloading", "finding", "enabling"} : Begin(p, k, to)
  <2>1. pc'[p] \in {"downloading", "finding", "enabling"}
        /\ UNCHANGED <<file, writing, mixed, granted>>
    BY <1>6 DEF Begin, Goto, disk, PluginsInv, ShapeInv
  <2>2. Changing(p)'
    BY <2>1 DEF Changing
  <2> QED
    BY <1>2, <1>4, <2>1, <2>2 DEF Solo
<1>7. CASE Open(p)
  <2>1. /\ pc[p] = "saving" /\ pc'[p] = "writing" /\ writing' = writing \cup {p}
        /\ mixed' = IF writing = {} THEN {} ELSE writing \cup {p}
        /\ UNCHANGED <<job, read, granted>>
    BY <1>7 DEF Open, Goto, Manifest!Open, observed, PluginsInv, ShapeInv
  <2>2. writing = {}
    BY <1>5, <2>1 DEF PluginsInv, ShapeInv
  <2>3. Changing(p)'
    BY <1>2, <2>1 DEF Changing, Name
  <2> QED
    BY <1>4, <2>1, <2>2, <2>3 DEF Solo
<1>8. CASE Write(p)
  <2>1. /\ pc[p] = "writing" /\ pc'[p] = "idle" /\ file' = read[p]
        /\ mixed' = mixed \ {p}
        /\ granted' = [granted EXCEPT ![Name(p)] = read[p][Name(p)]]
    BY <1>2, <1>8 DEF Write, Done, Goto, Manifest!Write, PluginsInv, ShapeInv
  <2>2. file' = granted'
    BY <1>2, <2>1 DEF Changing
  <2>3. Changing(p)'
    BY <2>1 DEF Changing
  <2> QED
    BY <1>2, <1>4, <2>1, <2>2, <2>3 DEF Solo
<1>9. CASE Crash(p)
  <2>1. /\ pc[p] # "writing" /\ pc'[p] = "idle" /\ UNCHANGED <<file, granted>>
        /\ writing' = writing \ {p} /\ mixed' = mixed \ {p}
    BY <1>9 DEF Crash, Done, Goto, Manifest!Leave, PluginsInv, ShapeInv
  <2>2. writing = {}
    BY <1>5, <2>1 DEF PluginsInv, ShapeInv
  <2>3. Changing(p)'
    BY <2>1 DEF Changing
  <2> QED
    BY <1>2, <1>4, <2>1, <2>2, <2>3 DEF Solo
<1> QED
  BY <1>6, <1>7, <1>8, <1>9

(* Commands one after the other leave the manifest they told of: no        *)
(* failure, timeout or kill outside a write makes an answer untrue.        *)
THEOREM AnswersAreTrue ==
  ASSUME PluginsAssumption PROVE Spec => []AnswersHold
<1>1. Init => SoloInv
  BY DEF Init, SoloInv, Solo, Alone, Changing
<1>2. PluginsInv /\ SoloInv /\ [Next]_vars => SoloInv'
  <2> SUFFICES ASSUME PluginsInv, SoloInv, [Next]_vars PROVE SoloInv'
    OBVIOUS
  <2>1. CASE UNCHANGED vars
    BY <2>1 DEF vars, SoloInv, Solo, Alone, Changing, Name
  <2>2. ASSUME NEW p \in Procs, Work(p) PROVE SoloInv'
    BY <2>2, SoloWork, SoloEnds
  <2>3. ASSUME NEW p \in Procs,
               \/ \E k \in Packages, to \in {"downloading", "finding", "enabling"} :
                    Begin(p, k, to)
               \/ Crash(p)
        PROVE  SoloInv'
    BY <2>3, SoloEnds
  <2> QED
    BY <2>1, <2>2, <2>3 DEF Next
<1>3. SoloInv => AnswersHold
  BY DEF SoloInv, Solo, AnswersHold
<1> QED
  BY <1>1, <1>2, <1>3, PluginsInvariant, PTL DEF Spec
=============================================================================
