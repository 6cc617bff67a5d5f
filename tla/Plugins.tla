------------------------------ MODULE Plugins ------------------------------
(***************************************************************************)
(* plugin/manager.py, runtime.py, worker.py: community plugins live in one *)
(* directory per package and version, and manifest.json says which are     *)
(* installed. A command makes or removes a directory first and then reads, *)
(* changes and writes the whole manifest, with no lock; a scan reads it to *)
(* load the rules of the packages its --enable-plugin names.               *)
(*                                                                         *)
(* A package is <<name, version>>. What pip downloads is good or not; what *)
(* a package describes is rules, or nothing usable. `removed`, `granted`   *)
(* and `overlap` are observations.                                         *)
(***************************************************************************)
EXTENDS Integers

CONSTANTS
  Procs,
  Packages,   \* of the packages there are, their pairs of name and version
  Useless,    \* those of them that describe no rule
  NONE, TORN

PackageNames == {p[1] : p \in Packages}
Versions == {p[2] : p \in Packages}
Manifests == [PackageNames -> Versions \cup {NONE}]

PluginsAssumption ==
  /\ Useless \subseteq Packages
  /\ NONE \notin Packages
  /\ TORN \notin Manifests
  /\ \A p \in Packages : p = <<p[1], p[2]>> /\ p[2] # NONE

Empty == [n \in PackageNames |-> NONE]

VARIABLES
  dir,       \* dir[package]: "absent", "made", "whole", or "part" of it left
  file,      \* manifest.json: a manifest or TORN
  writing, mixed,
  pc,
  job,       \* job[p]: the package p installs, uninstalls or enables
  read,      \* read[p]: the manifest p is about to change and save
  removed,   \* packages removed since pip filled their directory
  granted,   \* what the answers to commands say is installed
  overlap    \* whether two commands ran at once, or a write was cut off

disk == <<file, writing, mixed>>
local == <<pc, job, read>>
observed == <<removed, granted, overlap>>
vars == <<dir, file, writing, mixed, pc, job, read, removed, granted, overlap>>

Manifest == INSTANCE TextFile

Init ==
  /\ dir = [k \in Packages |-> "absent"]
  /\ file = Empty
  /\ writing = {} /\ mixed = {}
  /\ pc = [p \in Procs |-> "idle"]
  /\ job = [p \in Procs |-> NONE]
  /\ read = [p \in Procs |-> NONE]
  /\ removed = {}
  /\ granted = Empty
  /\ overlap = FALSE

Goto(p, to) == pc' = [pc EXCEPT ![p] = to]
Job(p) == job[p]
Name(p) == job[p][1]
Version(p) == job[p][2]

Done(p) ==
  /\ Goto(p, "idle")
  /\ job' = [job EXCEPT ![p] = NONE]
  /\ read' = [read EXCEPT ![p] = NONE]

Begin(p, k, to) ==
  /\ pc[p] = "idle"
  /\ Goto(p, to)
  /\ job' = [job EXCEPT ![p] = k]
  /\ overlap' = (overlap \/ \E q \in Procs \ {p} : pc[q] # "idle")
  /\ UNCHANGED <<dir, disk, read, removed, granted>>

(* _load_manifest: what cannot be read counts as no plugin at all.         *)
Load == IF file \in Manifests THEN file ELSE Empty

(* rmtree with ignore_errors: something may be left.                       *)
RemoveTree(k) ==
  /\ \E left \in IF dir[k] = "absent" THEN {"absent"} ELSE {"absent", "part"} :
       dir' = [dir EXCEPT ![k] = left]
  /\ removed' = removed \cup {k}

-----------------------------------------------------------------------------
(* install                                                                 *)

(* The download fails, times out, or does not have the digest asked for;   *)
(* or the directory is there, whether or not the manifest names it.        *)
Refused(p) ==
  /\ pc[p] = "downloading"
  /\ Done(p)
  /\ UNCHANGED <<dir, disk, observed>>

(* Faulty variant: no look whether the directory is there.                 *)
MakeDirectoryAnyway(p) ==
  /\ pc[p] = "downloading"
  /\ dir' = [dir EXCEPT ![Job(p)] = "made"]
  /\ Goto(p, "filling")
  /\ UNCHANGED <<disk, job, read, observed>>

MakeDirectory(p) ==
  /\ pc[p] = "downloading"
  /\ dir[Job(p)] = "absent"
  /\ dir' = [dir EXCEPT ![Job(p)] = "made"]
  /\ Goto(p, "filling")
  /\ UNCHANGED <<disk, job, read, observed>>

PipFills(p) ==
  /\ pc[p] = "filling"
  /\ dir' = [dir EXCEPT ![Job(p)] = "whole"]
  /\ removed' = removed \ {Job(p)}
  /\ Goto(p, "validating")
  /\ UNCHANGED <<disk, job, read, granted, overlap>>

PipFails(p) ==
  /\ pc[p] = "filling"
  /\ RemoveTree(Job(p))
  /\ Done(p)
  /\ UNCHANGED <<disk, granted, overlap>>

(* subprocess.TimeoutExpired is not handled: the directory stays.          *)
PipTimesOut(p) ==
  /\ pc[p] = "filling"
  /\ Done(p)
  /\ UNCHANGED <<dir, disk, observed>>

(* discover_descriptors runs the worker over a directory: rules come back  *)
(* only from a whole one, and not always (5 s, 256 MB, output limit).      *)
HasRules(k) == k \notin Useless
Describes(k) == dir[k] = "whole" /\ HasRules(k)

Validate(p) ==
  /\ pc[p] = "validating"
  /\ Describes(Job(p))
  /\ Goto(p, "loading")
  /\ UNCHANGED <<dir, disk, job, read, observed>>

ValidationFails(p) ==
  /\ pc[p] = "validating"
  /\ RemoveTree(Job(p))
  /\ Done(p)
  /\ UNCHANGED <<disk, granted, overlap>>

(* Faulty variant: the new manifest holds the new package only.            *)
AddEntryAlone(p) ==
  /\ pc[p] = "loading"
  /\ read' = [read EXCEPT ![p] = [Empty EXCEPT ![Name(p)] = Version(p)]]
  /\ Goto(p, "saving")
  /\ UNCHANGED <<dir, disk, job, observed>>

AddEntry(p) ==
  /\ pc[p] = "loading"
  /\ read' = [read EXCEPT ![p] = [Load EXCEPT ![Name(p)] = Version(p)]]
  /\ Goto(p, "saving")
  /\ UNCHANGED <<dir, disk, job, observed>>

-----------------------------------------------------------------------------
(* uninstall: the directory the manifest names goes before the entry does. *)

NotInstalled(p) ==
  /\ pc[p] = "finding"
  /\ Load[Name(p)] = NONE
  /\ Done(p)
  /\ UNCHANGED <<dir, disk, observed>>

Find(p) ==
  /\ pc[p] = "finding"
  /\ Load[Name(p)] # NONE
  /\ read' = [read EXCEPT ![p] = Load]
  /\ Goto(p, "removing")
  /\ UNCHANGED <<dir, disk, job, observed>>

RemoveDirectory(p) ==
  /\ pc[p] = "removing"
  /\ RemoveTree(<<Name(p), read[p][Name(p)]>>)
  /\ read' = [read EXCEPT ![p][Name(p)] = NONE]
  /\ Goto(p, "saving")
  /\ UNCHANGED <<disk, job, granted, overlap>>

-----------------------------------------------------------------------------
(* Both commands end by writing the manifest they hold and answering.      *)

Open(p) ==
  /\ pc[p] = "saving"
  /\ Manifest!Open(p)
  /\ Goto(p, "writing")
  /\ UNCHANGED <<dir, job, read, observed>>

Write(p) ==
  /\ pc[p] = "writing"
  /\ Manifest!Write(p, read[p])
  /\ granted' = [granted EXCEPT ![Name(p)] = read[p][Name(p)]]
  /\ Done(p)
  /\ UNCHANGED <<dir, removed, overlap>>

(* A scan with --enable-plugin: load_rules skips what does not answer, and *)
(* a rule whose package vanished before its check raises.                  *)
LoadRules(p) ==
  /\ pc[p] = "enabling"
  /\ LET listed == Load[Name(p)]
     IN IF listed # NONE /\ Describes(<<Name(p), listed>>)
        THEN /\ Goto(p, "checking")
             /\ job' = [job EXCEPT ![p] = <<Name(p), listed>>]
             /\ UNCHANGED read
        ELSE Done(p)
  /\ UNCHANGED <<dir, disk, observed>>

Check(p) ==
  /\ pc[p] = "checking"
  /\ Done(p)
  /\ UNCHANGED <<dir, disk, observed>>

(* Killed at any point; a write that was cut off leaves a torn manifest.   *)
Crash(p) ==
  /\ pc[p] # "idle"
  /\ Manifest!Leave(p)
  /\ Done(p)
  /\ overlap' = (overlap \/ pc[p] = "writing")
  /\ UNCHANGED <<dir, removed, granted>>

Work(p) ==
  \/ Refused(p) \/ MakeDirectory(p)
  \/ PipFills(p) \/ PipFails(p) \/ PipTimesOut(p)
  \/ Validate(p) \/ ValidationFails(p) \/ AddEntry(p)
  \/ NotInstalled(p) \/ Find(p) \/ RemoveDirectory(p)
  \/ Open(p) \/ Write(p)
  \/ LoadRules(p) \/ Check(p)

Next ==
  \E p \in Procs :
    \/ \E k \in Packages, to \in {"downloading", "finding", "enabling"} : Begin(p, k, to)
    \/ Work(p)
    \/ Crash(p)

Spec == Init /\ [][Next]_vars

-----------------------------------------------------------------------------
TypeOK ==
  /\ dir \in [Packages -> {"absent", "made", "whole", "part"}]
  /\ file \in Manifests \cup {TORN}
  /\ mixed \subseteq writing
  /\ writing = {p \in Procs : pc[p] = "writing"}
  /\ \A p \in Procs : (job[p] = NONE) <=> (pc[p] = "idle")
  /\ job \in [Procs -> Packages \cup {NONE}]
  /\ read \in [Procs -> Manifests \cup {NONE}]
  /\ removed \subseteq Packages
  /\ granted \in Manifests

(* What the manifest lists, or is about to list, was filled by pip and     *)
(* validated, and it is still whole unless somebody removed it: neither a  *)
(* crash, a timeout of pip nor a second command makes an entry point to a  *)
(* half-made directory (manager.py:46-126).                                *)
WholeOrRemoved(manifest) ==
  \A n \in PackageNames : manifest[n] # NONE =>
    LET k == <<n, manifest[n]>>
    IN k \in removed \/ (dir[k] = "whole" /\ k \notin Useless)

ListedIsWhole ==
  /\ file \in Manifests => WholeOrRemoved(file)
  /\ \A p \in Procs : read[p] # NONE => WholeOrRemoved(read[p])

(* Commands that do not overlap leave the manifest their answers tell of,  *)
(* however many of them failed, timed out or were killed between writes.   *)
AnswersHold ==
  ~overlap /\ writing = {} => file = granted
=============================================================================
