---------------------------- MODULE Dependencies ----------------------------
(***************************************************************************)
(* supply/deps.py over cvefeed/osv.py: the manifests under a directory are *)
(* read one after the other, their dependencies asked about in one batch,  *)
(* each vulnerability of the answer fetched, and a finding D001 made for   *)
(* each vulnerability of each dependency.                                  *)
(*                                                                         *)
(* A file is its manifest's name and the dependencies its parser makes of  *)
(* it, or that it cannot be parsed. Two spellings of a package's name that *)
(* differ in case are one.                                                 *)
(***************************************************************************)
EXTENDS Integers, Sequences, FiniteSets, Functions

CONSTANTS
  Projects,    \* sequences of files, in the order _find_manifests has them
  Vulns,       \* Vulns[dependency]: the ids OSV knows for it
  Scored,      \* the severity an id's full record gives
  MaxDeps,     \* max_deps
  NONE

(* Files come in the order of _MANIFESTS, lockfiles of npm first.          *)
MANIFESTS ==
  <<"package-lock.json", "pnpm-lock.yaml", "yarn.lock", "package.json", "uv.lock",
    "poetry.lock", "pdm.lock", "pyproject.toml", "requirements.txt">>
Npm == {"package-lock.json", "pnpm-lock.yaml", "yarn.lock", "package.json"}
Loose == {"package.json", "pyproject.toml", "requirements.txt"}
Position(name) == CHOOSE i \in DOMAIN MANIFESTS : MANIFESTS[i] = name

Ecosystem(name) == IF name \in Npm THEN "npm" ELSE "PyPI"

DependenciesAssumption ==
  /\ MaxDeps \in Nat
  /\ \A files \in Projects :
       /\ files \in Seq(Range(files))
       /\ \A i \in DOMAIN files :
            LET file == files[i]
            IN /\ file.name \in Range(MANIFESTS)
               /\ file.deps # NONE =>
                    /\ file.deps \in Seq(Range(file.deps))
                    /\ \A d \in Range(file.deps) : d.ecosystem = Ecosystem(file.name)
       /\ \A i, j \in DOMAIN files :
            i < j => Position(files[i].name) <= Position(files[j].name)

VARIABLES
  pc,
  project,
  place,       \* the file read next
  listed,      \* npm and pypi: the dependencies found so far, a sequence each
  locked,      \* npm_locked, pypi_locked
  deps,        \* what extract_dependencies returned
  byName,      \* what query_batch returned, by the names it has
  detail,      \* the full records fetched, NONE for those that failed
  findings
vars == <<pc, project, place, listed, locked, deps, byName, detail, findings>>

-----------------------------------------------------------------------------
Init ==
  /\ pc = "extract"
  /\ project \in Projects
  /\ place = 1
  /\ listed = [npm |-> <<>>, PyPI |-> <<>>]
  /\ locked = {}
  /\ deps = <<>>
  /\ byName = <<>>
  /\ detail = <<>>
  /\ findings = {}

(* One turn of the loop. A lockfile's dependencies replace those found so  *)
(* far, those of another lockfile included; a loose manifest's are added,  *)
(* unless a lockfile was parsed before; what cannot be parsed is skipped.  *)
(* Faulty variant: a second lockfile does not count as one.                *)
ReadManifestLoosely ==
  /\ pc = "extract" /\ place <= Len(project)
  /\ LET file == project[place]
         eco == Ecosystem(file.name)
     IN IF file.deps = NONE \/ (file.name \in Loose /\ eco \in locked)
        THEN UNCHANGED <<listed, locked>>
        ELSE IF file.name \in Loose
        THEN listed' = [listed EXCEPT ![eco] = @ \o file.deps] /\ UNCHANGED locked
        ELSE /\ listed' = [listed EXCEPT ![eco] = file.deps]
             /\ locked' = IF file.name = "yarn.lock" THEN locked ELSE locked \cup {eco}
  /\ place' = place + 1
  /\ UNCHANGED <<pc, project, deps, byName, detail, findings>>

ReadManifest ==
  /\ pc = "extract" /\ place <= Len(project)
  /\ LET file == project[place]
         eco == Ecosystem(file.name)
     IN IF file.deps = NONE \/ (file.name \in Loose /\ eco \in locked)
        THEN UNCHANGED <<listed, locked>>
        ELSE IF file.name \in Loose
        THEN listed' = [listed EXCEPT ![eco] = @ \o file.deps] /\ UNCHANGED locked
        ELSE /\ listed' = [listed EXCEPT ![eco] = file.deps]
             /\ locked' = locked \cup {eco}
  /\ place' = place + 1
  /\ UNCHANGED <<pc, project, deps, byName, detail, findings>>

(* _dedupe and max_deps; without dependencies nothing is asked.            *)
First(seq, i) == \A j \in 1..(i - 1) : seq[j] # seq[i]
Dedupe(seq) ==
  LET firsts == {i \in DOMAIN seq : First(seq, i)}
      nth(k) == CHOOSE i \in firsts : Cardinality({j \in firsts : j <= i}) = k
  IN [k \in 1..Cardinality(firsts) |-> seq[nth(k)]]

Extracted ==
  /\ pc = "extract" /\ place > Len(project)
  /\ LET all == Dedupe(listed.npm \o listed.PyPI)
     IN deps' = SubSeq(all, 1, IF Len(all) < MaxDeps THEN Len(all) ELSE MaxDeps)
  /\ pc' = IF deps' = <<>> THEN "done" ELSE "query"
  /\ UNCHANGED <<project, place, listed, locked, byName, detail, findings>>

(* OSVClient.query_batch: the answers are kept by the package's name, of   *)
(* several the last one's. A failed batch is an empty answer.              *)
QueryBatch ==
  /\ pc = "query"
  /\ byName' \in
       {<<>>,
        [n \in {d.name : d \in Range(deps)} |->
           LET last == CHOOSE i \in DOMAIN deps :
                         deps[i].name = n /\ \A j \in DOMAIN deps : deps[j].name = n => j <= i
           IN Vulns[deps[last]]]}
  /\ pc' = "hydrate"
  /\ UNCHANGED <<project, place, listed, locked, deps, detail, findings>>

(* get_vuln: once for each id; one that fails leaves the stub, which has   *)
(* no score.                                                               *)
Wanted == (UNION {byName[n] : n \in DOMAIN byName}) \ DOMAIN detail
Hydrate ==
  /\ pc = "hydrate" /\ Wanted # {}
  /\ \E id \in Wanted, severity \in BOOLEAN :
       detail' = [x \in DOMAIN detail \cup {id} |->
                    IF x # id THEN detail[x] ELSE IF severity THEN Scored[id] ELSE NONE]
  /\ UNCHANGED <<pc, project, place, listed, locked, deps, byName, findings>>

Severity(id) == IF detail[id] = NONE THEN "medium" ELSE detail[id]
AnswersFor(d) == IF d.name \in DOMAIN byName THEN byName[d.name] ELSE {}
Conclude ==
  /\ pc = "hydrate" /\ Wanted = {}
  /\ findings' = UNION {{[dep |-> d, id |-> id, severity |-> Severity(id)] :
                           id \in AnswersFor(d)} : d \in Range(deps)}
  /\ pc' = "done"
  /\ UNCHANGED <<project, place, listed, locked, deps, byName, detail>>

Next == ReadManifest \/ Extracted \/ QueryBatch \/ Hydrate \/ Conclude
Spec == Init /\ [][Next]_vars

-----------------------------------------------------------------------------
(* What is checked is what is installed: dependencies come from files that *)
(* parsed, each once, never from a loose manifest of an ecosystem that a   *)
(* lockfile pins; and as long as no package is in the list twice, and the  *)
(* batch was answered, every vulnerability of every dependency in it is    *)
(* reported and no other (supply/deps.py:283-410, cvefeed/osv.py:115-147). *)
Parsed(eco) ==
  {i \in DOMAIN project : project[i].deps # NONE /\ Ecosystem(project[i].name) = eco}
Pinned(eco) == \E i \in Parsed(eco) : project[i].name \notin Loose

CheckedIsInstalled ==
  pc = "done" =>
    /\ IsInjective(deps)
    /\ \A d \in Range(deps) :
         \E i \in Parsed(d.ecosystem) :
           d \in Range(project[i].deps) /\ (project[i].name \in Loose => ~Pinned(d.ecosystem))
    /\ Cardinality({d.name : d \in Range(deps)}) = Len(deps) /\ byName # <<>> =>
         {<<f.dep, f.id>> : f \in findings}
           = UNION {{d} \X Vulns[d] : d \in Range(deps)}

(* A dependency that OSV knows to be vulnerable is reported. supply/deps.py*)
(* says so at line 358: each vulnerable dependency yields one D001 finding.*)
EachVulnerableReported ==
  pc = "done" /\ byName # <<>> =>
    \A d \in Range(deps) : Vulns[d] # {} => \E f \in findings : f.dep = d
=============================================================================
