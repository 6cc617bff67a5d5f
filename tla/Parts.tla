-------------------------------- MODULE Parts --------------------------------
(***************************************************************************)
(* The parts of an installation that share no state: the plugins, the      *)
(* database's upgrade, the download of a package, scan-all, the CVE feed,  *)
(* the policy gate with its scores, the analysis of several servers, the   *)
(* differ, the rules, fingerprints, the discovery of an endpoint's         *)
(* authorization, a project's dependencies, and the arguments of a probe.  *)
(* A behaviour is one of `part`; a variable of other parts is NONE.        *)
(*                                                                         *)
(* Constants and variables are those of the parts' modules, by their names;*)
(* three of the parts are taken with the theorems proved about them.       *)
(***************************************************************************)
EXTENDS Integers, Sequences, FiniteSets

CONSTANTS
  (* in several parts  *)  Procs, NONE, TORN, EMPTY,
  (* Plugins           *)  Packages, Useless,
  (* Migration         *)  Additions, Guarded,
  (* Fetch             *)  Refs, Web, Addresses, Trusted, LocalNames, Literals, Public,
                           MaxRedirects, JsonBytes, PackageBytes,
                           MaxMembers, MaxDepth, MaxMember, MaxExpanded, MaxRatio,
  (* ScanAll           *)  Count, Limits,
  (* CveFeed           *)  Nvd, Seeds, Retries, MaxBackoff,
  (* Policy            *)  Findings, Catalog, PolicyFiles, Matched, Horizon,
  (* ContextAnalysis   *)  Servers, Reports, Lower, Similar,
  (* Differ            *)  Histories, Sensitive,
  (* Rules             *)  Tools, Words, Properties, MaxWords, MaxProperties, Window,
  (* Identity          *)  Endpoints, Looks, Names, MaxTime,
  (* Endpoint          *)  Targets, Resources, AuthServers, Handshakes,
  (* Dependencies      *)  Projects, Vulns, Scored, MaxDeps,
  (* ProbeArgs         *)  Schemas, Answers, MaxArgsDepth

VARIABLES
  part, pc,
  dir, file, writing, mixed, job, read, removed, granted, overlap,
  db, backup, existed, current, step, origin, disturbed,
  ref, url, hop, body, answer, artifact, checked, disk, provenance, asked,
  parallel, limit, state, next, saved, told, ended,
  feed, found, place, attempt, backoff, missed,
  day, policy, reported, tools, incomplete,
  tried, scans,
  old, new,
  tool, floor, report,
  server, rows, now, taken,
  target, tries, resource, tlsInfo, findings,
  project, listed, locked, deps, byName, detail,
  schema, sandboxed, args, result

-----------------------------------------------------------------------------
P == INSTANCE PluginsProofs
M == INSTANCE MigrationProofs
F == INSTANCE Fetch
A == INSTANCE ScanAll
V == INSTANCE CveFeedProofs
G == INSTANCE Policy WITH found <- reported
C == INSTANCE ContextAnalysis
D == INSTANCE Differ
R == INSTANCE Rules
I == INSTANCE Identity
E == INSTANCE Endpoint
S == INSTANCE Dependencies
B == INSTANCE ProbeArgs

ASSUME PartsAssumption ==
  /\ P!PluginsAssumption /\ M!MigrationAssumption /\ F!FetchAssumption
  /\ A!ScanAllAssumption /\ V!CveFeedAssumption /\ G!PolicyAssumption
  /\ C!ContextAssumption /\ D!DifferAssumption /\ R!RulesAssumption
  /\ I!IdentityAssumption /\ E!EndpointAssumption /\ S!DependenciesAssumption
  /\ B!ProbeAssumption

-----------------------------------------------------------------------------
(* The variables the current part does not use.                            *)
Others(Held(_, _)) ==
  /\ Held(pc, {"plugins", "migration", "fetch", "feed", "endpoint", "dependencies", "probe"})
  /\ Held(dir, {"plugins"}) /\ Held(job, {"plugins"})
  /\ Held(read, {"plugins"}) /\ Held(removed, {"plugins"})
  /\ Held(granted, {"plugins"}) /\ Held(file, {"plugins", "feed"})
  /\ Held(writing, {"plugins", "feed"}) /\ Held(mixed, {"plugins", "feed"})
  /\ Held(overlap, {"plugins", "feed"}) /\ Held(db, {"migration"})
  /\ Held(backup, {"migration"}) /\ Held(existed, {"migration"})
  /\ Held(current, {"migration"}) /\ Held(step, {"migration"})
  /\ Held(origin, {"migration"}) /\ Held(disturbed, {"migration"})
  /\ Held(ref, {"fetch"}) /\ Held(url, {"fetch"}) /\ Held(hop, {"fetch"})
  /\ Held(body, {"fetch"}) /\ Held(artifact, {"fetch"})
  /\ Held(disk, {"fetch"}) /\ Held(provenance, {"fetch"})
  /\ Held(asked, {"fetch"}) /\ Held(checked, {"fetch", "probe"})
  /\ Held(answer, {"fetch", "identity"}) /\ Held(parallel, {"scan-all"})
  /\ Held(limit, {"scan-all"}) /\ Held(state, {"scan-all"})
  /\ Held(next, {"scan-all"}) /\ Held(saved, {"scan-all"})
  /\ Held(told, {"scan-all"}) /\ Held(ended, {"scan-all"})
  /\ Held(feed, {"feed"}) /\ Held(attempt, {"feed"})
  /\ Held(backoff, {"feed"}) /\ Held(missed, {"feed"})
  /\ Held(found, {"feed"})
  /\ Held(place, {"feed", "dependencies"}) /\ Held(day, {"policy"}) /\ Held(reported, {"policy"})
  /\ Held(policy, {"policy"}) /\ Held(tools, {"policy"})
  /\ Held(incomplete, {"policy"}) /\ Held(tried, {"context"})
  /\ Held(scans, {"context"}) /\ Held(old, {"differ"})
  /\ Held(new, {"differ"}) /\ Held(tool, {"rules"})
  /\ Held(report, {"rules"}) /\ Held(floor, {"rules", "endpoint"})
  /\ Held(server, {"identity", "endpoint"}) /\ Held(rows, {"identity"})
  /\ Held(now, {"identity"}) /\ Held(taken, {"identity"})
  /\ Held(target, {"endpoint"}) /\ Held(tries, {"endpoint"})
  /\ Held(resource, {"endpoint"}) /\ Held(tlsInfo, {"endpoint"})
  /\ Held(findings, {"endpoint", "dependencies"})
  /\ Held(project, {"dependencies"}) /\ Held(listed, {"dependencies"})
  /\ Held(locked, {"dependencies"}) /\ Held(deps, {"dependencies"})
  /\ Held(byName, {"dependencies"}) /\ Held(detail, {"dependencies"})
  /\ Held(schema, {"probe"}) /\ Held(sandboxed, {"probe"})
  /\ Held(args, {"probe"}) /\ Held(result, {"probe"})

Unused(v, users) == part \notin users => v = NONE
Kept(v, users) == part \notin users => v' = v

Init ==
  /\ \/ part = "plugins" /\ P!Init
     \/ part = "migration" /\ M!Init
     \/ part = "fetch" /\ F!Init
     \/ part = "scan-all" /\ A!Init
     \/ part = "feed" /\ V!Init
     \/ part = "policy" /\ G!Init
     \/ part = "context" /\ C!Init
     \/ part = "differ" /\ D!Init
     \/ part = "rules" /\ R!Init
     \/ part = "identity" /\ I!Init
     \/ part = "endpoint" /\ E!Init
     \/ part = "dependencies" /\ S!Init
     \/ part = "probe" /\ B!Init
  /\ Others(Unused)

Next ==
  /\ UNCHANGED part
  /\ \/ part = "plugins" /\ P!Next
     \/ part = "migration" /\ M!Next
     \/ part = "fetch" /\ F!Next
     \/ part = "scan-all" /\ A!Next
     \/ part = "feed" /\ V!Next
     \/ part = "policy" /\ G!Next
     \/ part = "context" /\ C!Next
     \/ part = "differ" /\ D!Next
     \/ part = "rules" /\ R!Next
     \/ part = "identity" /\ I!Next
     \/ part = "endpoint" /\ E!Next
     \/ part = "dependencies" /\ S!Next
     \/ part = "probe" /\ B!Next
  /\ Others(Kept)

vars ==
  <<part, pc, dir, file, writing, mixed, job, read, removed, granted, overlap, db,
    backup, existed, current, step, origin, disturbed, ref, url, hop, body, answer,
    artifact, checked, disk, provenance, asked, parallel, limit, state, next, saved,
    told, ended, feed, found, place, attempt, backoff, missed, day, policy,
    reported, tools, incomplete, tried, scans, old, new, tool, floor, report, server, rows, now,
    taken, target, tries, resource, tlsInfo, findings, project, listed, locked, deps, byName,
    detail, schema, sandboxed, args, result>>
Spec == Init /\ [][Next]_vars

-----------------------------------------------------------------------------
(* Each variable of the concurrent parts has its type.                     *)
TypeOK ==
  CASE part = "plugins" -> P!TypeOK [] part = "migration" -> M!TypeOK
    [] part = "fetch" -> F!TypeOK [] part = "scan-all" -> A!TypeOK
    [] part = "feed" -> V!TypeOK [] OTHER -> TRUE

(* The properties of the parts, as their modules state them: what the      *)
(* manifest lists was filled and validated (plugin/manager.py:46-126),     *)
ListedIsWhole == part = "plugins" => P!ListedIsWhole
(* and is what the commands' answers say (plugin/manager.py:128-184);      *)
AnswersHold == part = "plugins" => P!AnswersHold
(* a command works on a whole database (storage/store.py:124-184),         *)
OpenHasAll == part = "migration" => M!OpenHasAll
(* of which the older one is kept (storage/store.py:128-135);              *)
WayBack == part = "migration" => M!WayBack
(* every request was looked at first (network/safe_http.py:90-141),        *)
RequestsVetted == part = "fetch" => F!RequestsVetted
(* and every archive as a whole (fetch/fetcher.py:98-324);                 *)
DestinationIsVetted == part = "fetch" => F!DestinationIsVetted
(* no failing scan costs another its result (scanner/engine.py:525-566);   *)
EveryServerAnswered == part = "scan-all" => A!EveryServerAnswered
(* and scan-all scans every server, as it says (cli.py:1111);              *)
EveryServerScanned == part = "scan-all" => A!EveryServerScanned
(* a sync asks for everything (cvefeed/syncer.py:97-187)                   *)
SyncIsThorough == part = "feed" => V!SyncIsThorough
(* and loses nothing (cvefeed/syncer.py:119-146);                          *)
NeverForgets == part = "feed" => V!NeverForgets
(* time only closes the gate (policy/engine.py:134-194),                   *)
GateOnlyCloses == [][part = "policy" => G!GateOnlyCloses]_vars
(* and a grade is no better than the worst finding (scoring/engine.py);    *)
GradeReflectsWorst == part = "policy" => G!GradeReflectsWorst
(* another server takes no finding away (analyzer/context.py:64-294),      *)
MoreServersMoreFindings == [][part = "context" => C!MoreServersMoreFindings]_vars
(* escalations are what can be fed, save one kind (context.py:302-602),    *)
EscalationsExact == part = "context" => C!EscalationsExact
(* of which the code says that it is looked at (analyzer/context.py:344);  *)
EveryEscalationTold == part = "context" => C!EveryEscalationTold
(* what gets worse counts as that, even in steps (diff/differ.py:276-441); *)
ChangesExact == part = "differ" => D!ChangesExact
(* what a tool adds hides nothing (scanner/rules.py:68-1385);              *)
NothingHidden == [][part = "rules" => R!NothingHidden]_vars
(* a comparison is with the last fingerprint (storage/store.py:539-609);   *)
ComparesWithLast == part = "identity" => I!ComparesWithLast
(* findings on an endpoint rest on what was read (probe/oauth.py:83-161);  *)
Documented == part = "endpoint" => E!Documented
(* what is asked OSV is what is installed (supply/deps.py:270-336),        *)
CheckedIsInstalled == part = "dependencies" => S!CheckedIsInstalled
(* and each vulnerable dependency is reported (supply/deps.py:358);        *)
EachVulnerableReported == part = "dependencies" => S!EachVulnerableReported
(* a probe sends what the sandbox lets through (probe/sandbox.py:71-168).  *)
SentIsSafe == part = "probe" => B!SentIsSafe
=============================================================================
