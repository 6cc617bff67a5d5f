------------------------------- MODULE Fetch -------------------------------
(***************************************************************************)
(* fetch/fetcher.py over network/safe_http.py: a package reference becomes *)
(* a directory of source. The registry's metadata names an artifact and    *)
(* its digest, the artifact is downloaded and verified, all members of the *)
(* archive are checked, and only then is any of them extracted, one by     *)
(* one, and a provenance file written. Every GET follows redirects itself, *)
(* looks at every URL before it asks and at every byte that comes.         *)
(*                                                                         *)
(* Sizes count small units. A URL is <<scheme, host, whether it has        *)
(* credentials, path>>; what a host name resolves to may change from one   *)
(* look to the next. A GitHub source is fetched by git in steps.           *)
(***************************************************************************)
EXTENDS Integers, Sequences, SequencesExt, FiniteSetsExt

CONSTANTS
  Refs,          \* records: kind, version (NONE: the latest), url, commit
  Web,           \* Web[url]: what a GET of url may answer, a set; a url that
                 \* is not in its domain nobody serves
  Addresses,     \* Addresses[host]: sets of addresses it may resolve to
  Trusted,       \* trusted_origins
  LocalNames,    \* _BLOCKED_HOSTNAMES
  Literals,      \* hosts that are IP addresses
  Public,        \* addresses that are global
  MaxRedirects, JsonBytes, PackageBytes,
  MaxMembers, MaxDepth, MaxMember, MaxExpanded, MaxRatio,
  NONE

IsSequence(s) == s \in Seq({s[i] : i \in DOMAIN s})
IsArchive(a) == a.holds # NONE /\ "members" \in DOMAIN a.holds

FetchAssumption ==
  /\ {MaxRedirects, JsonBytes, PackageBytes, MaxMembers, MaxDepth, MaxMember,
      MaxExpanded, MaxRatio} \subseteq Nat
  /\ \A host \in DOMAIN Addresses : Addresses[host] # {}
  /\ \A u \in DOMAIN Web : \A a \in Web[u] : IsArchive(a) => IsSequence(a.holds.members)

VARIABLES
  pc,
  ref,
  url,           \* current
  hop,
  body,          \* bytes read of the answer
  answer,        \* the answer that is being read, then what it holds
  artifact,      \* the archive that was downloaded and verified
  checked,       \* members of it that _validate_archive_members has passed
  disk,          \* members extracted, or steps of git done
  provenance,    \* what .mcpradar-provenance.json says, or NONE
  asked          \* the URLs that were requested, in order (observation)

web == <<url, hop, body, answer, asked>>
tree == <<artifact, checked, disk, provenance>>
vars == <<pc, ref, url, hop, body, answer, artifact, checked, disk, provenance, asked>>

Scheme(u) == u[1]
Host(u) == u[2]
HasCredentials(u) == u[3]
Origin(u) == <<u[1], u[2]>>

-----------------------------------------------------------------------------
(* SafeUrlPolicy.validate, with what the name resolved to this time.       *)
ResolvesPublic(host, found) == found # {} /\ found \subseteq Public

Validate(u, found) ==
  /\ Scheme(u) \in {"http", "https"}
  /\ Host(u) # NONE
  /\ ~HasCredentials(u)
  /\ Origin(u) \in Trusted \/
       /\ Scheme(u) = "https"
       /\ Host(u) \notin LocalNames
       /\ IF Host(u) \in Literals THEN Host(u) \in Public
          ELSE ResolvesPublic(Host(u), found)

(* Could any look at its name let the URL pass?                            *)
MayPass(u) == \E found \in Addresses[Host(u)] : Validate(u, found)

Limit == IF pc[1] = "metadata" THEN JsonBytes ELSE PackageBytes
Doing(what) == pc[2] = what
Then(what) == pc' = <<pc[1], what>>

Init ==
  /\ pc = <<"none", "idle">>
  /\ ref \in Refs
  /\ url = NONE /\ hop = 0 /\ body = 0 /\ answer = NONE /\ asked = <<>>
  /\ artifact = NONE /\ checked = 0 /\ disk = <<>> /\ provenance = NONE

(* FetchError, another exception, or a crash: whatever was extracted       *)
(* stays, the command exits with 2 (_resolve_source_arg) or dies.          *)
Fail ==
  /\ pc' = <<pc[1], "failed">>
  /\ UNCHANGED <<ref, web, tree>>

Get(phase, u) ==
  /\ pc' = <<phase, "validating">>
  /\ url' = u /\ hop' = 0 /\ body' = 0 /\ answer' = NONE
  /\ UNCHANGED asked

(* fetch_source                                                            *)
Start ==
  /\ Doing("idle")
  /\ \/ /\ ref.kind \in {"npm", "pypi"}
        /\ Get("metadata", ref.url)
     \/ /\ ref.kind = "github"
        /\ Scheme(ref.url) = "https" /\ ref.commit # NONE
        /\ pc' = <<"git", "running">>
        /\ UNCHANGED web
  /\ UNCHANGED <<ref, tree>>

-----------------------------------------------------------------------------
(* safe_get                                                                *)

(* Faulty variant: only the first URL is looked at.                        *)
AskOnce ==
  /\ Doing("validating")
  /\ hop = 0 => MayPass(url)
  /\ url \in DOMAIN Web /\ answer' \in Web[url]
  /\ asked' = Append(asked, url)
  /\ Then("answered")
  /\ UNCHANGED <<ref, url, hop, body, tree>>

Ask ==
  /\ Doing("validating")
  /\ MayPass(url)
  /\ url \in DOMAIN Web /\ answer' \in Web[url]
  /\ asked' = Append(asked, url)
  /\ Then("answered")
  /\ UNCHANGED <<ref, url, hop, body, tree>>

Refuse ==
  /\ Doing("validating")
  /\ \E found \in Addresses[Host(url)] : ~Validate(url, found)
  /\ Fail

Redirect ==
  /\ Doing("answered")
  /\ answer.to # NONE
  /\ IF hop = MaxRedirects THEN Fail
     ELSE /\ url' = answer.to /\ hop' = hop + 1 /\ answer' = NONE
          /\ Then("validating")
          /\ UNCHANGED <<ref, body, asked, tree>>

(* _bounded_response looks at Content-Length first, then at every chunk.   *)
Accept ==
  /\ Doing("answered")
  /\ answer.to = NONE
  /\ IF answer.declared > Limit THEN Fail
     ELSE Then("reading") /\ UNCHANGED <<ref, web, tree>>

ReadChunk ==
  /\ Doing("reading")
  /\ body < answer.size
  /\ body' = body + 1
  /\ IF body' > Limit THEN Then("failed") ELSE Then("reading")
  /\ UNCHANGED <<ref, url, hop, answer, asked, tree>>

(* A redirect without a location is read too, and is no success either.    *)
Unsuccessful ==
  /\ Doing("reading")
  /\ body = answer.size
  /\ ~answer.ok
  /\ Fail

-----------------------------------------------------------------------------
(* _fetch_npm, _fetch_pypi: the version asked for, else the latest; npm    *)
(* takes the first listed when there is none of that version.              *)
Wanted(meta) == IF ref.version = NONE THEN meta.latest ELSE ref.version
Entry(meta) ==
  LET exact == SelectSeq(meta.versions, LAMBDA e : e.version = Wanted(meta))
  IN IF exact # <<>> THEN exact[1] ELSE meta.versions[1]

ReadMetadata ==
  /\ Doing("reading")
  /\ pc[1] = "metadata"
  /\ body = answer.size /\ answer.ok
  /\ LET meta == answer.holds
     IN IF \/ meta.versions = <<>>
           \/ Entry(meta).tarball = NONE
           \/ Entry(meta).digest = NONE
        THEN Fail
        ELSE /\ Get("package", Entry(meta).tarball)
             /\ artifact' = [digest |-> Entry(meta).digest, members |-> <<>>,
                             version |-> Wanted(meta)]
             /\ UNCHANGED <<ref, checked, disk, provenance>>

(* _verify_integrity, on the bytes that came; those that are no archive    *)
(* fail a step later (Break).                                              *)
Verify ==
  /\ Doing("reading")
  /\ pc[1] = "package"
  /\ body = answer.size /\ answer.ok /\ IsArchive(answer)
  /\ IF answer.holds.digest # artifact.digest THEN Fail
     ELSE /\ artifact' = [artifact EXCEPT !.members = answer.holds.members]
          /\ Then("checking")
          /\ UNCHANGED <<ref, web, checked, disk, provenance>>

-----------------------------------------------------------------------------
(* _validate_archive_members, _safe_extract_tar, _safe_extract_zip         *)

SizeOf(members) == FoldSeq(LAMBDA m, sum : m.size + sum, 0, members)

SafeMember(m) ==
  /\ m.path = "inside"
  /\ m.depth <= MaxDepth
  /\ m.kind \in {"dir", "file"}
  /\ m.size \in 0..MaxMember

CheckMember ==
  /\ Doing("checking")
  /\ checked < Len(artifact.members)
  /\ IF /\ Len(artifact.members) <= MaxMembers
        /\ SafeMember(artifact.members[checked + 1])
        /\ SizeOf(SubSeq(artifact.members, 1, checked + 1)) <= MaxExpanded
     THEN /\ checked' = checked + 1
          /\ UNCHANGED <<pc, ref, web, artifact, disk, provenance>>
     ELSE Fail

(* Faulty variant: extraction starts as soon as a member is checked.       *)
ExtractMemberEarly ==
  /\ Doing("checking")
  /\ Len(disk) < checked
  /\ disk' = Append(disk, artifact.members[Len(disk) + 1])
  /\ UNCHANGED <<pc, ref, web, artifact, checked, provenance>>

CheckRatio ==
  /\ Doing("checking")
  /\ checked = Len(artifact.members)
  /\ IF SizeOf(artifact.members) <= body * MaxRatio
     THEN Then("extracting") /\ UNCHANGED <<ref, web, tree>>
     ELSE Fail

ExtractMember ==
  /\ Doing("extracting")
  /\ Len(disk) < checked
  /\ disk' = Append(disk, artifact.members[Len(disk) + 1])
  /\ UNCHANGED <<pc, ref, web, artifact, checked, provenance>>

(* init, remote add, fetch of the commit, checkout                         *)
GitSteps == <<"init", "remote", "fetch", "checkout">>
Git ==
  /\ pc = <<"git", "running">>
  /\ Len(disk) < Len(GitSteps)
  /\ disk' = Append(disk, GitSteps[Len(disk) + 1])
  /\ UNCHANGED <<pc, ref, web, artifact, checked, provenance>>

WriteProvenance ==
  /\ \/ Doing("extracting") /\ Len(disk) = checked
     \/ Doing("running") /\ Len(disk) = Len(GitSteps)
  /\ provenance' =
       IF pc[1] = "git" THEN [version |-> ref.commit, digest |-> ref.commit]
       ELSE [version |-> artifact.version, digest |-> artifact.digest]
  /\ Then("done")
  /\ UNCHANGED <<ref, web, artifact, checked, disk>>

(* A pause of 60 s, no connection, no JSON, no archive, a full disk, git   *)
(* failing or being too slow (120 s), a file that cannot be written; or    *)
(* the process is killed.                                                  *)
Break ==
  /\ pc[2] \notin {"done", "failed"}
  /\ Fail

Next ==
  \/ Start \/ Ask \/ Refuse \/ Redirect \/ Accept \/ ReadChunk \/ Unsuccessful
  \/ ReadMetadata \/ Verify \/ CheckMember \/ CheckRatio \/ ExtractMember
  \/ Git \/ WriteProvenance \/ Break

Spec == Init /\ [][Next]_vars

-----------------------------------------------------------------------------
Places ==
  {"none"} \X {"idle", "failed"} \cup {"git"} \X {"running", "done", "failed"}
  \cup {"metadata"} \X {"validating", "answered", "reading", "failed"}
  \cup {"package"}
       \X {"validating", "answered", "reading", "checking", "extracting", "done", "failed"}
TypeOK ==
  /\ pc \in Places
  /\ ref \in Refs
  /\ hop \in 0..MaxRedirects
  /\ body \in Nat
  /\ IsSequence(asked) /\ IsSequence(disk)
  /\ checked \in Nat
  /\ pc[1] = "package" => DOMAIN artifact = {"digest", "members", "version"}
  /\ Len(disk) <= Len(GitSteps) \/ Len(disk) <= checked

(* Every URL a fetch asks for, those it was redirected to included, is one *)
(* the policy could let pass; and there are at most max_redirects + 1 for  *)
(* each of the two downloads, of at most one unit beyond their limits,     *)
(* even when servers redirect in circles (safe_http.py:90-141).            *)
RequestsVetted ==
  /\ \A i \in DOMAIN asked : MayPass(asked[i])
  /\ Len(asked) <= 2 * (MaxRedirects + 1)
  /\ body <= 1 + Max({JsonBytes, PackageBytes})

(* The destination holds nothing of an archive any member of which is      *)
(* refused, however late in it, nor of one whose whole size is out of      *)
(* bounds, and a provenance file is only beside a whole extraction of the  *)
(* artifact with the digest of the metadata (fetcher.py:98-324).           *)
DestinationIsVetted ==
  pc[1] # "git" =>
    /\ disk # <<>> =>
         /\ disk = SubSeq(artifact.members, 1, Len(disk))
         /\ \A i \in DOMAIN artifact.members : SafeMember(artifact.members[i])
         /\ SizeOf(artifact.members) <= Min({MaxExpanded, body * MaxRatio})
    /\ provenance # NONE =>
         disk = artifact.members /\ provenance.digest = answer.holds.digest
=============================================================================
