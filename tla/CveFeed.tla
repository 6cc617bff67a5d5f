------------------------------ MODULE CveFeed ------------------------------
(***************************************************************************)
(* cvefeed/syncer.py: `mcpradar cve sync` loads cve_feed.json, asks the    *)
(* NVD for every keyword, page after page, merges what it found and writes *)
(* the file, with no lock between the load and the write. A request is     *)
(* tried five times with a growing pause, which the requests of a sync     *)
(* share; a request that is given up ends its keyword without a word.      *)
(*                                                                         *)
(* A feed maps a CVE to its publication date, 0 for a CVE it does not      *)
(* hold. The NVD has the pages of Nvd[keyword], each a feed of its own. A  *)
(* date stands for the whole entry. `overlap` and `missed` are             *)
(* observations.                                                           *)
(***************************************************************************)
EXTENDS Integers, Sequences

CONSTANTS
  Procs,
  Nvd,        \* Nvd[keyword]: the sequence of its pages, keywords 1..n
  Seeds,      \* SEED_CVES
  Retries,    \* max_retries
  MaxBackoff, \* how often the pause doubles before it is 60 s
  NONE, TORN

Keywords == DOMAIN Nvd
CVEs == DOMAIN Seeds
Nothing == [c \in CVEs |-> 0]
Feeds == [CVEs -> Nat]

CveFeedAssumption ==
  /\ Retries \in Nat \ {0} /\ MaxBackoff \in Nat
  /\ Seeds \in Feeds
  /\ Nvd \in Seq(Seq(Feeds)) /\ \A k \in Keywords : Nvd[k] # <<>>
  /\ NONE \notin Feeds /\ TORN \notin Feeds

VARIABLES
  file,      \* cve_feed.json: a feed, NONE or TORN
  writing, mixed,
  pc,
  feed,      \* feed[p]: existing, then what is saved
  found,     \* found[p]: what search_mcp_cves has collected
  place,     \* place[p]: <<keyword, page>> to be asked for
  attempt,
  backoff,   \* the pause is 2^backoff seconds, 60 at MaxBackoff
  missed,    \* missed[p]: whether p gave a request up
  overlap    \* whether two syncs ran at once, or a write was cut off

disk == <<file, writing, mixed>>
search == <<found, place, attempt, backoff, missed>>
vars == <<file, writing, mixed, pc, feed, found, place, attempt, backoff, missed, overlap>>

Disk == INSTANCE TextFile

Init ==
  /\ file = NONE
  /\ writing = {} /\ mixed = {}
  /\ pc = [p \in Procs |-> "idle"]
  /\ feed = [p \in Procs |-> Nothing]
  /\ found = [p \in Procs |-> Nothing]
  /\ place = [p \in Procs |-> <<1, 1>>]
  /\ attempt = [p \in Procs |-> 0]
  /\ backoff = [p \in Procs |-> 0]
  /\ missed = [p \in Procs |-> FALSE]
  /\ overlap = FALSE

Goto(p, to) == pc' = [pc EXCEPT ![p] = to]

(* A new process, and NVDAPISyncer with it.                                *)
Fresh(p) ==
  /\ feed' = [feed EXCEPT ![p] = Nothing]
  /\ found' = [found EXCEPT ![p] = Nothing]
  /\ place' = [place EXCEPT ![p] = <<1, 1>>]
  /\ attempt' = [attempt EXCEPT ![p] = 0]
  /\ backoff' = [backoff EXCEPT ![p] = 0]
  /\ missed' = [missed EXCEPT ![p] = FALSE]

(* What a file holds for load_feed, which raises when it is torn.          *)
Stored == IF file = NONE THEN Nothing ELSE file

Begin(p) ==
  /\ pc[p] = "idle"
  /\ IF file = TORN
     THEN Goto(p, "falling back") /\ UNCHANGED feed
     ELSE Goto(p, "searching") /\ feed' = [feed EXCEPT ![p] = Stored]
  /\ overlap' = (overlap \/ \E q \in Procs \ {p} : pc[q] # "idle")
  /\ UNCHANGED <<disk, search>>

-----------------------------------------------------------------------------
Keyword(p) == place[p][1]
Page(p) == place[p][2]
Asking(p) == pc[p] = "searching" /\ Keyword(p) \in Keywords

NextKeyword(p) == <<Keyword(p) + 1, 1>>

(* The first entry of an id is kept, whatever later pages say (seen_ids).  *)
Collect(old, page) == [c \in CVEs |-> IF old[c] # 0 THEN old[c] ELSE page[c]]

(* Faulty variant: a keyword has one page.                                 *)
AnsweredFirstPage(p) ==
  /\ Asking(p)
  /\ found' = [found EXCEPT ![p] = Collect(@, Nvd[Keyword(p)][Page(p)])]
  /\ place' = [place EXCEPT ![p] = NextKeyword(p)]
  /\ attempt' = [attempt EXCEPT ![p] = 0]
  /\ UNCHANGED <<disk, pc, feed, backoff, missed, overlap>>

Answered(p) ==
  /\ Asking(p)
  /\ found' = [found EXCEPT ![p] = Collect(@, Nvd[Keyword(p)][Page(p)])]
  /\ place' = [place EXCEPT ![p] =
       IF Page(p) < Len(Nvd[Keyword(p)]) THEN <<Keyword(p), Page(p) + 1>>
       ELSE NextKeyword(p)]
  /\ attempt' = [attempt EXCEPT ![p] = 0]
  /\ UNCHANGED <<disk, pc, feed, backoff, missed, overlap>>

(* 429 and 503 pause after every attempt, an exception not after the last. *)
Pause(p) ==
  /\ Asking(p)
  /\ attempt[p] + 1 < Retries
  /\ attempt' = [attempt EXCEPT ![p] = @ + 1]
  /\ backoff' = [backoff EXCEPT ![p] = IF @ < MaxBackoff THEN @ + 1 ELSE @]
  /\ UNCHANGED <<disk, pc, feed, found, place, missed, overlap>>

(* Another status, no JSON, or the last attempt: on to the next keyword.   *)
GiveUp(p) ==
  /\ Asking(p)
  /\ \/ UNCHANGED backoff
     \/ /\ attempt[p] + 1 = Retries
        /\ backoff' = [backoff EXCEPT ![p] = IF @ < MaxBackoff THEN @ + 1 ELSE @]
  /\ place' = [place EXCEPT ![p] = NextKeyword(p)]
  /\ attempt' = [attempt EXCEPT ![p] = 0]
  /\ missed' = [missed EXCEPT ![p] = TRUE]
  /\ UNCHANGED <<disk, pc, feed, found, overlap>>

(* JSON of another shape raises: sync_all goes on with nothing found.      *)
Malformed(p) ==
  /\ Asking(p)
  /\ found' = [found EXCEPT ![p] = Nothing]
  /\ place' = [place EXCEPT ![p] = <<Len(Nvd) + 1, 1>>]
  /\ attempt' = [attempt EXCEPT ![p] = 0]
  /\ missed' = [missed EXCEPT ![p] = TRUE]
  /\ UNCHANGED <<disk, pc, feed, backoff, overlap>>

(* Faulty variant: what was found replaces what was stored.                *)
MergedFound(old, new) == [c \in CVEs |-> IF new[c] # 0 THEN new[c] ELSE old[c]]

Merged(old, new) == [c \in CVEs |-> IF new[c] > old[c] THEN new[c] ELSE old[c]]

Merge(p) ==
  /\ pc[p] = "searching"
  /\ Keyword(p) \notin Keywords
  /\ feed' = [feed EXCEPT ![p] = Merged(@, found[p])]
  /\ found' = [found EXCEPT ![p] = Nothing]
  /\ place' = [place EXCEPT ![p] = <<1, 1>>]
  /\ backoff' = [backoff EXCEPT ![p] = 0]
  /\ Goto(p, "saving")
  /\ UNCHANGED <<disk, attempt, missed, overlap>>

-----------------------------------------------------------------------------
Open(p) ==
  /\ pc[p] = "saving"
  /\ Disk!Open(p)
  /\ Goto(p, "writing")
  /\ UNCHANGED <<feed, search, overlap>>

Write(p) ==
  /\ pc[p] = "writing"
  /\ Disk!Write(p, feed[p])
  /\ Goto(p, "answering")
  /\ UNCHANGED <<feed, search, overlap>>

SaveFails(p) ==
  /\ pc[p] \in {"saving", "writing"}
  /\ Disk!Leave(p)
  /\ Goto(p, "falling back")
  /\ overlap' = (overlap \/ pc[p] = "writing")
  /\ UNCHANGED <<feed, search>>

(* Faulty variant: the fallback starts from the seeds alone.               *)
FallBackToSeeds(p) ==
  /\ pc[p] = "falling back"
  /\ feed' = [feed EXCEPT ![p] = Seeds]
  /\ missed' = [missed EXCEPT ![p] = TRUE]
  /\ Goto(p, "seeding")
  /\ UNCHANGED <<disk, found, place, attempt, backoff, overlap>>

(* Loading or saving raised: sync_feed adds the seeds to what the file     *)
(* holds now; a file that is torn (still) ends the command.                *)
FallBack(p) ==
  /\ pc[p] = "falling back"
  /\ IF file = TORN
     THEN Goto(p, "idle") /\ Fresh(p)
     ELSE /\ feed' = [feed EXCEPT ![p] =
                [c \in CVEs |-> IF Stored[c] # 0 THEN Stored[c] ELSE Seeds[c]]]
          /\ missed' = [missed EXCEPT ![p] = TRUE]
          /\ Goto(p, "seeding")
          /\ UNCHANGED <<found, place, attempt, backoff>>
  /\ UNCHANGED <<disk, overlap>>

OpenSeeds(p) ==
  /\ pc[p] = "seeding"
  /\ Disk!Open(p)
  /\ Goto(p, "writing seeds")
  /\ UNCHANGED <<feed, search, overlap>>

WriteSeeds(p) ==
  /\ pc[p] = "writing seeds"
  /\ Disk!Write(p, feed[p])
  /\ Goto(p, "answering")
  /\ UNCHANGED <<feed, search, overlap>>

Answer(p) ==
  /\ pc[p] = "answering"
  /\ Goto(p, "idle")
  /\ Fresh(p)
  /\ UNCHANGED <<disk, overlap>>

(* The process is killed, or the second save raises too.                   *)
Crash(p) ==
  /\ pc[p] # "idle"
  /\ Disk!Leave(p)
  /\ overlap' = (overlap \/ pc[p] \in {"writing", "writing seeds"})
  /\ Goto(p, "idle")
  /\ Fresh(p)

Work(p) ==
  \/ Answered(p) \/ Pause(p) \/ GiveUp(p) \/ Malformed(p) \/ Merge(p)
  \/ Open(p) \/ Write(p) \/ SaveFails(p)
  \/ FallBack(p) \/ OpenSeeds(p) \/ WriteSeeds(p) \/ Answer(p)

Next == \E p \in Procs : Begin(p) \/ Work(p) \/ Crash(p)

Spec == Init /\ [][Next]_vars

-----------------------------------------------------------------------------
TypeOK ==
  /\ file \in Feeds \cup {NONE, TORN}
  /\ mixed \subseteq writing
  /\ writing = {p \in Procs : pc[p] \in {"writing", "writing seeds"}}
  /\ \A p \in Procs :
       /\ pc[p] \in {"idle", "searching", "saving", "writing",
                     "falling back", "seeding", "writing seeds", "answering"}
       /\ feed[p] \in Feeds /\ found[p] \in Feeds
       /\ place[p][1] \in 1..(Len(Nvd) + 1) /\ place[p][2] \in Nat
       /\ attempt[p] \in 0..(Retries - 1)
       /\ backoff[p] \in 0..MaxBackoff

(* A sync in which no request was given up has asked for every page of     *)
(* every keyword: whatever the NVD lists is in what it saves               *)
(* (syncer.py:97-187).                                                     *)
Listed(c) == \E k \in Keywords : \E i \in DOMAIN Nvd[k] : Nvd[k][i][c] # 0

SyncIsThorough ==
  \A p \in Procs : pc[p] \in {"saving", "writing", "answering"} /\ ~missed[p] =>
    \A c \in CVEs : Listed(c) => feed[p][c] # 0

(* As long as no two syncs overlap and no write is cut off, what a command *)
(* is about to save has every entry of the file, none of them older, after *)
(* whatever failed or died before (syncer.py:119-146, cli.py:1920-1930).   *)
NeverForgets ==
  ~overlap => \A p \in Procs :
    pc[p] \in {"searching", "saving", "seeding"} /\ file \in Feeds =>
      \A c \in CVEs : feed[p][c] >= file[c]
=============================================================================
