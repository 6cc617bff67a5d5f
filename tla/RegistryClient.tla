--------------------------- MODULE RegistryClient ---------------------------
(***************************************************************************)
(* registry/client.py: RegistryClient.list_servers walks the paginated MCP *)
(* registry and keeps the result in registry_cache.json, which it uses     *)
(* before a walk (unless a refresh is forced or the number of pages is     *)
(* bounded) and again when the walk fails. Several processes share the     *)
(* file.                                                                   *)
(*                                                                         *)
(* A page of the registry is its number, and a cursor too: 0 is no cursor, *)
(* cursor n asks for page n + 1. What changes in the registry from one     *)
(* walk to the next is left out. A registry that is not honest sends any   *)
(* cursor. What is listed is kept with the time its walk ended and the     *)
(* number of times a failed refresh has made its stamp later; the program  *)
(* stores only the pages and the stamp `at`. Time is counted in some unit, *)
(* it passes between steps, and the clock never runs backwards.            *)
(***************************************************************************)
EXTENDS Integers, Sequences

CONSTANTS
  Procs,
  LastPage,    \* pages of an honest registry
  MaxCursor,   \* bound on the cursors of any other
  PageBounds,  \* values of max_pages
  TTL,         \* cache_ttl
  Horizon,     \* bound on the clock
  NONE, TORN

ASSUME RegistryAssumption ==
  /\ LastPage \in Nat \ {0} /\ MaxCursor \in Nat
  /\ PageBounds \subseteq Nat \ {0}
  /\ TTL \in Nat /\ Horizon \in Nat
  /\ NONE \notin PageBounds

Cursors == 0..(MaxCursor + LastPage)
Listings ==
  [pages : Seq(Nat), walked : Nat, at : Nat, kept : Nat]

ASSUME NoListing == NONE \notin Listings /\ TORN \notin Listings

VARIABLES
  now,
  honest,      \* whether the registry is
  file,        \* registry_cache.json: a listing, NONE or TORN
  writing, mixed,
  pc,
  max,         \* max[p]: max_pages, or NONE
  pages,       \* all_raw_servers
  cursor,
  seen,        \* seen_cursors
  held,        \* held[p]: the listing p is about to save and to return
  taken        \* taken[p]: when p got it

cache == <<file, writing, mixed>>
walk == <<max, pages, cursor, seen>>
result == <<held, taken>>
vars == <<now, honest, file, writing, mixed, pc, max, pages, cursor, seen, held, taken>>

Disk == INSTANCE TextFile

Init ==
  /\ now = 0
  /\ honest \in BOOLEAN
  /\ file = NONE
  /\ writing = {} /\ mixed = {}
  /\ pc = [p \in Procs |-> "idle"]
  /\ max = [p \in Procs |-> NONE]
  /\ pages = [p \in Procs |-> <<>>]
  /\ cursor = [p \in Procs |-> 0]
  /\ seen = [p \in Procs |-> {}]
  /\ held = [p \in Procs |-> NONE]
  /\ taken = [p \in Procs |-> 0]

Tick ==
  /\ now < Horizon
  /\ now' = now + 1
  /\ UNCHANGED <<honest, cache, pc, walk, result>>

-----------------------------------------------------------------------------
(* Faulty variant of the test below: any cache will do after a failure.    *)
CacheUsableStale(p) ==
  file \in Listings /\ (pc[p] = "walking" \/ now - file.at <= TTL)

(* _load_cache: the file exists, parses, and has not expired.              *)
CacheUsable(p) == file \in Listings /\ now - file.at <= TTL

Take(p, listing) ==
  /\ held' = [held EXCEPT ![p] = listing]
  /\ taken' = [taken EXCEPT ![p] = now]

Goto(p, to) == pc' = [pc EXCEPT ![p] = to]

List(p, force, bound) ==
  /\ pc[p] = "idle"
  /\ IF ~force /\ bound = NONE /\ CacheUsable(p)
     THEN Take(p, file) /\ Goto(p, "answered")
     ELSE Goto(p, "walking") /\ UNCHANGED result
  /\ max' = [max EXCEPT ![p] = bound]
  /\ UNCHANGED <<now, honest, cache, pages, cursor, seen>>

(* What a request may come back with: the next cursor.                     *)
Nexts(p) ==
  IF honest THEN {IF cursor[p] + 1 < LastPage THEN cursor[p] + 1 ELSE 0}
  ELSE 0..MaxCursor

Read(p) == Append(pages[p], cursor[p] + 1)
PagesDone(p) == max[p] # NONE /\ Len(Read(p)) >= max[p]

ForgetWalk(p) ==
  /\ pages' = [pages EXCEPT ![p] = <<>>]
  /\ cursor' = [cursor EXCEPT ![p] = 0]
  /\ seen' = [seen EXCEPT ![p] = {}]
  /\ UNCHANGED max

NextPage(p) ==
  /\ pc[p] = "walking"
  /\ ~PagesDone(p)
  /\ \E next \in Nexts(p) \ ({0} \cup seen[p]) :
       /\ cursor' = [cursor EXCEPT ![p] = next]
       /\ seen' = [seen EXCEPT ![p] = @ \cup {next}]
  /\ pages' = [pages EXCEPT ![p] = Read(p)]
  /\ UNCHANGED <<now, honest, cache, pc, max, result>>

(* The walk is over: stamp and save it, unless it was bounded.             *)
LastPageRead(p) ==
  /\ pc[p] = "walking"
  /\ 0 \in Nexts(p) \/ PagesDone(p)
  /\ Take(p, [pages |-> Read(p), walked |-> now, at |-> now, kept |-> 0])
  /\ Goto(p, IF max[p] = NONE THEN "saving" ELSE "answered")
  /\ ForgetWalk(p)
  /\ UNCHANGED <<now, honest, cache>>

(* Faulty variant: a walk that breaks off is saved as far as it got.       *)
WalkFailsPartial(p) ==
  /\ IF pages[p] # <<>>
     THEN /\ Take(p, [pages |-> pages[p], walked |-> now, at |-> now, kept |-> 0])
          /\ Goto(p, IF max[p] = NONE THEN "saving" ELSE "answered")
     ELSE UNCHANGED result /\ Goto(p, "answered")
  /\ ForgetWalk(p)
  /\ UNCHANGED <<now, honest, cache>>

Restamped(l) ==
  [pages |-> l.pages, walked |-> l.walked, at |-> now,
   kept |-> IF l.at = now THEN l.kept ELSE l.kept + 1]

(* The except branch: back to the cache, which is then saved with a new    *)
(* stamp like a walk; without a usable one, an empty list.                 *)
WalkFails(p) ==
  /\ IF CacheUsable(p)
     THEN IF max[p] = NONE
          THEN Take(p, Restamped(file)) /\ Goto(p, "saving")
          ELSE Take(p, file) /\ Goto(p, "answered")
     ELSE UNCHANGED result /\ Goto(p, "answered")
  /\ ForgetWalk(p)
  /\ UNCHANGED <<now, honest, cache>>

RequestFails(p) == pc[p] = "walking" /\ WalkFails(p)

(* Faulty variant: a repeated cursor starts the walk over.                 *)
RepeatedCursorRestarts(p) ==
  /\ pc[p] = "walking"
  /\ ~PagesDone(p)
  /\ Nexts(p) \cap seen[p] # {}
  /\ ForgetWalk(p)
  /\ UNCHANGED <<now, honest, cache, pc, result>>

RepeatedCursor(p) ==
  /\ pc[p] = "walking"
  /\ ~PagesDone(p)
  /\ Nexts(p) \cap seen[p] # {}
  /\ WalkFails(p)

-----------------------------------------------------------------------------
SaveOpen(p) ==
  /\ pc[p] = "saving"
  /\ Disk!Open(p)
  /\ Goto(p, "writing")
  /\ UNCHANGED <<now, honest, walk, result>>

SaveWrite(p) ==
  /\ pc[p] = "writing"
  /\ Disk!Write(p, held[p])
  /\ Goto(p, "answered")
  /\ UNCHANGED <<now, honest, walk, result>>

(* Faulty variant: a failed write leaves the file open.                    *)
SaveFailsLeaks(p) ==
  /\ pc[p] \in {"saving", "writing"}
  /\ Goto(p, "answered")
  /\ UNCHANGED <<now, honest, cache, walk, result>>

(* suppress(Exception): the answer is given all the same.                  *)
SaveFails(p) ==
  /\ pc[p] \in {"saving", "writing"}
  /\ Disk!Leave(p)
  /\ Goto(p, "answered")
  /\ UNCHANGED <<now, honest, walk, result>>

Forget(p) ==
  /\ Goto(p, "idle")
  /\ held' = [held EXCEPT ![p] = NONE]
  /\ taken' = [taken EXCEPT ![p] = 0]
  /\ max' = [max EXCEPT ![p] = NONE]
  /\ pages' = [pages EXCEPT ![p] = <<>>]
  /\ cursor' = [cursor EXCEPT ![p] = 0]
  /\ seen' = [seen EXCEPT ![p] = {}]
  /\ UNCHANGED <<now, honest>>

(* Parse and return what is held; nothing held is the empty list.          *)
Return(p) ==
  /\ pc[p] = "answered"
  /\ Forget(p)
  /\ UNCHANGED cache

Crash(p) ==
  /\ pc[p] # "idle"
  /\ Disk!Leave(p)
  /\ Forget(p)

Work(p) ==
  \/ NextPage(p) \/ LastPageRead(p) \/ RequestFails(p) \/ RepeatedCursor(p)
  \/ SaveOpen(p) \/ SaveWrite(p) \/ SaveFails(p) \/ Return(p)

Next ==
  \/ Tick
  \/ \E p \in Procs :
       \/ \E force \in BOOLEAN, bound \in PageBounds \cup {NONE} : List(p, force, bound)
       \/ Work(p)
       \/ Crash(p)

(* A request is answered or fails (httpx gives up after 30 s of silence),  *)
(* and the pause of 1 s between two requests ends.                         *)
Spec == Init /\ [][Next]_vars /\ \A p \in Procs : WF_vars(Work(p))

-----------------------------------------------------------------------------
(* Every variable stays in its type, and only who is about to write has    *)
(* the cache file open (registry/client.py).                               *)
TypeOK ==
  /\ now \in Nat
  /\ honest \in BOOLEAN
  /\ file \in Listings \cup {NONE, TORN}
  /\ writing \subseteq Procs /\ mixed \subseteq writing
  /\ \A p \in Procs : p \in writing <=> pc[p] = "writing"
  /\ pc \in [Procs -> {"idle", "walking", "saving", "writing", "answered"}]
  /\ max \in [Procs -> PageBounds \cup {NONE}]
  /\ pages \in [Procs -> Seq(Nat)]
  /\ cursor \in [Procs -> Cursors]
  /\ seen \in [Procs -> SUBSET Cursors]
  /\ held \in [Procs -> Listings \cup {NONE}]
  /\ taken \in [Procs -> Nat]

(* The cache of an honest registry never holds part of it: not after a     *)
(* walk that broke off, not after a bounded one, not when two processes    *)
(* write at once. An unbounded listing is likewise everything or nothing.  *)
Whole == [n \in 1..LastPage |-> n]

OnlyWholeWalks ==
  honest =>
    /\ file \in Listings => file.pages = Whole
    /\ \A p \in Procs :
         held[p] # NONE /\ max[p] = NONE => held[p].pages = Whole

(* A listing comes from a walk at most one time to live ago, plus one for  *)
(* every time a refresh failed and stamped it anew.                        *)
Age(p) == taken[p] - held[p].walked
AgeBounded ==
  \A p \in Procs : held[p] # NONE => Age(p) <= TTL * (held[p].kept + 1)

(* Every listing command ends, in whatever order and however often the     *)
(* registry sends the cursors it has. (One that makes up new cursors for   *)
(* ever is not stopped by client.py:108; MaxCursor leaves it out.)         *)
Ends == \A p \in Procs : pc[p] # "idle" ~> pc[p] = "idle"

(* client.py:57 "Cache time-to-live in seconds. Default: 24 hours.":       *)
(* nothing older is listed.                                                *)
CacheExpires == \A p \in Procs : held[p] # NONE => Age(p) <= TTL
=============================================================================
