------------------------------- MODULE Scanner -------------------------------
(***************************************************************************)
(* scanner/engine.py: one Scanner.run against one server, over HTTP or     *)
(* stdio/SSE. The session is chosen (stateless 2026-07-28 or stateful v1), *)
(* every list surface is read page by page under a page cap, what was read *)
(* is analysed, and the safe tools are probed.                             *)
(*                                                                         *)
(* The server is the environment. It serves `book`, page after page, on    *)
(* its honest surfaces; on those it lies about it may answer a request     *)
(* with any page, any next cursor or no list at all; on all of them it may *)
(* fail to answer. A cursor is a number: 0 is no cursor, and the honest    *)
(* cursor n asks for page n + 1. A page is a set of items; what the code   *)
(* keeps as one list of items is kept here page by page.                   *)
(***************************************************************************)
EXTENDS Integers, FiniteSets, Sequences

CONSTANTS
  Items,         \* tools, prompts, resources or instructions a server shows
  Kind,          \* Kind[x]: what the rules make of x, see Kinds
  SafeTools,     \* those ReadOnlyProber.is_safe_tool accepts
  OddSchemas,    \* those whose schema generate_minimal_args cannot read
  Pages,         \* the pages any server can send
  LastSurface,   \* tools, prompts, resources, resource_templates: 4 surfaces
  CapabilityOf,  \* the capability that announces a surface
  Servers,       \* the servers that can be scanned
  MaxCursor,     \* bound on the cursors a dishonest server sends
  MaxPages,      \* 50 in the code
  MaxProbes,     \* prober.MAX_PROBE_COUNT
  Prober,        \* whether runtime probing is asked for
  NONE

Kinds == {"clean", "flagged",
          "crash",      \* a rule raises on it
          "invalid"}    \* no tool name; prompt arguments that are no list

Surfaces == 1..LastSurface
Tools == 1
Prompts == 2
Instructions == 0    \* server_instructions is analysed but not listed
Capabilities == {CapabilityOf[s] : s \in Surfaces}

ASSUME ScannerAssumption ==
  /\ Kind \in [Items -> Kinds]
  /\ SafeTools \subseteq Items /\ OddSchemas \subseteq Items
  /\ Pages \subseteq SUBSET Items
  /\ LastSurface \in Nat \ {0}
  /\ MaxCursor \in Nat /\ MaxPages \in Nat \ {0} /\ MaxProbes \in Nat
  /\ Prober \in BOOLEAN
  /\ NONE \notin Items
  /\ Servers \subseteq
       [lies : SUBSET Surfaces,
        discover : {"supported", "unsupported", "broken"},
        caps : SUBSET Capabilities,
        book : [Surfaces -> Seq(Pages) \ {<<>>}],
        instructions : Items \cup {NONE}]

VARIABLES
  server,      \* the server being scanned
  profile,     \* "auto", "2026-07-28", or "v1" (which stdio and SSE imply)
  pc,
  session,     \* the session the report comes from, or NONE
  caps,        \* report.capabilities
  surface,     \* the surface being listed
  items,       \* _collect_pages: the pages received so far
  cursor,
  collected,   \* collected[s]: the pages kept for surface s
  status,      \* report.surface_status[s].state
  incomplete,  \* report.incomplete
  tools,       \* report.tools, page by page
  findings,    \* report.findings, as <<surface, item>>
  clean,       \* report.summary["clean"]'s tools
  probed       \* report.probe_results, as <<page, tool>>

listing == <<surface, items, cursor>>
kept == <<collected, status>>
analysed == <<tools, findings, clean>>
vars == <<server, profile, pc, session, caps, surface, items, cursor, collected,
          status, incomplete, tools, findings, clean, probed>>

Init ==
  /\ server \in Servers
  /\ profile \in {"auto", "2026-07-28", "v1"}
  /\ pc = "start"
  /\ session = NONE
  /\ caps = {}
  /\ surface = Tools
  /\ items = <<>>
  /\ cursor = 0
  /\ collected = [s \in Surfaces |-> <<>>]
  /\ status = [s \in Surfaces |-> "pending"]
  /\ incomplete = FALSE
  /\ tools = <<>>
  /\ findings = {}
  /\ clean = {}
  /\ probed = {}

-----------------------------------------------------------------------------
(* Choosing the session.                                                   *)

OpenSession(name, announced) ==
  /\ pc' = "listing"
  /\ session' = name
  /\ caps' = announced
  /\ UNCHANGED <<server, profile, listing, kept, incomplete, analysed, probed>>

Move(to) ==
  /\ pc' = to
  /\ UNCHANGED <<server, profile, session, caps, listing, kept, incomplete,
                 analysed, probed>>

Discover ==
  /\ pc = "start"
  /\ profile # "v1"
  /\ server.discover = "supported"
  /\ OpenSession("stateless", server.caps)

(* Rejected, method not found, or 2026-07-28 not among the versions.       *)
DiscoverUnsupported ==
  /\ pc = "start"
  /\ profile # "v1"
  /\ server.discover = "unsupported"
  /\ Move(IF profile = "auto" THEN "connect" ELSE "raised")

(* ProtocolResponseError, connection error: nothing falls back.            *)
DiscoverBroken ==
  /\ pc = "start"
  /\ profile # "v1"
  /\ server.discover = "broken"
  /\ Move("raised")

(* The SDK's ServerCapabilities.model_dump has a key for every capability, *)
(* announced or not.                                                       *)
DumpedCapabilities == Capabilities

Initialize ==
  /\ pc = "connect" \/ (pc = "start" /\ profile = "v1")
  /\ OpenSession("stateful", DumpedCapabilities)

InitializeFails ==
  /\ pc = "connect" \/ (pc = "start" /\ profile = "v1")
  /\ Move("raised")

-----------------------------------------------------------------------------
(* _collect_pages, one action per way a request for a page can end.        *)

SurfaceAdvertised(s) == CapabilityOf[s] \in caps
SurfaceSupported(s) == caps = {} \/ SurfaceAdvertised(s)

(* The answers that carry a list: honestly, the page asked for and the     *)
(* cursor of the next one, 0 when there is none.                           *)
Answers ==
  IF surface \notin server.lies
  THEN LET book == server.book[surface] IN
       {[page |-> book[cursor + 1],
         next |-> IF cursor + 1 < Len(book) THEN cursor + 1 ELSE 0]}
  ELSE [page : Pages, next : 0..MaxCursor]

(* _collect_pages returns: keep what it returned, go to the next surface.  *)
CloseSurface(state, pages, flag) ==
  /\ collected' = [collected EXCEPT ![surface] = pages]
  /\ status' = [status EXCEPT ![surface] = state]
  /\ incomplete' = (incomplete \/ flag)
  /\ surface' = surface + 1
  /\ items' = <<>>
  /\ cursor' = 0
  /\ UNCHANGED <<server, profile, pc, session, caps, analysed, probed>>

Asking == pc = "listing" /\ surface \in Surfaces /\ SurfaceSupported(surface)

SkipSurface ==
  /\ pc = "listing"
  /\ surface \in Surfaces
  /\ ~SurfaceSupported(surface)
  /\ CloseSurface("unsupported", <<>>, FALSE)

(* Faulty variant: a page without items is not counted.                    *)
ListPageNotCounted ==
  /\ Asking
  /\ \E a \in Answers :
       /\ a.next \notin {0, cursor}
       /\ Len(items) + 1 < MaxPages
       /\ items' = IF a.page = {} THEN items ELSE Append(items, a.page)
       /\ cursor' = a.next
  /\ UNCHANGED <<server, profile, pc, session, caps, surface, kept, incomplete,
                 analysed, probed>>

(* Faulty variant: range(51).                                              *)
ListPageOneMore ==
  /\ Asking
  /\ \E a \in Answers :
       /\ a.next \notin {0, cursor}
       /\ Len(items) + 1 <= MaxPages
       /\ items' = Append(items, a.page)
       /\ cursor' = a.next
  /\ UNCHANGED <<server, profile, pc, session, caps, surface, kept, incomplete,
                 analysed, probed>>

ListPage ==
  /\ Asking
  /\ \E a \in Answers :
       /\ a.next \notin {0, cursor}
       /\ Len(items) + 1 < MaxPages
       /\ items' = Append(items, a.page)
       /\ cursor' = a.next
  /\ UNCHANGED <<server, profile, pc, session, caps, surface, kept, incomplete,
                 analysed, probed>>

(* No next cursor, or the cursor just used.                                *)
LastPage ==
  /\ Asking
  /\ \E a \in Answers :
       /\ a.next \in {0, cursor}
       /\ CloseSurface("complete", Append(items, a.page), FALSE)

(* Faulty variant: the cap is taken for the end of the list.               *)
PageCapSilent ==
  /\ Asking
  /\ \E a \in Answers :
       /\ a.next \notin {0, cursor}
       /\ Len(items) + 1 = MaxPages
       /\ CloseSurface("complete", Append(items, a.page), FALSE)

PageCap ==
  /\ Asking
  /\ \E a \in Answers :
       /\ a.next \notin {0, cursor}
       /\ Len(items) + 1 = MaxPages
       /\ CloseSurface("partial", Append(items, a.page), TRUE)

(* A result without a list: the pages received before are dropped.         *)
NoList ==
  /\ Asking
  /\ surface \in server.lies
  /\ CloseSurface("unsupported", <<>>, FALSE)

(* Faulty variant: only a failure on the first page is reported.           *)
ListFailsFirstOnly ==
  /\ Asking
  /\ CloseSurface(IF \E n \in DOMAIN items : items[n] # {} THEN "partial" ELSE "failed",
                  items,
                  items = <<>> /\ (surface = Tools \/ SurfaceAdvertised(surface)))

(* Faulty variant: a ProtocolNotSupportedError on a list request escapes   *)
(* to run, which falls back with part of the report filled in.             *)
ListFailsFallsBack ==
  /\ Asking
  /\ IF session = "stateless" /\ profile = "auto"
     THEN Move("connect")
     ELSE CloseSurface("failed", items, TRUE)

(* An exception: connection lost, timeout, error response, also the        *)
(* ProtocolNotSupportedError of a stateless request.                       *)
ListFails ==
  /\ Asking
  /\ CloseSurface(IF \E n \in DOMAIN items : items[n] # {} THEN "partial" ELSE "failed",
                  items,
                  surface = Tools \/ SurfaceAdvertised(surface))

-----------------------------------------------------------------------------
(* The rest of _collect_all, in one go: no await in it.                    *)

Listed == pc = "listing" /\ surface \notin Surfaces
Has(s, k) == \E n \in DOMAIN collected[s] : \E x \in collected[s][n] : Kind[x] = k
Shown(s) == UNION {collected[s][n] : n \in DOMAIN collected[s]}
Flagged(s) == {<<s, x>> : x \in {y \in Shown(s) : Kind[y] = "flagged"}}
SurfaceFindings == UNION {Flagged(s) : s \in Surfaces}
FlaggedInstructions ==
  {<<Instructions, x>> : x \in {y \in Items : y = server.instructions /\ Kind[y] = "flagged"}}

(* A tool without a name is left out, a tool a rule raises on is kept and  *)
(* counted as clean; both mark the report.                                 *)
Analyze ==
  /\ Listed
  /\ ~(Prompts \in Surfaces /\ Has(Prompts, "invalid"))
  /\ tools' = [n \in DOMAIN collected[Tools] |->
                 {x \in collected[Tools][n] : Kind[x] # "invalid"}]
  /\ findings' = SurfaceFindings \cup FlaggedInstructions
  /\ clean' = {x \in Shown(Tools) : Kind[x] \in {"clean", "crash"}}
  /\ incomplete' =
       \/ incomplete
       \/ Has(Tools, "invalid")
       \/ \E s \in Surfaces : Has(s, "crash")
       \/ \E x \in Items : x = server.instructions /\ Kind[x] = "crash"
  /\ pc' = IF Prober /\ session = "stateful" THEN "probing" ELSE "done"
  /\ UNCHANGED <<server, profile, session, caps, listing, kept, probed>>

(* Prompt metadata is not isolated as tool metadata is: run raises.        *)
AnalyzeRaises ==
  /\ Listed
  /\ Prompts \in Surfaces /\ Has(Prompts, "invalid")
  /\ Move("raised")

(* tools_to_probe[:MAX_PROBE_COUNT], in the order of report.tools.         *)
ToProbe == {c \in (DOMAIN tools) \X SafeTools : c[2] \in tools[c[1]]}
NextToProbe ==
  {c \in ToProbe \ probed : \A d \in ToProbe \ probed : c[1] <= d[1]}

(* A timeout or an error is a result too.                                  *)
ProbeTool ==
  /\ pc = "probing"
  /\ Cardinality(probed) < MaxProbes
  /\ \E c \in NextToProbe : c[2] \notin OddSchemas /\ probed' = probed \cup {c}
  /\ UNCHANGED <<server, profile, pc, session, caps, listing, kept, incomplete,
                 analysed>>

(* The arguments are generated outside probe_tool's try.                   *)
ProbeRaises ==
  /\ pc = "probing"
  /\ Cardinality(probed) < MaxProbes
  /\ \E c \in NextToProbe : c[2] \in OddSchemas
  /\ Move("raised")

ProbeEnd ==
  /\ pc = "probing"
  /\ Cardinality(probed) = MaxProbes \/ ToProbe \subseteq probed
  /\ Move("done")

Next ==
  \/ Discover \/ DiscoverUnsupported \/ DiscoverBroken
  \/ Initialize \/ InitializeFails
  \/ SkipSurface \/ ListPage \/ LastPage \/ PageCap \/ NoList \/ ListFails
  \/ Analyze \/ AnalyzeRaises
  \/ ProbeTool \/ ProbeRaises \/ ProbeEnd

(* The event loop goes on as long as the server answers or the connection  *)
(* fails; a server that keeps it open in silence is outside this.          *)
Spec == Init /\ [][Next]_vars /\ WF_vars(Next)

-----------------------------------------------------------------------------
(* Every variable stays in its type; nothing is kept of a surface before   *)
(* it is closed (scanner/engine.py).                                       *)
TypeOK ==
  /\ server \in Servers
  /\ profile \in {"auto", "2026-07-28", "v1"}
  /\ pc \in {"start", "connect", "listing", "probing", "done", "raised"}
  /\ session \in {"stateless", "stateful", NONE}
  /\ caps \subseteq Capabilities
  /\ surface \in 1..(LastSurface + 1)
  /\ items \in Seq(Pages) /\ Len(items) < MaxPages
  /\ cursor \in Nat
  /\ collected \in [Surfaces -> Seq(Pages)]
  /\ status \in [Surfaces -> {"pending", "complete", "partial", "failed", "unsupported"}]
  /\ incomplete \in BOOLEAN
  /\ tools \in Seq(SUBSET Items)
  /\ findings \subseteq (Surfaces \cup {Instructions}) \X Items
  /\ clean \subseteq Items
  /\ probed \subseteq Nat \X Items
  /\ \A s \in Surfaces : s >= surface => collected[s] = <<>> /\ status[s] = "pending"

(* An honest surface reported complete was read to its end:                *)
(* every page, once, in order, also when a page is empty and also when the *)
(* list is longer than the page cap (_collect_pages).                      *)
CompleteMeansAll ==
  \A s \in Surfaces \ server.lies :
    status[s] = "complete" => collected[s] = server.book[s]

(* A finished report that is not marked incomplete has a finding for every *)
(* item the rules flag, on the tools and on every other surface the server *)
(* announced and did not lie about, whatever requests failed on the way    *)
(* (_collect_pages, _collect_all).                                         *)
Expected(s) == SurfaceSupported(s) /\ (s = Tools \/ SurfaceAdvertised(s))

NothingMissedSilently ==
  ~incomplete /\ pc \in {"probing", "done"} =>
    \A s \in Surfaces \ server.lies : Expected(s) =>
      \A n \in DOMAIN server.book[s], x \in Items :
        x \in server.book[s][n] /\ Kind[x] = "flagged" => <<s, x>> \in findings

(* The fallback to v1 happens before anything is read: a report never      *)
(* mixes what two sessions returned (_run_http).                           *)
OneSession == [][session # NONE => session' = session]_vars

(* A scan ends, even when the server sends cursors without end, as long as *)
(* it answers or the connection fails (_collect_pages, probe_tool).        *)
Ends == <>(pc \in {"done", "raised"})

(* docs/protocol-profiles.md:16 "a partial enumeration is never silently   *)
(* represented as a clean scan".                                           *)
PartialIsNeverSilent ==
  pc = "done" /\ ~incomplete => \A s \in Surfaces : status[s] # "partial"
=============================================================================
