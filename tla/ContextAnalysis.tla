-------------------------- MODULE ContextAnalysis --------------------------
(***************************************************************************)
(* `mcpradar analyze-context --deep` (cli.py) and analyzer/context.py: the *)
(* configured servers are scanned one after the other, those that cannot   *)
(* be scanned are left out, and the tools of the others are analysed       *)
(* together: by name, by what their text says, and as a graph in which the *)
(* output of one may feed the input of another.                            *)
(*                                                                         *)
(* What the patterns and keywords of the module find in the text of a tool *)
(* is a set of traits; types are those its schemas mention. A report is a  *)
(* sequence of tools, each name once; its server is its place in the       *)
(* configuration.                                                          *)
(***************************************************************************)
EXTENDS Integers, Sequences, FiniteSets, Functions

CONSTANTS
  Servers,     \* how many are configured
  Reports,     \* what a scan may return: sequences of tools
  Lower,       \* Lower[name] is name.lower()
  Similar      \* pairs of names with 0.75 <= ratio < 1.0

Capabilities == {"file_read", "file_write", "web_fetch", "shell_exec", "database"}
Traits == Capabilities \cup
  {"reads_data", "sends", "writes", "reads", "takes_input", "executes",
   "shell_word", "read_name"}

ContextAssumption ==
  /\ Servers \in Nat
  /\ \A r \in Reports : \A i \in DOMAIN r :
       /\ r[i].traits \subseteq Traits
       /\ r[i].name \in DOMAIN Lower
       /\ \A j \in DOMAIN r \ {i} : r[i].name # r[j].name

VARIABLES
  tried,       \* servers that were scanned, or were tried to be
  scans        \* scans: pairs of a server and its report
vars == <<tried, scans>>

-----------------------------------------------------------------------------
(* What is analysed: the tools of all scans, with their servers; they come *)
(* in the order of the servers, and of the tools of a server.              *)
NodesOf(s) ==
  {[server |-> s[1], place |-> i, tool |-> s[2][i]] : i \in DOMAIN s[2]}
Nodes(ss) == UNION {NodesOf(ss[i]) : i \in DOMAIN ss}

Before(a, b) == a.server < b.server \/ (a.server = b.server /\ a.place < b.place)

Has(node, trait) == trait \in node.tool.traits
Key(node) == <<node.server, node.tool.name>>
ServersWith(ss, trait) == {n.server : n \in {m \in Nodes(ss) : Has(m, trait)}}

Finding(rule, severity, about) ==
  [rule |-> rule, severity |-> severity, about |-> about]

(* C001, once for every name that comes twice, be it in one server.        *)
NameCollisions(ss) ==
  LET lower(n) == Lower[n.tool.name]
  IN {Finding("C001", "critical", lower(n)) : n \in
        {n \in Nodes(ss) : \E m \in Nodes(ss) \ {n} : lower(n) = lower(m)}}

(* C002                                                                    *)
Shadowing(ss) ==
  LET alike(a, b) == /\ Before(a, b) /\ a.server # b.server
                     /\ <<a.tool.name, b.tool.name>> \in Similar
  IN {Finding("C002", "high", <<Key(ab[1]), Key(ab[2])>>) : ab \in
        {p \in Nodes(ss) \X Nodes(ss) : alike(p[1], p[2])}}

(* C003                                                                    *)
Exfiltration(ss) ==
  {Finding("C003", "critical", rs) : rs \in
    {p \in ServersWith(ss, "reads_data") \X ServersWith(ss, "sends") : p[1] # p[2]}}

(* Faulty variant: the capability of exactly three servers.                *)
CapabilityOverlapThree(ss) ==
  {Finding("C004", "medium", c) : c \in
    {cap \in Capabilities : Cardinality(ServersWith(ss, cap)) = 3}}

(* C004                                                                    *)
CapabilityOverlap(ss) ==
  {Finding("C004", "medium", c) : c \in
    {cap \in Capabilities : Cardinality(ServersWith(ss, cap)) >= 3}}

(* C005: a server that writes counts as writing only.                      *)
PermissionGradient(ss) ==
  LET write == ServersWith(ss, "writes")
      readOnly == ServersWith(ss, "reads") \ write
  IN IF write # {} /\ readOnly # {} THEN {Finding("C005", "medium", "mix")} ELSE {}

-----------------------------------------------------------------------------
(* The edges of the attack graph. Every two tools are looked at once, from *)
(* the earlier one; if it has no output types nothing is looked at.        *)
Feeds(a, b) == a.tool.out \cap b.tool.in # {}
LookedAt(a, b) == Before(a, b) /\ a.server # b.server /\ a.tool.out # {}

Edges(ss) ==
  {e \in Nodes(ss) \X Nodes(ss) :
     /\ LookedAt(e[1], e[2]) \/ LookedAt(e[2], e[1])
     /\ Feeds(e[1], e[2])}

(* Simple paths, one tool longer.                                          *)
Successors(edges, n) == {e[2] : e \in {f \in edges : f[1] = n}}
Onward(edges, path) == Successors(edges, path[Len(path)]) \ Range(path)
Prolonged(edges, paths) ==
  UNION {{Append(path, n) : n \in Onward(edges, path)} : path \in paths}

(* The simple paths of one to five edges.                                  *)
Paths(ss) ==
  LET edges == Edges(ss)
      one == Prolonged(edges, {<<n>> : n \in Nodes(ss)})
      two == Prolonged(edges, one)
      three == Prolonged(edges, two)
      four == Prolonged(edges, three)
  IN one \cup two \cup three \cup four \cup Prolonged(edges, four)

(* C006: of the paths with the same names, the first one that the search   *)
(* finds counts; its ends decide what it is. The search takes the tools in *)
(* their order, as the starts and as the neighbours of a tool.             *)
ToolNames(path) ==
  LET name(i) == path[i].tool.name
  IN [n \in {name(i) : i \in DOMAIN path} |->
        Cardinality({i \in DOMAIN path : name(i) = n})]

FoundBefore(p, q) ==
  \E i \in DOMAIN p : Before(p[i], q[i]) /\ \A j \in 1..(i - 1) : p[j] = q[j]

First(paths, names) ==
  LET same == {p \in paths : ToolNames(p) = names}
  IN CHOOSE p \in same : \A q \in same \ {p} : FoundBefore(p, q)

ChainSeverity(path) ==
  LET source == path[1]
      last == path[Len(path)]
  IN IF \/ Has(source, "reads_data") /\ Has(last, "sends")
        \/ Has(source, "takes_input") /\ Has(last, "executes") THEN "critical"
     ELSE IF Len(path) >= 3 THEN "high" ELSE "medium"

AttackPathChains(ss) ==
  LET paths == Paths(ss)
  IN {Finding("C006", ChainSeverity(First(paths, names)), names) :
        names \in {ToolNames(p) : p \in paths}}

Writes(node) == Has(node, "writes") \/ Has(node, "shell_word")
OnlyReads(node) == Has(node, "read_name") /\ ~Writes(node)

(* C007: a read-only tool reaches a writing one of another server by a     *)
(* breadth-first search of its own, over the simple paths of up to three   *)
(* tools from the first.                                                   *)
(* Faulty variant: the search stops one step early.                        *)
SearchedShort(edges, n) ==
  {<<n>>} \cup Prolonged(edges, {<<n>>})

Searched(edges, n) ==
  LET two == Prolonged(edges, {<<n>>})
  IN {<<n>>} \cup two \cup Prolonged(edges, two)

Escalations(ss) ==
  {Finding("C007", "critical", <<Key(rw[1]), Key(rw[2])>>) : rw \in
     {p \in Nodes(ss) \X Nodes(ss) :
        /\ OnlyReads(p[1]) /\ Writes(p[2]) /\ p[1].server # p[2].server
        /\ \E path \in Searched(Edges(ss), p[1]) : p[2] \in Onward(Edges(ss), path)}}

(* ContextAnalyzer.analyze with deep; fewer than two scans are an error.   *)
Analyze(ss) ==
  IF Len(ss) < 2 THEN {}
  ELSE NameCollisions(ss) \cup Shadowing(ss) \cup Exfiltration(ss)
       \cup CapabilityOverlap(ss) \cup PermissionGradient(ss)
       \cup AttackPathChains(ss) \cup Escalations(ss)

-----------------------------------------------------------------------------
Init == tried = 0 /\ scans = <<>>

Scan ==
  /\ tried < Servers
  /\ tried' = tried + 1
  /\ \E r \in Reports : scans' = Append(scans, <<tried + 1, r>>)

ScanFails ==
  /\ tried < Servers
  /\ tried' = tried + 1
  /\ UNCHANGED scans

Next == Scan \/ ScanFails
Spec == Init /\ [][Next]_vars

-----------------------------------------------------------------------------
(* Connecting one more server never makes a finding on the others go away: *)
(* not a collision, a chain or an overlap of capabilities that the first   *)
(* servers have among themselves (analyzer/context.py:64-602). Only how    *)
(* severe a chain is may change, by the path that comes to stand for it.   *)
Lasting(f) ==
  IF f.rule = "C006" THEN <<f.rule, f.about>> ELSE <<f.rule, f.about, f.severity>>
MoreServersMoreFindings ==
  {Lasting(f) : f \in Analyze(scans)} \subseteq {Lasting(f) : f \in Analyze(scans')}

(* Which tools can feed which, whatever the order they are looked at in.   *)
CanFeed(ss) ==
  {e \in Nodes(ss) \X Nodes(ss) : e[1].server # e[2].server /\ Feeds(e[1], e[2])}
Steps(edges, ns) == ns \cup {e[2] : e \in {f \in edges : f[1] \in ns}}

(* What the loop over the pairs passes over: the way back into an earlier  *)
(* tool that has no output types of its own.                               *)
Overlooked(e) == Before(e[2], e[1]) /\ e[2].tool.out = {}

(* C007 tells of a tool that only reads and one of another server that     *)
(* writes just when the first can feed the second, directly or over at     *)
(* most two tools in between, of any server and in any order; save where   *)
(* the last step is overlooked. A tool in between never is, for it has     *)
(* outputs (analyzer/context.py:315-357, 491-602).                         *)
EscalationsExact ==
  LET feeds == CanFeed(scans)
      before(r) == Steps(feeds, Steps(feeds, {r}))
      fed(r) == {e[2] : e \in {f \in feeds : f[1] \in before(r) /\ ~Overlooked(f)}}
  IN {f.about : f \in Escalations(scans)} =
       UNION {{<<Key(r), Key(w)>> : w \in {n \in fed(r) : Writes(n) /\ n.server # r.server}} :
              r \in {n \in Nodes(scans) : OnlyReads(n)}}

(* "Also check reverse direction" (analyzer/context.py:344): a tool that   *)
(* only reads and feeds one of another server that writes is told of, the  *)
(* later of the two or not.                                                *)
EveryEscalationTold ==
  \A e \in CanFeed(scans) :
    OnlyReads(e[1]) /\ Writes(e[2]) /\ Len(scans) >= 2 =>
      <<Key(e[1]), Key(e[2])>> \in {f.about : f \in Escalations(scans)}
=============================================================================
