------------------------------- MODULE Differ -------------------------------
(***************************************************************************)
(* diff/differ.py: what changed between two reports of one server, and how *)
(* severe it is. The watcher alerts, and `mcpradar diff` reports, only     *)
(* what Differ.compare puts into its delta.                                *)
(*                                                                         *)
(* A text is its identity and whether the injection or hidden-content rule *)
(* finds something in it. A schema is the values of its properties (NONE   *)
(* for those it lacks), its other keywords, its presentation-only ones,    *)
(* and whether walking it exceeds the limits of schema/walker.py. Prompts, *)
(* resources and templates map their identities to a description and the   *)
(* rest of them, surfaces to a state and the rest of their status; what a  *)
(* report lacks is NONE. A finding has a key and the rest of it.           *)
(***************************************************************************)
EXTENDS Integers, Sequences, FiniteSets, Functions

CONSTANTS
  Histories,   \* reports a server may give, one after the other
  Sensitive,   \* SECURITY_SENSITIVE_KEYS
  NONE

IsFunction(f) == f = [x \in DOMAIN f |-> f[x]]
Kinds == {"prompt", "resource", "resource_template"}

(* What a report is. Two reports name the same surfaces, items, features   *)
(* and properties: what one of them lacks is NONE in it.                   *)
DifferAssumption ==
  \A r, s \in Histories :
    /\ r.tools \in Seq(Range(r.tools))
    /\ \A t \in Range(r.tools) :
         t = [name |-> t.name, description |-> t.description,
              input |-> t.input, output |-> t.output]
    /\ \A t \in Range(r.tools), u \in Range(s.tools) :
         /\ DOMAIN t.input.props = DOMAIN u.input.props
         /\ DOMAIN t.output.props = DOMAIN u.output.props
    /\ r.incomplete \in BOOLEAN
    /\ \A f \in r.findings : f = [key |-> f.key, rest |-> f.rest]
    /\ IsFunction(r.status) /\ IsFiniteSet(DOMAIN r.status) /\ DOMAIN r.status = DOMAIN s.status
    /\ IsFunction(r.fingerprint) /\ DOMAIN r.fingerprint = DOMAIN s.fingerprint
    /\ IsFunction(r.items) /\ DOMAIN r.items = Kinds
    /\ \A k \in Kinds : /\ IsFunction(r.items[k]) /\ IsFiniteSet(DOMAIN r.items[k])
                        /\ DOMAIN r.items[k] = DOMAIN s.items[k]

VARIABLES
  old, new     \* report_a, report_b
vars == <<old, new>>

Severities == <<"cosmetic", "behavioral", "security">>
Rank(s) == CHOOSE i \in DOMAIN Severities : Severities[i] = s
Worst(set) ==
  IF set = {} THEN "cosmetic" ELSE CHOOSE s \in set : \A t \in set : Rank(s) >= Rank(t)

Change(field, severity) == [field |-> field, severity |-> severity]

-----------------------------------------------------------------------------
(* _classify_description_change looks at the new text only.                *)
TextChange(text) == IF text.poisoned THEN "security" ELSE "cosmetic"

(* _classify_schema_diff, with _semantic_schema.                           *)
Semantic(schema) == <<schema.props, schema.rest>>

SchemaChange(a, b) ==
  IF a.endless \/ b.endless THEN "security"
  ELSE LET changed == {p \in DOMAIN a.props : a.props[p] # b.props[p]}
       IN IF changed \cap Sensitive # {} THEN "security"
          ELSE IF Semantic(a) # Semantic(b) THEN "behavioral" ELSE "cosmetic"

(* {t.name: t for t in report.tools}: the last of a name counts.           *)
ToolNames(report) == {report.tools[i].name : i \in DOMAIN report.tools}
Tool(report, name) ==
  report.tools[CHOOSE i \in DOMAIN report.tools :
    /\ report.tools[i].name = name
    /\ \A j \in DOMAIN report.tools : report.tools[j].name = name => j <= i]

ToolChanges(a, b) ==
  (IF a.description # b.description
   THEN {Change("description", TextChange(b.description))} ELSE {})
  \cup (IF a.input # b.input THEN {Change("input_schema", SchemaChange(a.input, b.input))} ELSE {})
  \cup (IF a.output # b.output THEN {Change("output_schema", SchemaChange(a.output, b.output))} ELSE {})

(* The tool_diffs by name: one is in the delta when it has changes.        *)
ToolDiffs(a, b) ==
  [added |-> ToolNames(b) \ ToolNames(a),
   removed |-> ToolNames(a) \ ToolNames(b),
   changed |-> UNION {{n} \X ToolChanges(Tool(a, n), Tool(b, n)) :
                        n \in ToolNames(a) \cap ToolNames(b)}]

Present(items) == {i \in DOMAIN items : items[i] # NONE}

(* _compare_descriptions: of the items both reports have, the descriptions.*)
DescriptionChanges(surface, a, b) ==
  {Change(<<surface, i>>, TextChange(b[i].description)) :
     i \in {j \in Present(a) \cap Present(b) : a[j].description # b[j].description}}

InstructionChanges(a, b) ==
  IF a.instructions = b.instructions THEN {}
  ELSE {Change(<<"server_instructions", "">>, TextChange(b.instructions))}

(* _compare_surface_status: a surface that was complete and is no more, or *)
(* a scan that became incomplete.                                          *)
Complete(status) == status # NONE /\ status.state = "complete"
Degraded(a, b) == Complete(a) /\ ~Complete(b)

StatusChanges(a, b) ==
  {Change(<<"surface_status", s>>,
          IF Degraded(a.status[s], b.status[s]) THEN "security" ELSE "behavioral") :
     s \in {t \in DOMAIN a.status : a.status[t] # b.status[t]}}
  \cup (IF a.incomplete = b.incomplete THEN {}
        ELSE {Change(<<"scan", "incomplete">>, IF b.incomplete THEN "security" ELSE "behavioral")})

(* Faulty variant: templates are left out.                                 *)
SurfaceChangesNoTemplates(a, b) ==
  (UNION {DescriptionChanges(k, a.items[k], b.items[k]) : k \in {"prompt", "resource"}})
  \cup InstructionChanges(a, b) \cup StatusChanges(a, b)

SurfaceChanges(a, b) ==
  (UNION {DescriptionChanges(k, a.items[k], b.items[k]) : k \in Kinds})
  \cup InstructionChanges(a, b) \cup StatusChanges(a, b)

FingerprintChanges(a, b) ==
  {f \in DOMAIN a.fingerprint : a.fingerprint[f] # b.fingerprint[f]}
  \cup (IF Len(a.tools) # Len(b.tools) THEN {"tool_count"} ELSE {})

(* Findings are compared by their rule and target.                         *)
Keys(report) == {f.key : f \in report.findings}

(* Differ.compare                                                          *)
Compare(a, b) ==
  [tools |-> ToolDiffs(a, b),
   newFindings |-> Keys(b) \ Keys(a),
   resolvedFindings |-> Keys(a) \ Keys(b),
   itemsAdded |-> [k \in Kinds |-> Present(b.items[k]) \ Present(a.items[k])],
   itemsRemoved |-> [k \in Kinds |-> Present(a.items[k]) \ Present(b.items[k])],
   surfaces |-> SurfaceChanges(a, b),
   fingerprint |-> FingerprintChanges(a, b)]

(* DiffDelta.has_changes                                                   *)
HasChanges(delta) ==
  \/ delta.tools.added # {} \/ delta.tools.removed # {} \/ delta.tools.changed # {}
  \/ delta.newFindings # {} \/ delta.resolvedFindings # {}
  \/ \E k \in Kinds : delta.itemsAdded[k] # {} \/ delta.itemsRemoved[k] # {}
  \/ delta.surfaces # {}
  \/ delta.fingerprint # {}

(* DiffDelta.summary_counts, with ToolDiff.max_severity.                   *)
ToolSeverity(delta, name) ==
  Worst({nc[2].severity : nc \in {x \in delta.tools.changed : x[1] = name}})

CountOf(delta, severity) ==
  Cardinality({n \in {x[1] : x \in delta.tools.changed} : ToolSeverity(delta, n) = severity})
  + Cardinality({c \in delta.surfaces : c.severity = severity})

-----------------------------------------------------------------------------
(* The server is scanned again: the last report becomes the old one.       *)
Init == old \in Histories /\ new = old
Advance == old' = new /\ new' \in Histories
Next == Advance
Spec == Init /\ [][Next]_vars

-----------------------------------------------------------------------------
(* What the differ looks at. It does not look at a prompt's arguments, the *)
(* name or MIME type of a resource or template (report.py:66-87), a        *)
(* finding's severity and texts, and a tool that a later one of its name   *)
(* hides, save in the number of tools.                                     *)
View(r) ==
  [tools |-> [n \in ToolNames(r) |-> Tool(r, n)], count |-> Len(r.tools),
   findings |-> Keys(r), instructions |-> r.instructions,
   items |-> [k \in Kinds |-> [i \in Present(r.items[k]) |-> r.items[k][i].description]],
   status |-> r.status, incomplete |-> r.incomplete, fingerprint |-> r.fingerprint]

(* A later report is worse to trust when a text changed into a poisoned    *)
(* one, a schema changed in a sensitive property or is beyond the walker's *)
(* limits, or less was seen of the server. Tools and items that are new    *)
(* are among those added, whatever their texts say.                        *)
TextWorse(s, t) == s # t /\ t.poisoned
SchemaWorse(s, t) ==
  /\ s # t
  /\ \/ s.endless \/ t.endless
     \/ \E p \in Sensitive \cap DOMAIN s.props : s.props[p] # t.props[p]
ToolWorse(s, t) ==
  \/ TextWorse(s.description, t.description)
  \/ SchemaWorse(s.input, t.input) \/ SchemaWorse(s.output, t.output)
ItemsWorse(a, b) ==
  \E i \in Present(a) \cap Present(b) : TextWorse(a[i].description, b[i].description)

Worsened(a, b) ==
  \/ \E n \in ToolNames(a) \cap ToolNames(b) : ToolWorse(Tool(a, n), Tool(b, n))
  \/ \E k \in Kinds : ItemsWorse(a.items[k], b.items[k])
  \/ TextWorse(a.instructions, b.instructions)
  \/ \E s \in DOMAIN a.status : Degraded(a.status[s], b.status[s])
  \/ b.incomplete /\ ~a.incomplete

(* Nothing of the two reports is absent from one between them.             *)
Spans(a, b, c) ==
  /\ ToolNames(a) \cap ToolNames(c) \subseteq ToolNames(b)
  /\ \A k \in Kinds :
       Present(a.items[k]) \cap Present(c.items[k]) \subseteq Present(b.items[k])

Severe(a, b) == CountOf(Compare(a, b), "security") > 0

(* There are changes just if what is looked at differs, the other way      *)
(* round they are the reverse, and some count as security just if the      *)
(* later report is worse to trust, whatever else of the same tool changed  *)
(* (diff/differ.py:87-99, :276-441). A server that changes step by step    *)
(* does not escape the watcher, which only compares a report with the one  *)
(* before it (watch/watcher.py:59): what counts as security from an        *)
(* earlier report to the new one does so in one of the steps, unless what  *)
(* changed was missing in between, and is then among the added.            *)
ChangesExact ==
  LET there == Compare(old, new)
      back == Compare(new, old)
  IN /\ HasChanges(there) <=> View(old) # View(new)
     /\ there.tools.added = back.tools.removed /\ there.newFindings = back.resolvedFindings
     /\ there.itemsAdded = back.itemsRemoved
     /\ Severe(old, new) <=> Worsened(old, new)
     /\ \A first \in Histories :
          Severe(first, new) /\ Spans(first, old, new) => Severe(first, old) \/ Severe(old, new)
=============================================================================
