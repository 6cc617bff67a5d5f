-------------------------------- MODULE Rules --------------------------------
(***************************************************************************)
(* scanner/rules.py: what the built-in rules find in one tool, while the   *)
(* server that offers it says more and more about it.                      *)
(*                                                                         *)
(* A text is a sequence of words. What a pattern matches is a word of its  *)
(* set below, one word for each case the code tells apart; the text of a   *)
(* schema is the names and values in it. A property of a schema has a      *)
(* name, a type (NONE if it says none), the bounds it sets, a default and  *)
(* other traits that rules look for.                                       *)
(***************************************************************************)
EXTENDS Integers, Sequences, FiniteSets, Functions

CONSTANTS
  Tools,        \* a tool as it is first seen
  Words,        \* words its description may grow by
  Properties,   \* properties its input schema may grow by
  MaxWords, MaxProperties,
  Window,       \* how many words count as preceding one (60 characters)
  NONE

(* What a server can say of a tool.                                        *)
IsText(s) == s \in Seq(Range(s))
IsSchema(s) ==
  /\ s = [open |-> s.open, required |-> s.required, endless |-> s.endless,
          props |-> s.props]
  /\ s.props \in Seq(Range(s.props))
IsTool(t) ==
  /\ t = [name |-> t.name, description |-> t.description,
          input |-> t.input, output |-> t.output]
  /\ IsText(t.name) /\ IsText(t.description)
  /\ IsSchema(t.input) /\ IsSchema(t.output)

RulesAssumption ==
  /\ {MaxWords, MaxProperties, Window} \subseteq Nat
  /\ NONE \notin Words
  /\ \A t \in Tools : IsTool(t)

VARIABLES
  tool,
  floor,        \* min_severity
  report        \* what the last scan found: findings, incomplete
vars == <<tool, floor, report>>

Severities == <<"low", "medium", "high", "critical">>
Rank(severity) == CHOOSE i \in DOMAIN Severities : Severities[i] = severity

Found(rule, severity, what, where) ==
  [rule |-> rule, severity |-> severity, what |-> what, where |-> where]

At(text, words) == {i \in DOMAIN text : text[i] \in words}

(* A property's name and its default, of which it may have none.           *)
SchemaText(schema) ==
  [i \in 1..(2 * Len(schema.props)) |->
     LET p == schema.props[(i + 1) \div 2]
     IN IF i % 2 = 1 THEN p.name ELSE p.default]
Props(schema) == Range(schema.props)
Says(t) == t.description \o SchemaText(t.input)

-----------------------------------------------------------------------------
(* R101: hidden characters, worst in a name.                               *)
ZERO_WIDTH_CHARS == {"zero"}
ZeroWidth(t) ==
  LET fields == [name |-> t.name, description |-> t.description,
                 input |-> SchemaText(t.input), output |-> SchemaText(t.output)]
  IN UNION {{Found("R101", IF f = "name" THEN "critical" ELSE "high", "zero", <<f, i>>) :
               i \in At(fields[f], ZERO_WIDTH_CHARS)} : f \in DOMAIN fields}

(* R102                                                                    *)
PROMPT_INJECTION_PATTERNS == [ignore |-> "critical", pretend |-> "high"]
PromptInjection(t) ==
  LET text == t.name \o Says(t)
  IN {Found("R102", PROMPT_INJECTION_PATTERNS[text[i]], text[i], <<"text", i>>) :
        i \in At(text, DOMAIN PROMPT_INJECTION_PATTERNS)}

(* R103: base64 is stripped of its padding before it is decoded, which     *)
(* fails for what was padded; hex counts only if it is readable.           *)
ENCODED == [blob |-> "high", padded |-> "medium", hex |-> "high"]
EncodedBlob(t) ==
  {Found("R103", ENCODED[t.description[i]], t.description[i], <<"description", i>>) :
     i \in At(t.description, DOMAIN ENCODED)}

(* R104                                                                    *)
HIDDEN == {"hidden"}
HiddenContent(t) ==
  LET text == Says(t)
  IN {Found("R104", "high", text[i], <<"text", i>>) : i \in At(text, HIDDEN)}

(* R105: the name is in one scope and the description in another, unless   *)
(* it tells of a bridge and repeats two words of the name.                 *)
BRIDGE_KEYWORDS == {"bridge"}
SCOPE_PAIRS == [network |-> <<{"file"}, {"fetch"}>>, exec |-> <<{"read"}, {"write"}>>]
IsBridge(t) ==
  /\ At(t.description, BRIDGE_KEYWORDS) # {}
  /\ Cardinality(Range(t.name) \cap Range(t.description)) >= 2
PermissionScope(t) ==
  IF IsBridge(t) THEN {}
  ELSE {Found("R105", "medium", s, <<"name", 0>>) :
          s \in {j \in DOMAIN SCOPE_PAIRS : /\ At(t.name, SCOPE_PAIRS[j][1]) # {}
                                            /\ At(t.description, SCOPE_PAIRS[j][2]) # {}}}

(* R106, with _collect_all_texts: each secret once, where it comes first.  *)
(* What has a known format is looked for before what is only improbable.   *)
SECRET_PATTERNS == {"key"}
HIGH_ENTROPY == {"blob", "padded", "token"}
SecretTexts(t) ==
  <<t.name, t.description, SchemaText(t.input), SchemaText(t.output)>>
  \o [i \in DOMAIN t.input.props |-> <<t.input.props[i].default>>]
SecretExposure(t) ==
  LET texts == SecretTexts(t)
      In(w) == {i \in DOMAIN texts : w \in Range(texts[i])}
      Secrets == {w \in SECRET_PATTERNS \cup HIGH_ENTROPY : In(w) # {}}
  IN {Found("R106", IF w \in SECRET_PATTERNS THEN "critical" ELSE "high", w,
            <<"text", CHOOSE i \in In(w) : \A j \in In(w) : i <= j>>) : w \in Secrets}

(* R107: examples and defaults, regular expressions and enumerations.      *)
SHELL_METACHAR == {"pipe"}
DANGEROUS_DEFAULT == {"drop"}
CommandInjection(t) ==
  (UNION {{Found("R107", "critical", w, <<p.name, 0>>) :
             w \in {p.default} \cap (SHELL_METACHAR \cup DANGEROUS_DEFAULT)}
          \cup {Found("R107", "high", x, <<p.name, 0>>) : x \in p.traits \cap {"broad", "command"}} :
            p \in Props(t.input)})
  \cup {Found("R107", "critical", "output", <<p.name, 0>>) :
          p \in {q \in Props(t.output) : q.default \in SHELL_METACHAR}}

(* R108: package managers are left out when setting up is documented.      *)
SUPPLY_CHAIN_PATTERNS == [pipe |-> "high", npx |-> "high", pip |-> "medium", gem |-> "low"]
SETUP_WORDS == {"setup"}

(* Faulty variant: documentation excuses every pattern.                    *)
IsInstallDocsAny(text, label) == At(text, SETUP_WORDS) # {}

IsInstallDocs(text, label) == label \in {"pip", "npx"} /\ At(text, SETUP_WORDS) # {}

SupplyChain(t) ==
  LET text == Says(t)
  IN {Found("R108", SUPPLY_CHAIN_PATTERNS[text[i]], text[i], <<"text", i>>) :
        i \in {j \in At(text, DOMAIN SUPPLY_CHAIN_PATTERNS) : ~IsInstallDocs(text, text[j])}}

(* R109: the input only, and of it the properties at the top.              *)
SchemaPoisoning(t) ==
  {Found("R109", "low", issue, <<"input", 0>>) :
     issue \in (IF t.input.open THEN {"open"} ELSE {})
               \cup (IF t.input.props # <<>> /\ ~t.input.required THEN {"optional"} ELSE {})}
  \cup {Found("R109", "medium", "untyped", <<p.name, 0>>) :
          p \in {q \in Props(t.input) : q.type = NONE}}
  \cup {Found("R109", "medium", "huge", <<p.name, 0>>) :
          p \in {q \in Props(t.input) : "huge" \in q.traits}}

(* R113: words of traversal, unless protective ones precede them that are  *)
(* not negated in turn; the first protective word decides.                 *)
TRAVERSAL_PATTERNS == {"dots"}
PROTECTIVE == {"prevents"}
NEGATOR == {"not"}
PATH_PARAM_NAMES == {"path"}
Excused(text, i) ==
  LET context == (IF i > Window THEN i - Window ELSE 1)..(i - 1)
      guards == {j \in context : text[j] \in PROTECTIVE}
      first == CHOOSE j \in guards : \A k \in guards : j <= k
  IN guards # {} /\ ~(first - 1 \in context /\ text[first - 1] \in NEGATOR)
PathTraversal(t) ==
  LET text == Says(t)
      Paths(schema) ==
        {p \in Props(schema) : p.name \in PATH_PARAM_NAMES /\ p.type = "string"}
      writes == At(t.name, {"write", "delete"}) # {}
  IN {Found("R113", "high", text[i], <<"text", i>>) :
        i \in {j \in At(text, TRAVERSAL_PATTERNS) : ~Excused(text, j)}}
     \cup {Found("R113", IF writes THEN "medium" ELSE "low", p.name, <<"input", 0>>) :
             p \in {q \in Paths(t.input) : ~({"pattern", "format"} \subseteq q.bounds)}}
     \cup {Found("R113", "low", p.name, <<"output", 0>>) :
             p \in {q \in Paths(t.output) : "pattern" \notin q.bounds}}

(* R114                                                                    *)
UnboundedInput(t) ==
  UNION {{Found("R114", "low", p.name, <<s[1], 0>>) :
            p \in {q \in Props(s[2]) : q.type = "string" /\ q.bounds = {}}} :
           s \in {<<"input", t.input>>, <<"output", t.output>>}}

(* R001                                                                    *)
DANGEROUS_NAMES == {<<"delete">>}
DangerousName(t) ==
  IF t.name \in DANGEROUS_NAMES THEN {Found("R001", "critical", t.name[Len(t.name)], <<"name", 0>>)} ELSE {}

-----------------------------------------------------------------------------
(* The rules that walk a schema fail on one that exceeds the walker's      *)
(* limits: R106, R113 and R114 on the input, R107, R113 and R114 on both.  *)
Raises(t) == t.input.endless \/ t.output.endless

(* R110, R111, R112: they need a fingerprint, a transport, a server.       *)
NothingInATool(t) == {}

(* RuleEngine.analyze                                                      *)
Analyze(t, low) ==
  {f \in ZeroWidth(t) \cup PromptInjection(t) \cup EncodedBlob(t) \cup HiddenContent(t)
         \cup PermissionScope(t) \cup SecretExposure(t) \cup CommandInjection(t)
         \cup SupplyChain(t) \cup SchemaPoisoning(t) \cup PathTraversal(t)
         \cup UnboundedInput(t) \cup DangerousName(t) \cup NothingInATool(t) :
     Rank(f.severity) >= Rank(low)}

(* The scanner drops the findings of a tool whose rules raise, marks the   *)
(* report incomplete, and counts the tool as clean all the same.           *)
Scan(t, low) ==
  IF Raises(t) THEN [findings |-> {}, incomplete |-> TRUE]
  ELSE [findings |-> Analyze(t, low), incomplete |-> FALSE]

-----------------------------------------------------------------------------
Init ==
  /\ tool \in Tools
  /\ floor \in Range(Severities)
  /\ report = Scan(tool, floor)

Become(t) == tool' = t /\ report' = Scan(t, floor) /\ UNCHANGED floor

Describe(w) ==
  /\ Len(tool.description) < MaxWords
  /\ Become([tool EXCEPT !.description = Append(@, w)])

AddProperty(p) ==
  /\ Len(tool.input.props) < MaxProperties
  /\ Become([tool EXCEPT !.input.props = Append(@, p)])

(* A schema grows past the limits of the walker.                           *)
Deepen(side) ==
  /\ ~tool[side].endless
  /\ Become([tool EXCEPT ![side].endless = TRUE])

Next ==
  \/ \E w \in Words : Describe(w)
  \/ \E p \in Properties : AddProperty(p)
  \/ \E side \in {"input", "output"} : Deepen(side)

Spec == Init /\ [][Next]_vars

-----------------------------------------------------------------------------
(* Whatever a server adds to a tool, a scan goes on reporting what it      *)
(* reported before, no less severe, or says that it is incomplete. Only    *)
(* three rules can be talked out of a finding, each by its own words:      *)
(* R105 by a bridge that repeats the name, R108 about installing by setup  *)
(* instructions, R113 by protective language (scanner/rules.py:68-1385).   *)
TalkedOut(f) ==
  \/ f.rule = "R105" /\ IsBridge(tool')
  \/ f.rule = "R108" /\ f.what \in {"pip", "npx"} /\ At(Says(tool'), SETUP_WORDS) # {}
  \/ f.rule = "R113" /\ f.what \in TRAVERSAL_PATTERNS
     /\ At(Says(tool'), PROTECTIVE) # {}

NothingHidden ==
  \/ report'.incomplete
  \/ \A f \in report.findings :
       \/ TalkedOut(f)
       \/ \E g \in report'.findings :
            g.rule = f.rule /\ g.what = f.what /\ Rank(g.severity) >= Rank(f.severity)
=============================================================================
