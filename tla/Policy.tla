------------------------------- MODULE Policy -------------------------------
(***************************************************************************)
(* policy/engine.py and `mcpradar policy check`: a gate that reads a YAML  *)
(* policy and a report, exported or stored, and exits with 0 (passed), 1   *)
(* (violated) or 2 (no decision). Days go by and suppressions expire; a    *)
(* later scan of the same server may find more.                            *)
(*                                                                         *)
(* A policy file is what the checks of load_policy can tell apart: whether *)
(* its fields are the allowed ones with allowed values, and the rest. A    *)
(* pattern of a suppression is "*" or one target.                          *)
(***************************************************************************)
EXTENDS Scoring

CONSTANTS
  Findings,     \* records: id, rule, severity, target
  Catalog,      \* RULE_CATALOG
  PolicyFiles,  \* records: wellFormed, failOn, deny, maxRisk, complete, suppressions
  Matched,      \* Matched[tool]: the capability classes its text matches
  Horizon       \* bound on the days

PolicyAssumption ==
  /\ Horizon \in Nat /\ IsFiniteSet(Findings) /\ IsFiniteSet(DOMAIN Matched)
  /\ \A f \in Findings : f.severity \in Severities
  /\ \A file \in PolicyFiles : \A s \in file.suppressions : s.expires \in Int
  /\ \A t \in DOMAIN Matched : Matched[t] \subseteq Classes

VARIABLES
  day,
  policy,       \* the policy file
  found,        \* the findings of the report
  tools,        \* its tools
  incomplete    \* whether its scan was incomplete

vars == <<day, policy, found, tools, incomplete>>

-----------------------------------------------------------------------------
(* load_policy, with _rule_ids and _suppressions: every field must be      *)
(* known and well formed, every rule in the catalog.                       *)
Loads(file) ==
  /\ file.wellFormed
  /\ file.deny \subseteq Catalog
  /\ file.maxRisk \in 0..100
  /\ \A s \in file.suppressions : s.rule \in Catalog /\ s.justified

(* Faulty variant: the comparison of the dates is turned round.            *)
MatchesLater(s, f, today) ==
  s.expires <= today /\ s.rule = f.rule /\ s.target \in {"*", f.target}

(* Suppression.matches                                                     *)
Matches(s, f, today) ==
  today <= s.expires /\ s.rule = f.rule /\ s.target \in {"*", f.target}

Suppressed(today) ==
  {f \in found : \E s \in policy.suppressions : Matches(s, f, today)}
Active(today) == found \ Suppressed(today)
Expired(today) == {s \in policy.suppressions : s.expires < today}
Score(today) ==
  MrsCapability(Active(today), {Matched[t] : t \in tools}, Cardinality(tools))

(* The violations of evaluate_policy by their codes, with what they are    *)
(* about.                                                                  *)
Violations(today) ==
  LET denied == {f \in Active(today) : f.rule \in policy.deny}
  IN [incomplete |-> policy.complete /\ incomplete,
      denied |-> denied,
      severe |-> {f \in Active(today) \ denied : AtLeast(f.severity, policy.failOn)},
      risk |-> Score(today) > policy.maxRisk,
      expired |-> Expired(today)]

Passed(today) ==
  LET v == Violations(today)
  IN ~v.incomplete /\ v.denied = {} /\ v.severe = {} /\ ~v.risk /\ v.expired = {}

ExitCode(today) ==
  IF ~Loads(policy) THEN 2 ELSE IF Passed(today) THEN 0 ELSE 1

-----------------------------------------------------------------------------
Init ==
  /\ day = 0
  /\ policy \in PolicyFiles
  /\ found \in SUBSET Findings
  /\ tools \in SUBSET DOMAIN Matched
  /\ incomplete \in BOOLEAN

Tomorrow ==
  /\ day < Horizon
  /\ day' = day + 1
  /\ UNCHANGED <<policy, found, tools, incomplete>>

(* A new report of the same tools with one more finding.                   *)
FindMore ==
  /\ \E f \in Findings \ found : found' = found \cup {f}
  /\ UNCHANGED <<day, policy, tools, incomplete>>

(* A new report that is incomplete.                                        *)
FallShort ==
  /\ incomplete' = TRUE
  /\ UNCHANGED <<day, policy, found, tools>>

Next == Tomorrow \/ FindMore \/ FallShort
Spec == Init /\ [][Next]_vars

-----------------------------------------------------------------------------
(* The gate only closes by itself: neither the passing of days, with its   *)
(* expiring suppressions, nor further findings nor an incomplete scan let  *)
(* a report pass that did not. Only an edit of the policy does.            *)
(* (policy/engine.py:134-194, "expired exceptions never suppress".)        *)
GateOnlyCloses == ExitCode(day) # 0 => ExitCode(day)' = ExitCode(day)

(* A score never hides a severe finding behind many harmless tools or a    *)
(* suppression of others: with an active critical finding the grade is D   *)
(* or F, with a high one at best C; and it is never below what the         *)
(* findings alone give (scoring/engine.py:87-139).                         *)
Has(s) == WithSeverity(Active(day), s) # {}
GradeReflectsWorst ==
  LET grade == Grade(Score(day))
      bare == MrsCapability(Active(day), {}, Cardinality(tools))
  IN /\ Has("critical") => grade \in {"D", "F"}
     /\ Has("high") => grade \in {"C", "D", "F"}
     /\ Score(day) >= bare
=============================================================================
