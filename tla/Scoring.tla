------------------------------ MODULE Scoring ------------------------------
(***************************************************************************)
(* scoring/engine.py and scoring/capability.py: the MCPRadar Risk Score of *)
(* a server from its findings and from what its tools can do. Scores are   *)
(* counted in tenths and the contributions of capabilities in halves, so   *)
(* that all arithmetic is exact; round() takes the nearest tenth, of two   *)
(* equally near ones the even one. (In floating point such a tie may fall  *)
(* either way.)                                                            *)
(*                                                                         *)
(* A finding is a record with its rule and severity. A tool is what its    *)
(* patterns find in its text: a set of capability classes.                 *)
(***************************************************************************)
EXTENDS Integers, FiniteSets, FiniteSetsExt

Severities == {"low", "medium", "high", "critical"}
Rank == [low |-> 0, medium |-> 1, high |-> 2, critical |-> 3]
AtLeast(s, t) == Rank[s] >= Rank[t]

(* CAPABILITY_WEIGHTS in halves, all different.                            *)
Weight ==
  [code_exec |-> 16, browser_control |-> 12, db_write |-> 10, fs_write |-> 8,
   secret_access |-> 6, net_egress |-> 4, fs_read |-> 2, pure_compute |-> 0]
Classes == DOMAIN Weight

Least(a, b) == IF a <= b THEN a ELSE b
Greatest(a, b) == IF a >= b THEN a ELSE b

(* a / b for b > 0, rounded half to even.                                  *)
Round(a, b) ==
  LET q == a \div b
      r == 2 * (a % b)
  IN IF r < b \/ (r = b /\ q % 2 = 0) THEN q ELSE q + 1

-----------------------------------------------------------------------------
(* tag_tool: writing covers reading, and no class at all is pure_compute.  *)
TagTool(matched) ==
  LET classes == IF "fs_write" \in matched THEN matched \ {"fs_read"} ELSE matched
  IN IF classes = {} THEN {"pure_compute"} ELSE classes

(* compute_aars, in halves: the widest class, and one half for every other *)
(* class that weighs 2.0 or more.                                          *)
Aars(tools) ==
  LET present == UNION {TagTool(t) : t \in tools}
      top == Max({Weight[c] : c \in present} \cup {0})
      others == {c \in present : Weight[c] >= 4 /\ Weight[c] < top}
  IN Least(20, top + Cardinality(others))

WithSeverity(findings, s) == {f \in findings : f.severity = s}
CountWith(findings, s) == Cardinality(WithSeverity(findings, s))

(* compute_mrs, in tenths: weighted / tools * density, the density within  *)
(* [0.5, 2.0] and counted in tenths too.                                   *)
Mrs(findings, toolCount) ==
  LET n == Greatest(toolCount, 1)
      weighted == CountWith(findings, "critical") * 10 + CountWith(findings, "high") * 7
                  + CountWith(findings, "medium") * 4 + CountWith(findings, "low")
      found == Cardinality(findings)
      density == Greatest(n, Least(4 * n, found * 10))  \* times 2 * n
  IN IF findings = {} THEN 0 ELSE Least(100, Round(weighted * density * 10, 2 * n * n))

(* Faulty variant: no floor under a critical or a high finding.            *)
BaseNoFloor(findings, n) ==
  8 * (CountWith(findings, "critical") * 10 + CountWith(findings, "high") * 7
       + CountWith(findings, "medium") * 4)

(* The finding load over n tools, times 8 * n.                             *)
Base(findings, n) ==
  LET load == 8 * (CountWith(findings, "critical") * 10 + CountWith(findings, "high") * 7
                   + CountWith(findings, "medium") * 4)
  IN CASE CountWith(findings, "critical") > 0 -> Greatest(load, 8 * n * 5)
       [] CountWith(findings, "critical") = 0 /\ CountWith(findings, "high") > 0 ->
            Greatest(load, 8 * n * 3)
       [] OTHER -> load

(* compute_mrs_capability, in tenths: the greater of the base and of its   *)
(* mean with the capabilities, times 1.15 when R111 was found.             *)
MrsCapability(findings, tools, toolCount) ==
  LET n == Greatest(toolCount, 3)
      base == Base(findings, n)
      sum == base + 4 * n * Aars(tools)
      thm == IF \E f \in findings : f.rule = "R111" THEN 23 ELSE 20
  IN Least(100, Round(Greatest(40 * base, sum * thm), 32 * n))

(* compute_grade of a score in tenths.                                     *)
Grade(score) ==
  CASE score <= 9 -> "A"
    [] score \in 10..29 -> "B"
    [] score \in 30..49 -> "C"
    [] score \in 50..69 -> "D"
    [] score >= 70 -> "F"
=============================================================================
