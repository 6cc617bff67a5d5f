------------------------------ MODULE ProbeArgs ------------------------------
(***************************************************************************)
(* The arguments a probed tool is called with: generated from its schema   *)
(* (probe/prober.py) and, with a sandbox validator, validated and, if that *)
(* fails, sanitized (probe/sandbox.py); and what its answer is found to    *)
(* hold.                                                                   *)
(*                                                                         *)
(* A value is a tree, from the paths in it to what is there: a string that *)
(* is "fine", "long" or "forbidden", a "dict" or "list", "atom" for        *)
(* numbers, booleans and null, "none" for Python's None. A step of a path  *)
(* is a key, the index of an item as a string.                             *)
(***************************************************************************)
EXTENDS Integers, Sequences

CONSTANTS
  Schemas,    \* functions from property names to: required, type, the default
              \* and the default of the items, NONE for none
  Answers,    \* sets of what an answer holds: url, script, secret, injection
  MaxArgsDepth,   \* max_args_depth
  NONE

Parent(p) == SubSeq(p, 1, Len(p) - 1)
Containers == {"dict", "list"}
IsPath(p) == p \in Seq({p[i] : i \in DOMAIN p})
IsTree(v) ==
  /\ \A p \in DOMAIN v : IsPath(p)
  /\ <<>> \in DOMAIN v
  /\ \A p \in DOMAIN v \ {<<>>} : Parent(p) \in DOMAIN v /\ v[Parent(p)] \in Containers

ProbeAssumption ==
  /\ MaxArgsDepth \in Nat
  /\ \A s \in Schemas : \A n \in DOMAIN s :
       \A v \in {s[n].default, s[n].items} \ {NONE} : IsTree(v)

VARIABLES
  pc,
  schema,
  sandboxed,  \* whether there is a sandbox validator
  args,
  checked,    \* "unchecked", "valid", "sanitized"
  result
vars == <<pc, schema, sandboxed, args, checked, result>>

Leaf(x) == [p \in {<<>>} |-> x]
Nested(kind, at) ==
  [p \in {<<>>} \cup UNION {{<<k>> \o q : q \in DOMAIN at[k]} : k \in DOMAIN at} |->
     IF p = <<>> THEN kind ELSE at[Head(p)][Tail(p)]]
NoArgs == Leaf("dict")

-----------------------------------------------------------------------------
(* ReadOnlyProber.generate_minimal_args: required properties only, their   *)
(* default before anything made up.                                        *)
MinimalValue(p) ==
  IF p.default # NONE THEN p.default
  ELSE CASE p.type \in {"number", "boolean"} -> Leaf("atom")
         [] p.type = "array" /\ p.items = NONE -> Leaf("list")
         [] p.type = "array" /\ p.items # NONE -> Nested("list", [i \in {"0"} |-> p.items])
         [] p.type = "object" -> Leaf("dict")
         [] OTHER -> Leaf("fine")

MinimalArgs(s) ==
  Nested("dict", [n \in {m \in DOMAIN s : s[m].required} |-> MinimalValue(s[n])])

(* SandboxValidator.validate_args and _validate_value: the depth counts    *)
(* the dicts and lists around a value, and only dicts are held to it.      *)
ValidArgs(a) ==
  \A p \in DOMAIN a : a[p] \notin {"long", "forbidden"} /\ (a[p] = "dict" => Len(p) <= MaxArgsDepth)

(* Faulty variant: the items of a list do not count as deeper.             *)
DepthInDicts(v, p) ==
  Len(SelectSeq([i \in DOMAIN p |-> v[SubSeq(p, 1, i - 1)]], LAMBDA kind : kind = "dict"))

Depth(v, p) == Len(p)

(* SandboxValidator._sanitize_value. What is too deep becomes None; in a   *)
(* dict, None for a dict or a list leaves the key out, and None for        *)
(* anything else keeps the value as it was.                                *)
Sanitize(v) ==
  LET within(p) == Depth(v, p) <= MaxArgsDepth
      atLimit(p) == ~within(p) /\ within(Parent(p))
      kept == {p \in DOMAIN v :
                 \/ within(p)
                 \/ atLimit(p) /\ (v[Parent(p)] = "dict" => v[p] \notin Containers)}
  IN [p \in kept |->
        IF within(p) THEN IF v[p] \in {"long", "forbidden"} THEN "fine" ELSE v[p]
        ELSE IF v[Parent(p)] = "list" THEN "none" ELSE v[p]]

-----------------------------------------------------------------------------
Init ==
  /\ pc = "generate"
  /\ schema \in Schemas
  /\ sandboxed \in BOOLEAN
  /\ args = NoArgs
  /\ checked = "unchecked"
  /\ result = {}

Generate ==
  /\ pc = "generate"
  /\ args' = MinimalArgs(schema)
  /\ pc' = IF sandboxed /\ args' # NoArgs THEN "check" ELSE "call"
  /\ UNCHANGED <<schema, sandboxed, checked, result>>

(* The sanitized arguments are not validated again.                        *)
Check ==
  /\ pc = "check"
  /\ IF ValidArgs(args) THEN checked' = "valid" /\ UNCHANGED args
     ELSE checked' = "sanitized" /\ args' = Sanitize(args)
  /\ pc' = "call"
  /\ UNCHANGED <<schema, sandboxed, result>>

(* _scan_dynamic_patterns, _scan_secrets, _scan_prompt_injection: the      *)
(* findings are the rules' ids, injection before secrets. A call that      *)
(* fails or takes too long found nothing.                                  *)
Call ==
  /\ pc = "call"
  /\ \/ \E answer \in Answers :
          result' = {"success"} \cup (answer \cap {"url", "script", "secret", "injection"})
                    \cup (IF "secret" \in answer THEN {"R106"} ELSE {})
                    \cup (IF "injection" \in answer THEN {"R102"} ELSE {})
     \/ result' = {"error"}
  /\ pc' = "done"
  /\ UNCHANGED <<schema, sandboxed, args, checked>>

Next == Generate \/ Check \/ Call
Spec == Init /\ [][Next]_vars

-----------------------------------------------------------------------------
(* With a sandbox no tool is called with a dict deeper than the policy     *)
(* allows, nor with a long or forbidden string: save one place. A string   *)
(* right in a dict at the limit is sent as it was, forbidden or not, for   *)
(* None from below keeps it there (probe/sandbox.py:153-160), against      *)
(* "Forbidden values are replaced" (:127). In arguments that were          *)
(* sanitized no list is deeper than the limit either                       *)
(* (probe/prober.py:211-217, probe/sandbox.py:71-168).                     *)
KeptAsItWas(p) ==
  checked = "sanitized" /\ Len(p) = MaxArgsDepth + 1 /\ args[Parent(p)] = "dict"

SentIsSafe ==
  sandboxed /\ pc \in {"call", "done"} =>
    \A p \in DOMAIN args :
      /\ args[p] \in {"long", "forbidden"} => KeptAsItWas(p)
      /\ args[p] = "dict" => Len(p) <= MaxArgsDepth
      /\ args[p] = "list" /\ checked = "sanitized" => Len(p) <= MaxArgsDepth
=============================================================================
