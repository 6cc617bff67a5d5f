---------------------------- MODULE SnapshotTable ----------------------------
(***************************************************************************)
(* What the snapshot history of MCPRadar promises, with no database in it: *)
(* a scan produces a report once, the report is stored as a whole in one   *)
(* step or not at all, and a purge removes a set of snapshots in one step. *)
(* SnapshotStore refines this module; Watch builds on it.                  *)
(***************************************************************************)
CONSTANTS
  Procs,     \* the operating-system processes that run mcpradar commands
  Ids,       \* snapshot identifiers: 12 hex digits of a uuid4, whose
             \* collisions are left out
  Reports,   \* the reports a scan can produce
  NONE

VARIABLES
  produced,  \* produced[i]: the report whose id is i, NONE if not drawn yet
  unsaved,   \* unsaved[p]: id of the report process p holds and has not saved
  snapshot   \* snapshot[i]: the stored content of snapshot i, or NONE

vars == <<produced, unsaved, snapshot>>

TypeOK ==
  /\ produced \in [Ids -> Reports \cup {NONE}]
  /\ unsaved \in [Procs -> Ids \cup {NONE}]
  /\ snapshot \in [Ids -> Reports \cup {NONE}]

Init ==
  /\ produced = [i \in Ids |-> NONE]
  /\ unsaved = [p \in Procs |-> NONE]
  /\ snapshot = [i \in Ids |-> NONE]

Produce(p, i) ==
  /\ unsaved[p] = NONE
  /\ produced[i] = NONE
  /\ produced'[i] \in Reports
  /\ produced' = [produced EXCEPT ![i] = produced'[i]]
  /\ unsaved' = [unsaved EXCEPT ![p] = i]
  /\ UNCHANGED snapshot

(* The whole report becomes visible at once.                               *)
Put(p) ==
  /\ unsaved[p] # NONE
  /\ snapshot' = [snapshot EXCEPT ![unsaved[p]] = produced[unsaved[p]]]
  /\ unsaved' = [unsaved EXCEPT ![p] = NONE]
  /\ UNCHANGED produced

(* A failed save or a killed process loses its report and nothing else.    *)
Lose(p) ==
  /\ unsaved[p] # NONE
  /\ unsaved' = [unsaved EXCEPT ![p] = NONE]
  /\ UNCHANGED <<produced, snapshot>>

Remove(S) ==
  /\ snapshot' = [i \in Ids |-> IF i \in S THEN NONE ELSE snapshot[i]]
  /\ UNCHANGED <<produced, unsaved>>

Next ==
  \/ \E p \in Procs, i \in Ids : Produce(p, i)
  \/ \E p \in Procs : Put(p) \/ Lose(p)
  \/ \E S \in SUBSET Ids : Remove(S)

Spec == Init /\ [][Next]_vars
=============================================================================
