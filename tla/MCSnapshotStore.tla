--------------------------- MODULE MCSnapshotStore ---------------------------
(* A small instance of SnapshotStore for TLC.                              *)
EXTENDS SnapshotStore, TLC

CONSTANTS p1, p2, i1, i2, i3, t1, t2, row

(* One content that fills every child table.                               *)
Full == [k \in Tables |-> {row}]
MCContents == {Full}

(* Processes, servers and the ids other than the low one are exchangeable. *)
Symmetry ==
  Permutations(Procs) \cup Permutations(Targets) \cup Permutations(Ids \ LowIds)
=============================================================================
