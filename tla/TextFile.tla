------------------------------ MODULE TextFile ------------------------------
(***************************************************************************)
(* Path.write_text as the caches of MCPRadar use it: several processes,    *)
(* no lock, no temporary file. Opening the file empties it, the text       *)
(* follows, and a process may die in between. When two processes have the  *)
(* file open, the shorter text may end up over the longer one.             *)
(***************************************************************************)
CONSTANTS
  Procs,
  TORN       \* content that is no JSON: empty, cut off, or two texts mixed

VARIABLES
  file,      \* the content
  writing,   \* processes that emptied the file and have not written yet
  mixed      \* those of them that share the file with another one

Open(p) ==
  /\ p \notin writing
  /\ file' = TORN
  /\ writing' = writing \cup {p}
  /\ mixed' = IF writing = {} THEN {} ELSE writing \cup {p}

Write(p, text) ==
  /\ p \in writing
  /\ file' \in IF p \in mixed THEN {text, TORN} ELSE {text}
  /\ writing' = writing \ {p}
  /\ mixed' = mixed \ {p}

(* Killed, or the write fails: what is in the file stays.                  *)
Leave(p) ==
  /\ writing' = writing \ {p}
  /\ mixed' = mixed \ {p}
  /\ UNCHANGED file
=============================================================================
