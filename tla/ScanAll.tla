------------------------------ MODULE ScanAll ------------------------------
(***************************************************************************)
(* `mcpradar scan-all` (cli.py) and ParallelScanner (scanner/engine.py).   *)
(* With --parallel the servers of mcpradar.toml are scanned all at once    *)
(* under a semaphore; then results and exceptions are gathered in the      *)
(* order of the servers, and one after the other is saved or told.         *)
(*                                                                         *)
(* Without it the command `scan` is called as a plain function, so that    *)
(* the options left out keep typer's OptionInfo for their value: as that   *)
(* is no protocol profile, each call raises typer.Exit before it scans.    *)
(***************************************************************************)
EXTENDS Integers, FiniteSets

CONSTANTS
  Count,        \* len(cfg.servers)
  Limits        \* values of --max-concurrency tried

ScanAllAssumption == Count \in Nat /\ Limits \subseteq Nat

VARIABLES
  parallel,     \* --parallel
  limit,        \* --max-concurrency
  state,        \* state[i]: "new", "waiting", "scanning", "report" or "error"
  next,         \* the server whose result is told next
  saved, told,  \* servers with a snapshot; servers with an error message
  ended         \* "no", "yes", or "raised": an exception ended the command

vars == <<parallel, limit, state, next, saved, told, ended>>

Configured == 1..Count
In(s) == {i \in Configured : state[i] = s}

Init ==
  /\ parallel \in BOOLEAN
  /\ limit \in Limits
  /\ state = [i \in Configured |-> "new"]
  /\ next = 1
  /\ saved = {} /\ told = {}
  /\ ended = "no"

(* asyncio.gather makes a task of every scan; a task first waits for the   *)
(* semaphore.                                                              *)
Create(i) ==
  /\ parallel
  /\ state[i] = "new"
  /\ state' = [state EXCEPT ![i] = "waiting"]
  /\ UNCHANGED <<parallel, limit, next, saved, told, ended>>

(* Faulty variant: the semaphore is not asked.                             *)
EnterUncapped(i) ==
  /\ state[i] = "waiting"
  /\ state' = [state EXCEPT ![i] = "scanning"]
  /\ UNCHANGED <<parallel, limit, next, saved, told, ended>>

Enter(i) ==
  /\ state[i] = "waiting"
  /\ Cardinality(In("scanning")) < limit
  /\ state' = [state EXCEPT ![i] = "scanning"]
  /\ UNCHANGED <<parallel, limit, next, saved, told, ended>>

(* Scanner.run returns or raises; `async with` gives the place back.       *)
Finish(i) ==
  /\ state[i] = "scanning"
  /\ \E s \in {"report", "error"} : state' = [state EXCEPT ![i] = s]
  /\ UNCHANGED <<parallel, limit, next, saved, told, ended>>

Gathered == parallel /\ In("report") \cup In("error") = Configured
Turn == ended = "no" /\ next \in Configured

(* Faulty variant: errors are left out before results meet their servers.  *)
TellShifted ==
  /\ Turn /\ Gathered
  /\ IF state[next] = "report"
     THEN saved' = saved \cup {Cardinality(saved) + 1} /\ UNCHANGED told
     ELSE told' = told \cup {next} /\ UNCHANGED saved
  /\ next' = next + 1
  /\ UNCHANGED <<parallel, limit, state, ended>>

Tell ==
  /\ Turn /\ Gathered
  /\ IF state[next] = "report"
     THEN saved' = saved \cup {next} /\ UNCHANGED told
     ELSE told' = told \cup {next} /\ UNCHANGED saved
  /\ next' = next + 1
  /\ UNCHANGED <<parallel, limit, state, ended>>

(* Opening the store, saving (database busy, disk full), or printing what  *)
(* was saved raises, and nothing catches it.                               *)
TellRaises ==
  /\ Turn /\ Gathered
  /\ ended' = "raised"
  /\ \/ UNCHANGED saved
     \/ state[next] = "report" /\ saved' = saved \cup {next}
  /\ UNCHANGED <<parallel, limit, state, next, told>>

(* In sequence: scan() refuses its protocol_profile, and the loop tells    *)
(* the exception.                                                          *)
Refuse ==
  /\ Turn /\ ~parallel
  /\ told' = told \cup {next}
  /\ next' = next + 1
  /\ UNCHANGED <<parallel, limit, state, saved, ended>>

Return ==
  /\ ended = "no" /\ next = Count + 1
  /\ ended' = "yes"
  /\ UNCHANGED <<parallel, limit, state, next, saved, told>>

Next ==
  \/ \E i \in Configured : Create(i) \/ Enter(i) \/ Finish(i)
  \/ Tell \/ TellRaises \/ Refuse \/ Return

Spec == Init /\ [][Next]_vars

-----------------------------------------------------------------------------
TypeOK ==
  /\ state \in [Configured -> {"new", "waiting", "scanning", "report", "error"}]
  /\ next \in 1..(Count + 1)
  /\ saved \subseteq Configured /\ told \subseteq Configured
  /\ Cardinality(In("scanning")) <= limit

(* One server that fails costs no other its result: of the servers passed, *)
(* those with a report are saved, each under its own name, and the others  *)
(* told, however the scans ended and whatever raised in between; at most   *)
(* the report whose printing raised is saved beyond them. A command that   *)
(* returns has answered for every server (engine.py:525-566,               *)
(* cli.py:1123-1166).                                                      *)
EveryServerAnswered ==
  LET passed == 1..(next - 1)
      broken == IF ended = "raised" THEN {next} ELSE {}
  IN /\ In("report") \cap passed \subseteq saved
     /\ saved \subseteq In("report") \cap (passed \cup broken)
     /\ told = passed \cap (IF parallel THEN In("error") ELSE Configured)
     /\ ended = "yes" => saved \cup told = Configured

(* "Scan all servers from mcpradar.toml sequentially." (cli.py:1111): a    *)
(* server is passed only once its scan has ended.                          *)
EveryServerScanned ==
  \A i \in 1..(next - 1) : state[i] \in {"report", "error"}
=============================================================================
