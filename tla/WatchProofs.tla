----------------------------- MODULE WatchProofs -----------------------------
(***************************************************************************)
(* Theorems of Watch, for any number of snapshots, surfaces, versions and  *)
(* alert channels.                                                         *)
(***************************************************************************)
EXTENDS Watch, TLAPS

(* Where the watcher is in its loop tells which report it holds.           *)
Holding == {"scanned", "saved", "alerting", "alerted", "settling"}

LoopInv ==
  /\ (report # NONE) <=> (pc \in Holding)
  /\ unsaved[Watcher] = IF pc = "scanned" THEN report ELSE NONE
  /\ pc = "stopped" => last = NONE
  /\ pc \notin {"alerting", "alerted"} => channel = 1
  /\ pc = "alerted" => channel \in Channels
  /\ pc \in {"alerting", "alerted"} => HasChanges

(* Reports in hand and reports alerts speak of have been produced.         *)
ProducedInv ==
  /\ report # NONE => produced[report] # NONE
  /\ last # NONE => produced[last] # NONE
  /\ \A a \in alerts : produced[a[2]] # NONE /\ produced[a[3]] # NONE

(* Channel c has been dealt with in this iteration.                        *)
Tried(c) ==
  \/ pc = "alerting" /\ c < channel
  \/ pc = "alerted" /\ c <= channel
  \/ pc = "settling"

TriedInv ==
  last # NONE =>
    \A c \in Channels :
      /\ Tried(c) /\ HasChanges => <<c, last, report>> \in alerts
      /\ c \notin lost => known[c] = IF Tried(c) THEN produced[report] ELSE produced[last]

(* The last event in the log, where the next one depends on it.            *)
AuditInv ==
  Audited =>
    /\ pc = "scanning" => audit = "scan_started"
    /\ pc \in {"scanned", "saved"} => audit = "scan_completed"
    /\ pc \in {"alerting", "alerted"} => audit \in {"diff_detected", "alert_sent"}

WatchInv ==
  TypeOK /\ LoopInv /\ ProducedInv /\ TriedInv /\ AuditInv /\ AlertsNameSaved

-----------------------------------------------------------------------------
USE WatchAssumption DEF Surfaces, Channels, Contents, history, scan, loop, receivers

(* An identifier that is drawn was free.                                   *)
LEMMA FreshIsFree == Free # {} => FreshId \in Ids /\ produced[FreshId] = NONE
  BY DEF Free, FreshId

(* Every action keeps the types; an alert and the end of an iteration have *)
(* a report in hand.                                                        *)
LEMMA TypeStep == TypeOK /\ LoopInv /\ [Next]_vars => TypeOK'
<1> SUFFICES ASSUME TypeOK, LoopInv, [Next]_vars PROVE TypeOK'
  OBVIOUS
<1> USE DEF TypeOK, History!TypeOK
<1>1. CASE Edit
  BY <1>1 DEF Edit
<1>2. CASE Purge
  BY <1>2 DEF Purge, History!Remove
<1>3. CASE Start
  BY <1>3 DEF Start
<1>4. CASE Stop
  BY <1>4 DEF Stop, History!Lose, NoContent
<1>5. CASE BeginScan
  BY <1>5 DEF BeginScan, Log
<1>6. CASE ReadSurface
  <2>1. shows' \in Contents
    BY <1>6 DEF ReadSurface
  <2>2. surface' \in 1..(LastSurface + 1)
    BY <1>6 DEF ReadSurface
  <2> QED
    BY <1>6, <2>1, <2>2 DEF ReadSurface
<1>7. CASE EndScan
  BY <1>7, FreshIsFree DEF EndScan, Log, History!Produce, NoContent
<1>8. CASE Save
  BY <1>8 DEF Save, History!Put
<1>9. CASE Compare
  BY <1>9 DEF Compare, Log
<1>10. CASE Alert
  <2>1. known' \in [Channels -> Contents \cup {NONE}]
    BY <1>10 DEF Alert, LoopInv, Holding, HasChanges
  <2>2. alerts' \subseteq Channels \X Ids \X Ids
    BY <1>10 DEF Alert, LoopInv, Holding, HasChanges
  <2> QED
    BY <1>10, <2>1, <2>2 DEF Alert
<1>11. CASE LogAlert
  BY <1>11 DEF LogAlert, Log, LoopInv
<1>12. CASE AlertsDone
  BY <1>12 DEF AlertsDone
<1>13. CASE Settle
  BY <1>13 DEF Settle, LoopInv, Holding
<1>14. CASE UNCHANGED vars
  BY <1>14 DEF vars
<1> QED
  BY <1>1, <1>2, <1>3, <1>4, <1>5, <1>6, <1>7, <1>8, <1>9, <1>10, <1>11,
     <1>12, <1>13, <1>14 DEF Next, Step

(* What the watcher holds goes with where it is.                           *)
LEMMA LoopStep == TypeOK /\ LoopInv /\ ProducedInv /\ [Next]_vars => LoopInv'
<1> SUFFICES ASSUME TypeOK, LoopInv, ProducedInv, [Next]_vars PROVE LoopInv'
  OBVIOUS
<1> USE DEF TypeOK, History!TypeOK, LoopInv, Holding
<1>1. CASE Edit \/ BeginScan \/ ReadSurface
  BY <1>1 DEF Edit, BeginScan, ReadSurface, HasChanges
<1>2. CASE Purge
  BY <1>2 DEF Purge, History!Remove, HasChanges
<1>3. CASE Start
  BY <1>3 DEF Start
<1>4. CASE Stop
  BY <1>4 DEF Stop, History!Lose
<1>5. CASE EndScan
  BY <1>5, FreshIsFree DEF EndScan, History!Produce
<1>6. CASE Save
  BY <1>6 DEF Save, History!Put
<1>7. CASE Compare
  BY <1>7 DEF Compare, HasChanges
<1>8. CASE Alert \/ LogAlert \/ AlertsDone
  BY <1>8 DEF Alert, LogAlert, AlertsDone, HasChanges
<1>9. CASE Settle
  BY <1>9 DEF Settle
<1>10. CASE UNCHANGED vars
  BY <1>10 DEF vars, HasChanges
<1> QED
  BY <1>1, <1>2, <1>3, <1>4, <1>5, <1>6, <1>7, <1>8, <1>9, <1>10 DEF Next, Step

(* Only EndScan touches produced, and only where nothing was.              *)
LEMMA ProducedStep ==
  TypeOK /\ LoopInv /\ ProducedInv /\ [Next]_vars =>
    /\ ProducedInv'
    /\ \A i \in Ids : produced[i] # NONE => produced'[i] = produced[i]
<1> SUFFICES ASSUME TypeOK, LoopInv, ProducedInv, [Next]_vars
             PROVE  /\ ProducedInv'
                    /\ \A i \in Ids : produced[i] # NONE => produced'[i] = produced[i]
  OBVIOUS
<1> USE DEF TypeOK, History!TypeOK, LoopInv, Holding, ProducedInv
<1>1. CASE Edit \/ BeginScan \/ ReadSurface \/ Compare
  BY <1>1 DEF Edit, BeginScan, ReadSurface, Compare
<1>2. CASE Purge
  BY <1>2 DEF Purge, History!Remove
<1>3. CASE Start \/ Stop
  BY <1>3 DEF Start, Stop, History!Lose
<1>4. CASE EndScan
  BY <1>4, FreshIsFree DEF EndScan, History!Produce
<1>5. CASE Save
  BY <1>5 DEF Save, History!Put
<1>6. CASE Alert
  BY <1>6 DEF Alert, HasChanges
<1>7. CASE LogAlert \/ AlertsDone \/ Settle
  BY <1>7 DEF LogAlert, AlertsDone, Settle
<1>8. CASE UNCHANGED vars
  BY <1>8 DEF vars
<1> QED
  BY <1>1, <1>2, <1>3, <1>4, <1>5, <1>6, <1>7, <1>8 DEF Next, Step

(* One more channel is dealt with at a time.                               *)
LEMMA TriedStep ==
  TypeOK /\ LoopInv /\ ProducedInv /\ TriedInv /\ [Next]_vars => TriedInv'
<1> SUFFICES ASSUME TypeOK, LoopInv, ProducedInv, TriedInv, [Next]_vars
             PROVE  TriedInv'
  OBVIOUS
<1> USE DEF TypeOK, History!TypeOK, LoopInv, Holding, ProducedInv, TriedInv, Tried, HasChanges
<1>1. CASE Edit \/ BeginScan \/ ReadSurface \/ Compare
  BY <1>1 DEF Edit, BeginScan, ReadSurface, Compare
<1>2. CASE Purge
  BY <1>2 DEF Purge, History!Remove
<1>3. CASE Start \/ Stop
  BY <1>3 DEF Start, Stop
<1>4. CASE EndScan
  BY <1>4, FreshIsFree DEF EndScan, History!Produce
<1>5. CASE Save
  BY <1>5 DEF Save, History!Put
<1>6. CASE Alert
  <2> SUFFICES ASSUME NEW c \in Channels
               PROVE  /\ Tried(c)' => <<c, last, report>> \in alerts'
                      /\ c \notin lost' =>
                           known'[c] = IF Tried(c)' THEN produced[report] ELSE produced[last]
    BY <1>6 DEF Alert
  <2>1. last # NONE /\ last' = last /\ report' = report /\ channel' = channel
        /\ produced' = produced /\ pc = "alerting" /\ pc' = "alerted"
    BY <1>6 DEF Alert
  <2>2. Tried(c)' => <<c, last, report>> \in alerts'
    BY <1>6, <2>1 DEF Alert
  <2>3. c \notin lost => known[c] = IF c < channel THEN produced[report] ELSE produced[last]
    BY <2>1
  <2>4. c \notin lost' => known'[c] = IF c <= channel THEN produced[report] ELSE produced[last]
    <3>1. c # channel => known'[c] = known[c] /\ (c \in lost' <=> c \in lost)
      BY <1>6 DEF Alert
    <3>2. c = channel /\ c \notin lost' =>
            /\ c \notin lost
            /\ known'[c] = IF known[c] = produced[last] THEN produced[report] ELSE known[c]
      BY <1>6 DEF Alert
    <3> QED
      BY <2>3, <3>1, <3>2
  <2> QED
    BY <2>1, <2>2, <2>4
<1>7. CASE LogAlert
  BY <1>7 DEF LogAlert
<1>8. CASE AlertsDone
  BY <1>8 DEF AlertsDone
<1>9. CASE Settle
  BY <1>9 DEF Settle
<1>10. CASE UNCHANGED vars
  BY <1>10 DEF vars
<1> QED
  BY <1>1, <1>2, <1>3, <1>4, <1>5, <1>6, <1>7, <1>8, <1>9, <1>10 DEF Next, Step

(* The log is written at the places Watcher.run writes it.                 *)
LEMMA AuditStep == TypeOK /\ AuditInv /\ [Next]_vars => AuditInv'
<1> SUFFICES ASSUME TypeOK, AuditInv, [Next]_vars PROVE AuditInv'
  OBVIOUS
<1> USE DEF AuditInv
<1>1. CASE Edit \/ Purge \/ Start \/ Stop
  BY <1>1 DEF Edit, Purge, Start, Stop
<1>2. CASE BeginScan \/ EndScan \/ Compare \/ LogAlert
  BY <1>2 DEF BeginScan, EndScan, Compare, LogAlert, Log
<1>3. CASE ReadSurface \/ Save \/ Alert \/ AlertsDone \/ Settle
  BY <1>3 DEF ReadSurface, Save, Alert, AlertsDone, Settle
<1>4. CASE UNCHANGED vars
  BY <1>4 DEF vars
<1> QED
  BY <1>1, <1>2, <1>3, <1>4 DEF Next, Step

(* A report is saved before anything is said of it.                        *)
LEMMA SavedStep ==
  TypeOK /\ LoopInv /\ ProducedInv /\ AlertsNameSaved /\ [Next]_vars => AlertsNameSaved'
<1> SUFFICES ASSUME TypeOK, LoopInv, ProducedInv, AlertsNameSaved, [Next]_vars
             PROVE  AlertsNameSaved'
  OBVIOUS
<1> USE DEF TypeOK, History!TypeOK, LoopInv, Holding, ProducedInv, AlertsNameSaved
<1>1. CASE Edit \/ Start \/ BeginScan \/ ReadSurface \/ Compare \/ LogAlert
           \/ AlertsDone \/ Settle
  BY <1>1 DEF Edit, Start, BeginScan, ReadSurface, Compare, LogAlert, AlertsDone, Settle
<1>2. CASE Purge
  BY <1>2 DEF Purge, History!Remove
<1>3. CASE Stop
  BY <1>3 DEF Stop, History!Lose
<1>4. CASE EndScan
  BY <1>4, FreshIsFree DEF EndScan, History!Produce
<1>5. CASE Save
  BY <1>5 DEF Save, History!Put
<1>6. CASE Alert
  BY <1>6 DEF Alert, HasChanges
<1>7. CASE UNCHANGED vars
  BY <1>7 DEF vars
<1> QED
  BY <1>1, <1>2, <1>3, <1>4, <1>5, <1>6, <1>7 DEF Next, Step

(* At first nothing is held, produced or said.                             *)
LEMMA WatchInit == Init => WatchInv
  BY DEF Init, History!Init, NoContent, WatchInv, TypeOK, History!TypeOK, LoopInv,
     Holding, HasChanges, ProducedInv, TriedInv, AuditInv, AlertsNameSaved

-----------------------------------------------------------------------------
(* The invariant of watcher.py's loop holds in every state.                *)
THEOREM WatchInvariant == Spec => []WatchInv
<1>1. WatchInv /\ [Next]_vars => WatchInv'
  BY TypeStep, LoopStep, ProducedStep, TriedStep, AuditStep, SavedStep DEF WatchInv
<1> QED
  BY <1>1, WatchInit, PTL DEF Spec

(* Every variable of the watcher stays in its type (watcher.py).           *)
THEOREM TypeCorrect == Spec => []TypeOK
<1>1. WatchInv => TypeOK
  BY DEF WatchInv
<1> QED
  BY <1>1, WatchInvariant, PTL

(* A receiver no alert failed to reach knows the last report.              *)
THEOREM ReceiverIsCurrent == Spec => []ReceiverKeepsUp
<1>1. WatchInv => ReceiverKeepsUp
  BY DEF WatchInv, TriedInv, Tried, ReceiverKeepsUp
<1> QED
  BY <1>1, WatchInvariant, PTL

(* Alerts speak only of reports that were saved (Watcher.run).             *)
THEOREM AlertsAfterSave == Spec => []AlertsNameSaved
<1>1. WatchInv => AlertsNameSaved
  BY DEF WatchInv
<1> QED
  BY <1>1, WatchInvariant, PTL

(* The reference report moves past a change only after every channel was   *)
(* tried (Watcher.run).                                                    *)
THEOREM ChangesAreTried == Spec => EveryChangeTried
<1> DEFINE Tried2 ==
      last # NONE /\ last' \notin {NONE, last} /\ produced[last] # produced'[last'] =>
        \A c \in Channels : <<c, last, last'>> \in alerts
<1>1. WatchInv /\ [Next]_vars => [Tried2]_vars
  <2> SUFFICES ASSUME WatchInv, Next PROVE Tried2
    OBVIOUS
  <2> USE DEF WatchInv, TypeOK, History!TypeOK, LoopInv, Holding, TriedInv, Tried, HasChanges
  <2>1. CASE Settle
    BY <2>1 DEF Settle
  <2>2. CASE Start \/ Stop
    BY <2>2 DEF Start, Stop
  <2>3. CASE Edit \/ Purge \/ BeginScan \/ ReadSurface \/ EndScan \/ Save \/ Compare
             \/ Alert \/ LogAlert \/ AlertsDone
    BY <2>3 DEF Edit, Purge, BeginScan, ReadSurface, EndScan, Save, Compare, Alert,
                LogAlert, AlertsDone
  <2> QED
    BY <2>1, <2>2, <2>3 DEF Next, Step
<1> QED
  BY <1>1, WatchInvariant, PTL DEF Spec, EveryChangeTried

(* The audit log reads in the order things happened (AuditLogger).         *)
THEOREM AuditIsOrdered == Spec => AuditReadsRight
<1>1. WatchInv /\ [Next]_vars => [audit' # audit => audit \in MayFollow[audit']]_vars
  <2> SUFFICES ASSUME WatchInv, Next, audit' # audit PROVE audit \in MayFollow[audit']
    OBVIOUS
  <2> USE DEF WatchInv, TypeOK, AuditInv, MayFollow
  <2>1. CASE Edit \/ Purge \/ Start \/ Stop
    BY <2>1 DEF Edit, Purge, Start, Stop
  <2>2. CASE BeginScan
    BY <2>2 DEF BeginScan, Log
  <2>3. CASE EndScan
    BY <2>3 DEF EndScan, Log
  <2>4. CASE Compare
    BY <2>4 DEF Compare, Log
  <2>5. CASE LogAlert
    BY <2>5 DEF LogAlert, Log
  <2>6. CASE ReadSurface \/ Save \/ Alert \/ AlertsDone \/ Settle
    BY <2>6 DEF ReadSurface, Save, Alert, AlertsDone, Settle
  <2> QED
    BY <2>1, <2>2, <2>3, <2>4, <2>5, <2>6 DEF Next, Step
<1> QED
  BY <1>1, WatchInvariant, PTL DEF Spec, AuditReadsRight
=============================================================================
