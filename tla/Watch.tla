-------------------------------- MODULE Watch --------------------------------
(***************************************************************************)
(* watch/watcher.py: `mcpradar watch` scans one server again and again,    *)
(* saves every report, compares it with the previous one and attempts an   *)
(* alert on every configured channel when they differ. It runs over the    *)
(* snapshot history of SnapshotTable, which other processes may purge.     *)
(*                                                                         *)
(* A scan reads the surfaces of the server one after the other; the server *)
(* may change between two reads, and a read may fail. What Differ.compare  *)
(* can tell apart of a surface is its version; how it tells is left out.   *)
(* `known` is what a receiver of the alerts knows: the first report of the *)
(* run (which the console prints), then every change that reaches it.      *)
(***************************************************************************)
EXTENDS Integers, FiniteSets, Sequences

CONSTANTS
  Ids,          \* snapshot identifiers, hence a bound on the number of scans
  LastSurface,
  Versions,     \* of a surface
  FAILED,       \* a surface that could not be read
  LastChannel,  \* configured alerts in order: the command, the webhook
  Audited,      \* whether the watcher was given an AuditLogger
  Watcher,      \* the process that runs it
  NONE

Surfaces == 1..LastSurface
Channels == 1..LastChannel
Contents == [Surfaces -> Versions \cup {FAILED}]

ASSUME WatchAssumption ==
  /\ LastSurface \in Nat \ {0} /\ LastChannel \in Nat
  /\ Audited \in BOOLEAN
  /\ FAILED \notin Versions
  /\ NONE \notin Ids \cup Contents

VARIABLES
  produced, unsaved, snapshot,  \* the snapshot history
  server,    \* the version of every surface of the server
  pc,
  surface,   \* the surface being read
  shows,     \* what the scan under way has read
  report,    \* the report of this iteration, or NONE
  last,      \* self.last_report, or NONE
  channel,   \* the channel to be tried next
  alerts,    \* alerts attempted: <<channel, older report, newer report>>
  known,
  lost,      \* channels on which an alert of this run did not arrive
  audit      \* the last event of the audit log, NONE while it is empty

history == <<produced, unsaved, snapshot>>
scan == <<surface, shows>>
loop == <<report, last, channel>>
receivers == <<alerts, known, lost>>
vars == <<produced, unsaved, snapshot, server, pc, surface, shows, report,
          last, channel, alerts, known, lost, audit>>

History == INSTANCE SnapshotTable WITH Procs <- {Watcher}, Reports <- Contents

Log(e) == audit' = IF Audited THEN e ELSE audit

NoContent == [s \in Surfaces |-> FAILED]

(* The bound on the number of scans: after every change of the server and  *)
(* every failed read one more scan can be made in full.                    *)
Free == {i \in Ids : produced[i] = NONE}
AnotherScan == Cardinality(Free) > (IF pc = "scanning" THEN 1 ELSE 0)

Init ==
  /\ History!Init
  /\ server \in [Surfaces -> Versions]
  /\ pc = "stopped"
  /\ surface = 1
  /\ shows = NoContent
  /\ report = NONE
  /\ last = NONE
  /\ channel = 1
  /\ alerts = {}
  /\ known = [c \in Channels |-> NONE]
  /\ lost = {}
  /\ audit = NONE

-----------------------------------------------------------------------------
(* The environment: the server changes, somebody purges snapshots.         *)

Edit ==
  /\ AnotherScan
  /\ \E s \in Surfaces : \E v \in Versions \ {server[s]} :
       server' = [server EXCEPT ![s] = v]
  /\ UNCHANGED <<history, pc, scan, loop, receivers, audit>>

Purge ==
  /\ \E i \in Ids : snapshot[i] # NONE /\ History!Remove({i})
  /\ UNCHANGED <<server, pc, scan, loop, receivers, audit>>

-----------------------------------------------------------------------------
(* A new process knows no last report.                                     *)
Start ==
  /\ pc = "stopped"
  /\ pc' = "sleeping"
  /\ last' = NONE
  /\ known' = [c \in Channels |-> NONE]
  /\ lost' = {}
  /\ UNCHANGED <<history, server, scan, report, channel, alerts, audit>>

BeginScan ==
  /\ pc = "sleeping"
  /\ Free # {}
  /\ pc' = "scanning"
  /\ Log("scan_started")
  /\ UNCHANGED <<history, server, scan, loop, receivers>>

(* Faulty variant: a list announced with a ttlMs is not asked for again.   *)
ReadSurfaceCached ==
  /\ pc = "scanning"
  /\ surface \in Surfaces
  /\ shows' = [shows EXCEPT ![surface] =
                 IF last = NONE THEN server[surface] ELSE produced[last][surface]]
  /\ surface' = surface + 1
  /\ UNCHANGED <<history, server, pc, loop, receivers, audit>>

ReadSurface ==
  /\ pc = "scanning"
  /\ surface \in Surfaces
  /\ \/ shows' = [shows EXCEPT ![surface] = server[surface]]
     \/ AnotherScan /\ shows' = [shows EXCEPT ![surface] = FAILED]
  /\ surface' = surface + 1
  /\ UNCHANGED <<history, server, pc, loop, receivers, audit>>

(* Identifiers are exchangeable: which one is drawn makes no difference.   *)
FreshId == CHOOSE i \in Ids : produced[i] = NONE

EndScan ==
  /\ pc = "scanning"
  /\ surface \notin Surfaces
  /\ Free # {}
  /\ produced' = [produced EXCEPT ![FreshId] = shows]
  /\ History!Produce(Watcher, FreshId)
  /\ report' = FreshId
  /\ surface' = 1
  /\ shows' = NoContent
  /\ pc' = "scanned"
  /\ Log("scan_completed")
  /\ UNCHANGED <<server, last, channel, receivers>>

(* Faulty variant: only the first report of the run is saved at once.      *)
SaveLater ==
  /\ pc = "scanned"
  /\ IF last = NONE THEN History!Put(Watcher) ELSE UNCHANGED history
  /\ pc' = "saved"
  /\ UNCHANGED <<server, scan, loop, receivers, audit>>

Save ==
  /\ pc = "scanned"
  /\ History!Put(Watcher)
  /\ pc' = "saved"
  /\ UNCHANGED <<server, scan, loop, receivers, audit>>

HasChanges == last # NONE /\ produced[last] # produced[report]

(* Faulty variant: log_diff is called once the alerts are out.             *)
CompareUnlogged ==
  /\ pc = "saved"
  /\ pc' = IF HasChanges THEN "alerting" ELSE "settling"
  /\ UNCHANGED <<history, server, scan, loop, receivers, audit>>

Compare ==
  /\ pc = "saved"
  /\ IF HasChanges
     THEN pc' = "alerting" /\ Log("diff_detected")
     ELSE pc' = "settling" /\ UNCHANGED audit
  /\ UNCHANGED <<history, server, scan, loop, receivers>>

(* Faulty variant: the channels are counted from 1 to LastChannel + 1.     *)
AlertOneMore ==
  /\ pc = "alerting"
  /\ channel <= LastChannel + 1
  /\ alerts' = alerts \cup {<<channel, last, report>>}
  /\ pc' = "alerted"
  /\ UNCHANGED <<history, server, scan, loop, known, lost, audit>>

(* _run_alert, _run_webhook: whatever goes wrong is suppressed, and the    *)
(* change may or may not have reached the receiver.                        *)
Alert ==
  /\ pc = "alerting"
  /\ channel \in Channels
  /\ alerts' = alerts \cup {<<channel, last, report>>}
  /\ \/ /\ known' = [known EXCEPT ![channel] =
                       IF @ = produced[last] THEN produced[report] ELSE @]
        /\ UNCHANGED lost
     \/ lost' = lost \cup {channel} /\ UNCHANGED known
  /\ pc' = "alerted"
  /\ UNCHANGED <<history, server, scan, loop, audit>>

(* log_alert, whether or not the alert arrived.                            *)
LogAlert ==
  /\ pc = "alerted"
  /\ Log("alert_sent")
  /\ channel' = channel + 1
  /\ pc' = "alerting"
  /\ UNCHANGED <<history, server, scan, report, last, receivers>>

(* Faulty variant: one alert per change.                                   *)
AlertsDoneFirstOnly ==
  /\ pc = "alerting"
  /\ channel \notin Channels \/ channel > 1
  /\ channel' = 1
  /\ pc' = "settling"
  /\ UNCHANGED <<history, server, scan, report, last, receivers, audit>>

AlertsDone ==
  /\ pc = "alerting"
  /\ channel \notin Channels
  /\ channel' = 1
  /\ pc' = "settling"
  /\ UNCHANGED <<history, server, scan, report, last, receivers, audit>>

(* Faulty variant: the first report of the run stays the reference.        *)
SettleKeepsFirst ==
  /\ pc = "settling"
  /\ last' = IF last = NONE THEN report ELSE last
  /\ report' = NONE
  /\ known' = IF last = NONE THEN [c \in Channels |-> produced[report]] ELSE known
  /\ pc' = "sleeping"
  /\ UNCHANGED <<history, server, scan, channel, alerts, lost, audit>>

Settle ==
  /\ pc = "settling"
  /\ last' = report
  /\ report' = NONE
  /\ known' = IF last = NONE THEN [c \in Channels |-> produced[report]] ELSE known
  /\ pc' = "sleeping"
  /\ UNCHANGED <<history, server, scan, channel, alerts, lost, audit>>

(* Interrupted or killed; or the scan, the save or the audit log raises:   *)
(* no exception is handled inside the loop.                                *)
Stop ==
  /\ pc # "stopped"
  /\ IF unsaved[Watcher] # NONE THEN History!Lose(Watcher) ELSE UNCHANGED history
  /\ pc' = "stopped"
  /\ last' = NONE
  /\ report' = NONE
  /\ surface' = 1
  /\ shows' = NoContent
  /\ channel' = 1
  /\ UNCHANGED <<server, receivers, audit>>

Step ==
  \/ BeginScan \/ ReadSurface \/ EndScan \/ Save \/ Compare
  \/ Alert \/ LogAlert \/ AlertsDone \/ Settle

Next == Edit \/ Purge \/ Start \/ Stop \/ Step

(* The event loop runs on: a surface answers or fails, both alerts have a  *)
(* timeout (30 s, 10 s), the sleep ends. Nothing restarts a stopped watch. *)
Spec == Init /\ [][Next]_vars /\ WF_vars(Step)

-----------------------------------------------------------------------------
(* Every variable stays in its type, and where the watcher is in its loop  *)
(* tells whether it holds an unsaved report (watcher.py).                  *)
TypeOK ==
  /\ History!TypeOK
  /\ server \in [Surfaces -> Versions]
  /\ pc \in {"stopped", "sleeping", "scanning", "scanned", "saved", "alerting",
             "alerted", "settling"}
  /\ surface \in 1..(LastSurface + 1)
  /\ shows \in Contents
  /\ report \in Ids \cup {NONE}
  /\ last \in Ids \cup {NONE}
  /\ channel \in 1..(LastChannel + 1)
  /\ alerts \subseteq Channels \X Ids \X Ids
  /\ known \in [Channels -> Contents \cup {NONE}]
  /\ lost \subseteq Channels
  /\ audit \in {NONE, "scan_started", "scan_completed", "diff_detected", "alert_sent"}

(* Between two scans, a receiver that none of this run's alerts failed to  *)
(* reach knows exactly the last report: the deltas it was sent, each from  *)
(* one report to the next, add up (Watcher.run).                           *)
ReceiverKeepsUp ==
  pc = "sleeping" /\ last # NONE =>
    \A c \in Channels \ lost : known[c] = produced[last]

(* The reference report never moves past a change that was not tried on    *)
(* every configured channel, even when an earlier channel failed and even  *)
(* when the older snapshot was purged meanwhile (Watcher.run).             *)
EveryChangeTried ==
  [][last # NONE /\ last' \notin {NONE, last} /\ produced[last] # produced'[last'] =>
       \A c \in Channels : <<c, last, last'>> \in alerts]_vars

(* An alert names two snapshots; when it goes out neither is a report that *)
(* a failing save can still lose (Watcher.run saves before it compares).   *)
AlertsNameSaved ==
  \A a \in alerts : unsaved[Watcher] \notin {a[2], a[3]}

(* Read as a log, the audit trail makes sense through stops and restarts:  *)
(* a completed scan follows its start, a diff follows a completed scan, an *)
(* alert follows a diff or another alert (Watcher.run, AuditLogger).       *)
MayFollow ==
  [scan_started |-> {NONE, "scan_completed", "diff_detected", "alert_sent"},
   scan_completed |-> {"scan_started"},
   diff_detected |-> {"scan_completed"},
   alert_sent |-> {"diff_detected"}]

AuditReadsRight == [][audit' # audit => audit \in MayFollow[audit']]_vars

(* A watcher that goes on running ends up with the server as it is, and so *)
(* does every receiver that no alert failed to reach.                      *)
UpToDate ==
  last # NONE =>
    /\ produced[last] = server
    /\ \A c \in Channels \ lost : known[c] = server

Converges == <>[](pc # "stopped") => <>[]UpToDate
=============================================================================
